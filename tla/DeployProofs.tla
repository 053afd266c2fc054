---------------------------- MODULE DeployProofs ----------------------------
(***************************************************************************)
(* Proofs about DeployTransfer and, after it, DeployNodes.                 *)
(*                                                                         *)
(* DeployTransfer, for any transfers, chunks, retries and delays: what is  *)
(* deployed is the whole ZIP, a node reported ok has been deployed, no     *)
(* chunk comes after a gap, no temp file is forgotten.                     *)
(*                                                                         *)
(* The properties hold together.  A begin still in flight is the only call *)
(* of its transfer and the agent knows nothing of it; there is one commit, *)
(* and no deploy before it is answered; a file is in the map, then with    *)
(* the commit that checks it, then with the deploy: one at a time.         *)
(***************************************************************************)
EXTENDS DeployTransfer, DeployNodes, TLAPS

Fresh(t) == t \notin open /\ t \notin files /\ deploys[t] = "none"

NotStarted ==
  \A t \in Transfer :
    sender[t].at = "notStarted" => Fresh(t) /\ \A c \in calls : c.transfer # t

BeginFirst ==
  \A c \in calls :
    c.from.at = "begin" =>
      /\ c.at = "sent"
      /\ Fresh(c.transfer)
      /\ sender[c.transfer].at \in {"begin", "failed", "lost"}
      /\ \A d \in calls : d.transfer = c.transfer => d = c

BeforeCommit ==
  \A t \in Transfer :
    sender[t].at \in {"notStarted", "begin", "chunk"} =>
      /\ deploys[t] = "none"
      /\ \A c \in calls : c.transfer = t => c.from.at # "commit"

OneCommit ==
  \A c, d \in calls :
    c.transfer = d.transfer /\ c.from.at = "commit" /\ d.from.at = "commit" => c = d

CommitFirst == \A c \in calls : c.from.at = "commit" => deploys[c.transfer] = "none"

Served ==
  \A c \in calls :
    /\ c.from.at \in Method
    /\ c.from.at = "chunk" => c.from.chunk \in AllChunks
    /\ c.at = "writing" => c.from.at = "chunk"
    /\ c.at = "checking" =>
         c.from.at = "commit" /\ c.transfer \notin open /\ c.transfer \in files

OpenHasFile == \A t \in open : t \in files /\ deploys[t] = "none"

DownIsEmpty ==
  ~up => /\ open = {}
         /\ \A t \in Transfer : deploys[t] = "none"
         /\ \A c \in calls : c.at = "sent"

DoneIsDeployed == \A t \in Transfer : deploys[t] = "done" => t \in deployed

NextChunk ==
  \A t \in Transfer :
    sender[t].at = "chunk" =>
      sender[t].chunk \in AllChunks /\ (t \in open => sender[t].chunk - 1 <= received[t])

Inv ==
  /\ TypeOK
  /\ NotStarted
  /\ BeginFirst
  /\ BeforeCommit
  /\ OneCommit
  /\ CommitFirst
  /\ Served
  /\ OpenHasFile
  /\ DownIsEmpty
  /\ DoneIsDeployed
  /\ NextChunk
  /\ DeploysWholeZip
  /\ OkIsDeployed
  /\ NoGap
  /\ FileInUse

-----------------------------------------------------------------------------
(* What follows an answer, a refusal, a call that throws. *)

\* The sender goes on from one state of a call to another.
Follows(s, next, ok) ==
  /\ next \in Sender
  /\ s.at = "begin" => /\ next.at \in {"chunk", "commit", "failed"}
                       /\ next.at = "chunk" => ok /\ next.chunk = 1 /\ 1 \in AllChunks
                       /\ next.at = "commit" => ok
  /\ s.at = "chunk" => /\ next.at \in {"chunk", "commit", "abort"}
                       /\ next.at = "chunk" => next.chunk \in {s.chunk} \union
                                                    (IF ok THEN {s.chunk + 1} ELSE {})
                       /\ next.at = "commit" => ok
  /\ s.at = "commit" => next.at \in {"poll", "abort", "failed"}
  /\ s.at = "abort" => next.at = "failed"

LEMMA AfterOkFollows ==
  ASSUME NEW s \in Sender, s.at \in Method
  PROVE  Follows(s, AfterOk(s), TRUE)
<1>1. CASE s.at = "begin"
  BY <1>1, TransferAssumption DEF Follows, AfterOk, After, AllChunks, State, Sender, Method, Over
<1>2. CASE s.at = "chunk"
  BY <1>2, TransferAssumption DEF Follows, AfterOk, After, AllChunks, State, Sender, Method, Over
<1>3. CASE s.at = "commit"
  BY <1>3, TransferAssumption DEF Follows, AfterOk, State, Sender, Method, Over
<1>4. CASE s.at = "abort"
  BY <1>4, TransferAssumption DEF Follows, AfterOk, State, Sender, Method, Over
<1> QED BY <1>1, <1>2, <1>3, <1>4 DEF Method

LEMMA RetriedFollows ==
  ASSUME NEW s \in Sender, s.at = "chunk"
  PROVE  Follows(s, Retried(s), FALSE)
<1>1. CASE s.attempt < ChunkRetries
  BY <1>1 DEF Follows, Retried, Sender, Method, Over
<1>2. CASE ~(s.attempt < ChunkRetries)
  BY <1>2, TransferAssumption DEF Follows, Retried, State, Sender, Method, Over
<1> QED BY <1>1, <1>2

LEMMA AfterRefusalFollows ==
  ASSUME NEW s \in Sender, s.at \in Method
  PROVE  Follows(s, AfterRefusal(s), FALSE)
<1>1. CASE s.at = "chunk"
  BY <1>1, RetriedFollows DEF AfterRefusal
<1>2. CASE s.at # "chunk"
  BY <1>2, TransferAssumption DEF Follows, AfterRefusal, State, Sender, Method, Over
<1> QED BY <1>1, <1>2

LEMMA AfterThrowFollows ==
  ASSUME NEW s \in Sender, s.at \in Method
  PROVE  Follows(s, AfterThrow(s), FALSE)
<1>1. CASE s.at = "chunk"
  BY <1>1, RetriedFollows DEF AfterThrow
<1>2. CASE s.at = "commit"
  BY <1>2, TransferAssumption DEF Follows, AfterThrow, State, Sender, Method, Over
<1>3. CASE s.at \in {"begin", "abort"}
  BY <1>3, TransferAssumption DEF Follows, AfterThrow, State, Sender, Method, Over
<1> QED BY <1>1, <1>2, <1>3 DEF Method

\* The sender t goes on as s: the only new call is the one it makes there.
LEMMA GoesOn ==
  ASSUME TypeOK, NEW t \in Transfer, NEW s \in Sender, NEW left \in SUBSET calls,
         Goes(t, s, left)
  PROVE  /\ sender' \in [Transfer -> Sender]
         /\ sender'[t] = s
         /\ \A u \in Transfer \ {t} : sender'[u] = sender[u]
         /\ calls' \subseteq Call
         /\ left \subseteq calls'
         /\ \A d \in calls' \ left : /\ d.transfer = t /\ d.from = s /\ d.at = "sent"
                                    /\ s.at \in Method
<1>1. s.at \in Method => [transfer |-> t, from |-> s, at |-> "sent"] \in Call
  BY DEF Call
<1> QED BY <1>1 DEF TypeOK, Goes, WithCall

\* c is answered: its sender goes on, or has given it up.
Answered(c, ok) ==
  /\ sender' \in [Transfer -> Sender]
  /\ \A u \in Transfer \ {c.transfer} : sender'[u] = sender[u]
  /\ \/ sender' = sender
     \/ sender[c.transfer] = c.from /\ Follows(c.from, sender'[c.transfer], ok)
  /\ calls' \subseteq Call
  /\ calls \ {c} \subseteq calls'
  /\ \A d \in calls' \ (calls \ {c}) :
       /\ d.transfer = c.transfer /\ d.from = sender'[c.transfer] /\ d.at = "sent"
       /\ d.from.at \in Method
       /\ sender[c.transfer] = c.from /\ Follows(c.from, d.from, ok)

LEMMA AnswerFollows ==
  ASSUME TypeOK, Served, NEW c \in calls, NEW ok \in BOOLEAN, Answer(c, ok)
  PROVE  Answered(c, ok)
<1> DEFINE t == c.transfer
           s == IF ok THEN AfterOk(c.from) ELSE AfterRefusal(c.from)
<1>1. t \in Transfer /\ c.from \in Sender /\ c.from.at \in Method
  BY DEF TypeOK, Call, Served
<1>2. Follows(c.from, s, ok)
  <2>1. CASE ok BY <2>1, <1>1, AfterOkFollows
  <2>2. CASE ~ok BY <2>2, <1>1, AfterRefusalFollows
  <2> QED BY <2>1, <2>2
<1>3. s \in Sender BY <1>2 DEF Follows
<1>4. CASE sender[t] = c.from
  <2>1. Goes(t, s, calls \ {c}) BY <1>4 DEF Answer
  <2> HIDE DEF s
  <2> QED BY <2>1, <1>1, <1>2, <1>3, <1>4, GoesOn DEF Answered
<1>5. CASE sender[t] # c.from
  BY <1>5 DEF Answer, Answered, TypeOK
<1> QED BY <1>4, <1>5

-----------------------------------------------------------------------------
(* Each step keeps the invariant. *)

LEMMA InitInv == Init => Inv
BY TransferAssumption
   DEF Init, Inv, TypeOK, Sender, Method, Over, State, AllChunks, NotStarted, Fresh, BeginFirst,
       BeforeCommit, OneCommit, CommitFirst, Served, OpenHasFile, DownIsEmpty, DoneIsDeployed,
       NextChunk, DeploysWholeZip, OkIsDeployed, NoGap, FileInUse

\* A step of the sender t without an ok, or of a call: at most the same chunk is
\* sent again, or the abort; a commit being checked goes if its file cannot be
\* read.
Moves(t) ==
  /\ sender' \in [Transfer -> Sender]
  /\ \A u \in Transfer \ {t} : sender'[u] = sender[u]
  /\ sender'[t] # sender[t] =>
       /\ sender[t].at # "notStarted"
       /\ sender[t].at \in {"begin", "failed", "lost"} => sender'[t].at \in {"failed", "lost"}
       /\ sender'[t].at \notin {"notStarted", "begin"}
       /\ sender'[t].at = "chunk" => sender[t].at = "chunk" /\ sender'[t].chunk = sender[t].chunk
       /\ sender'[t].at = "ok" => deploys[t] = "done"
  /\ calls' \subseteq Call
  /\ \A d \in calls \ calls' : d.at = "checking" => ReadErrors
  /\ \A d \in calls' \ calls :
       /\ d.transfer = t /\ d.from = sender'[t] /\ d.at = "sent"
       /\ d.from.at \in {"chunk", "abort"}
       /\ sender[t].at \notin {"notStarted", "begin", "failed", "lost"}
       /\ d.from.at = "chunk" => sender[t].at = "chunk" /\ d.from.chunk = sender[t].chunk
  /\ restartIn' \in [Transfer -> -1..RestartDelay]
  /\ UNCHANGED <<up, open, received, files, disk, deploys, deployed>>

LEMMA MovesInv ==
  ASSUME Inv, NEW t \in Transfer, Moves(t)
  PROVE  Inv'
<1>1. TypeOK'
  BY DEF Inv, Moves, TypeOK
<1>2. NotStarted'
  BY DEF Inv, Moves, NotStarted, Fresh
<1>3. BeginFirst'
  BY DEF Inv, Moves, BeginFirst, Fresh, Call
<1>4. BeforeCommit'
  BY DEF Inv, Moves, BeforeCommit
<1>5. OneCommit'
  BY DEF Inv, Moves, OneCommit
<1>6. CommitFirst'
  BY DEF Inv, Moves, CommitFirst
<1>7. Served'
  BY DEF Inv, Moves, Served, Method, NextChunk
<1>8. OpenHasFile'
  BY DEF Inv, Moves, OpenHasFile
<1>9. DownIsEmpty'
  BY DEF Inv, Moves, DownIsEmpty
<1>10. DoneIsDeployed'
  BY DEF Inv, Moves, DoneIsDeployed
<1>11. NextChunk'
  BY DEF Inv, Moves, NextChunk
<1>12. DeploysWholeZip'
  BY DEF Inv, Moves, DeploysWholeZip
<1>13. OkIsDeployed'
  BY DEF Inv, Moves, OkIsDeployed, DoneIsDeployed
<1>14. NoGap'
  BY DEF Inv, Moves, NoGap, NextChunk
<1>15. FileInUse'
  BY DEF Inv, Moves, FileInUse, Checking
<1> QED
  BY <1>1, <1>2, <1>3, <1>4, <1>5, <1>6, <1>7, <1>8, <1>9, <1>10, <1>11, <1>12, <1>13,
     <1>14, <1>15
     DEF Inv

\* The steps of a sender.
LEMMA SenderMoves ==
  ASSUME Inv, NEW t \in Transfer, SenderStep(t) \/ SenderStops(t)
  PROVE  Inv'
<1>1. sender[t] \in Sender /\ restartIn[t] \in -1..RestartDelay
  BY DEF Inv, TypeOK
<1>2. CASE Throws(t)
  <2> DEFINE s == AfterThrow(sender[t])
  <2>1. sender[t].at \in Method BY <1>2 DEF Throws
  <2>2. Follows(sender[t], s, FALSE) BY <1>1, <2>1, AfterThrowFollows
  <2>3. s \in Sender BY <2>2 DEF Follows
  <2>4. Goes(t, s, calls) BY <1>2 DEF Throws
  <2> HIDE DEF s
  <2>5. /\ sender' \in [Transfer -> Sender]
        /\ sender'[t] = s
        /\ \A u \in Transfer \ {t} : sender'[u] = sender[u]
        /\ calls' \subseteq Call
        /\ calls \subseteq calls'
        /\ \A d \in calls' \ calls : /\ d.transfer = t /\ d.from = s /\ d.at = "sent"
                                    /\ s.at \in Method
    BY <2>3, <2>4, GoesOn DEF Inv
  <2>6. UNCHANGED agent /\ restartIn' \in [Transfer -> -1..RestartDelay]
    BY <1>2 DEF Throws, agent, Inv, TypeOK
  <2>7. Moves(t)
    BY <2>1, <2>2, <2>5, <2>6 DEF Moves, Follows, Method, agent
  <2> QED BY <2>7, MovesInv
<1>3. ASSUME NEW s \in Sender, s.at \in {"poll", "ok", "failed"}, Goes(t, s, calls),
             s.at = "ok" => deploys[t] = "done", sender[t].at = "poll",
             PollPasses(t), UNCHANGED <<up, open, received, files, disk, deploys, deployed>>
      PROVE  Inv'
  <2>1. sender' = [sender EXCEPT ![t] = s] /\ calls' = calls
    BY <1>3 DEF Goes, WithCall, Method
  <2>2. restartIn' \in [Transfer -> -1..RestartDelay]
    BY <1>1, <1>3, TransferAssumption DEF PollPasses, Inv, TypeOK
  <2>3. Moves(t)
    BY <1>3, <2>1, <2>2 DEF Moves, Inv, TypeOK
  <2> QED BY <2>3, MovesInv
<1>4. \A n \in Nat, at \in {"poll", "ok", "failed"} : State(at, 0, n) \in Sender
  BY TransferAssumption DEF State, Sender, Over
<1>5. CASE Poll(t)
  BY <1>3, <1>4, <1>5 DEF Poll, State, Inv, TypeOK
<1>6. CASE PollThrows(t)
  BY <1>1, <1>3, <1>4, <1>6 DEF PollThrows, State, Sender
<1>7. CASE SenderStops(t)
  <2>1. State("lost", 0, 0) \in Sender /\ State("lost", 0, 0).at = "lost"
    BY TransferAssumption DEF State, Sender, Over
  <2>2. Moves(t)
    BY <1>7, <2>1 DEF SenderStops, Moves, agent, Over, Inv, TypeOK
  <2> QED BY <2>2, MovesInv
<1> QED BY <1>2, <1>5, <1>6, <1>7 DEF SenderStep

\* A call that is refused, or lost, and leaves the agent as it was.
LEMMA RefusalInv ==
  ASSUME Inv, NEW c \in calls, Answer(c, FALSE), c.at = "checking" => ReadErrors,
         UNCHANGED agent
  PROVE  Inv'
<1>1. c.transfer \in Transfer /\ c.from \in Sender /\ c.from.at \in Method
  BY DEF Inv, TypeOK, Served, Call
<1>2. Answered(c, FALSE) BY AnswerFollows DEF Inv
<1>3. c.from.at = "begin" => sender[c.transfer].at \in {"begin", "failed", "lost"}
  BY DEF Inv, BeginFirst
<1>4. sender[c.transfer] \in Sender BY <1>1 DEF Inv, TypeOK
<1>5. Moves(c.transfer)
  BY <1>1, <1>2, <1>3, <1>4 DEF Moves, Answered, Follows, Method, agent, Inv, TypeOK
<1> QED BY <1>1, <1>5, MovesInv

LEMMA RequestLostInv ==
  ASSUME Inv, NEW c \in calls, RequestLost(c)
  PROVE  Inv'
<1>1. c.transfer \in Transfer BY DEF Inv, TypeOK, Call
<1>2. Moves(c.transfer) BY <1>1 DEF RequestLost, Moves, agent, Inv, TypeOK
<1> QED BY <1>1, <1>2, MovesInv

LEMMA SendZipInv ==
  ASSUME Inv, NEW t \in Transfer, SendZip(t)
  PROVE  Inv'
<1> DEFINE b == [transfer |-> t, from |-> State("begin", 0, 0), at |-> "sent"]
<1>1. b \in Call /\ b.transfer = t /\ b.from.at = "begin" /\ b.at = "sent"
  BY TransferAssumption DEF State, Sender, Method, Call
<1>2. sender' = [sender EXCEPT ![t] = b.from] /\ calls' = calls \union {b}
  BY DEF SendZip, Goes, WithCall, State, Method
<1>3. Fresh(t) /\ sender[t].at = "notStarted" /\ \A c \in calls : c.transfer # t
  BY DEF SendZip, Inv, NotStarted
<1>4. UNCHANGED agent BY DEF SendZip
<1> HIDE DEF b
<1>5. TypeOK'
  BY <1>1, <1>2, <1>4 DEF Inv, agent, TypeOK, Call
<1>6. NotStarted'
  BY <1>1, <1>2, <1>4 DEF Inv, agent, TypeOK, NotStarted, Fresh
<1>7. BeginFirst'
  BY <1>1, <1>2, <1>3, <1>4 DEF Inv, agent, TypeOK, BeginFirst, Fresh
<1>8. BeforeCommit'
  BY <1>1, <1>2, <1>3, <1>4 DEF Inv, agent, BeforeCommit
<1>9. OneCommit'
  BY <1>1, <1>2 DEF Inv, OneCommit
<1>10. CommitFirst'
  BY <1>1, <1>2, <1>4 DEF Inv, agent, CommitFirst
<1>11. Served'
  BY <1>1, <1>2, <1>4 DEF Inv, agent, Served, Method
<1>12. OpenHasFile'
  BY <1>4 DEF Inv, agent, OpenHasFile
<1>13. DownIsEmpty'
  BY <1>1, <1>2, <1>4 DEF Inv, agent, DownIsEmpty
<1>14. DoneIsDeployed'
  BY <1>4 DEF Inv, agent, DoneIsDeployed
<1>15. NextChunk'
  BY <1>1, <1>2, <1>4 DEF Inv, agent, NextChunk
<1>16. DeploysWholeZip'
  BY <1>4 DEF Inv, agent, DeploysWholeZip
<1>17. OkIsDeployed'
  BY <1>1, <1>2, <1>4 DEF Inv, agent, OkIsDeployed
<1>18. NoGap'
  BY <1>1, <1>2, <1>4 DEF Inv, agent, NoGap
<1>19. FileInUse'
  BY <1>2, <1>4 DEF Inv, agent, FileInUse, Checking
<1> QED
  BY <1>5, <1>6, <1>7, <1>8, <1>9, <1>10, <1>11, <1>12, <1>13, <1>14, <1>15, <1>16, <1>17,
     <1>18, <1>19
     DEF Inv

LEMMA ReceiveBeginInv ==
  ASSUME Inv, NEW c \in calls, ReceiveBegin(c)
  PROVE  Inv'
<1> DEFINE t == c.transfer
<1>1. /\ t \in Transfer /\ c.from \in Sender /\ c.from.at = "begin" /\ up
      /\ Fresh(t) /\ sender[t].at \in {"begin", "failed", "lost"}
      /\ \A d \in calls \ {c} : d.transfer # t
  BY DEF ReceiveBegin, Serves, Inv, TypeOK, Call, BeginFirst
<1>2. Answered(c, TRUE) BY AnswerFollows DEF ReceiveBegin, Inv
<1>3. sender'[t] = sender[t] \/ sender'[t].at \in {"chunk", "commit", "failed"}
  BY <1>1, <1>2 DEF Answered, Follows
<1>4. sender'[t].at = "chunk" => sender'[t].chunk = 1 /\ 1 \in AllChunks
  BY <1>1, <1>2 DEF Answered, Follows
<1>5. \A d \in calls' :
        \/ d \in calls /\ d.transfer # t
        \/ /\ d.transfer = t /\ d.from = sender'[t] /\ d.at = "sent"
           /\ d.from.at \in {"chunk", "commit"}
           /\ d.from.at = "chunk" => d.from.chunk = 1 /\ 1 \in AllChunks
  BY <1>1, <1>2 DEF Answered, Follows, Method
<1>6. /\ sender' \in [Transfer -> Sender] /\ calls' \subseteq Call
      /\ \A u \in Transfer \ {t} : sender'[u] = sender[u]
      /\ \A d \in calls : d.transfer # t => d \in calls'
  BY <1>2 DEF Answered
<1>7. /\ open' = open \union {t} /\ received' = [received EXCEPT ![t] = 0]
      /\ files' = files \union {t} /\ disk' = [disk EXCEPT ![t] = {}]
      /\ UNCHANGED <<up, deploys, restartIn, deployed>>
  BY DEF ReceiveBegin
<1>8. \A d, e \in calls' : d.transfer = t /\ e.transfer = t => d = e
  BY <1>5, <1>6 DEF Call
<1> HIDE DEF t
<1>9. TypeOK'
  BY <1>1, <1>6, <1>7, TransferAssumption DEF Inv, TypeOK
<1>10. NotStarted'
  BY <1>1, <1>3, <1>5, <1>6, <1>7 DEF Inv, NotStarted, Fresh
<1>11. BeginFirst'
  BY <1>5, <1>6, <1>7 DEF Inv, BeginFirst, Fresh, Call
<1>12. BeforeCommit'
  BY <1>1, <1>5, <1>6, <1>7 DEF Inv, BeforeCommit, Fresh
<1>13. OneCommit'
  BY <1>5, <1>8 DEF Inv, OneCommit
<1>14. CommitFirst'
  BY <1>1, <1>5, <1>7 DEF Inv, CommitFirst, Fresh
<1>15. Served'
  BY <1>5, <1>7 DEF Inv, Served, Method
<1>16. OpenHasFile'
  BY <1>1, <1>7 DEF Inv, OpenHasFile, Fresh
<1>17. DownIsEmpty'
  BY <1>1, <1>7 DEF DownIsEmpty
<1>18. DoneIsDeployed'
  BY <1>7 DEF Inv, DoneIsDeployed
<1>19. NextChunk'
  BY <1>4, <1>6, <1>7 DEF Inv, TypeOK, NextChunk
<1>20. DeploysWholeZip'
  BY <1>1, <1>7 DEF Inv, DeploysWholeZip, Fresh
<1>21. OkIsDeployed'
  BY <1>3, <1>6, <1>7 DEF Inv, OkIsDeployed
<1>22. NoGap'
  BY <1>1, <1>5, <1>7 DEF Inv, TypeOK, NoGap
<1>23. FileInUse'
  BY <1>6, <1>7 DEF Inv, FileInUse, Checking
<1> QED
  BY <1>9, <1>10, <1>11, <1>12, <1>13, <1>14, <1>15, <1>16, <1>17, <1>18, <1>19, <1>20,
     <1>21, <1>22, <1>23
     DEF Inv

\* A call is taken up, its handler at its first await.
LEMMA AwaitsInv ==
  ASSUME Inv, NEW c \in calls, NEW await \in {"writing", "checking"}, Awaits(c, await),
         up, c.at = "sent", c.transfer \in open,
         \/ await = "writing" /\ c.from.at = "chunk" /\ open' = open
         \/ await = "checking" /\ c.from.at = "commit" /\ open' = open \ {c.transfer},
         UNCHANGED <<up, received, files, disk, deploys, restartIn, deployed>>
  PROVE  Inv'
<1> DEFINE t == c.transfer
           w == [c EXCEPT !.at = await]
<1>1. t \in Transfer /\ c \in Call /\ t \in files /\ deploys[t] = "none"
  BY DEF Inv, TypeOK, Call, OpenHasFile
<1>2. w \in Call /\ w.transfer = t /\ w.from = c.from /\ w.at = await
  BY <1>1 DEF Call
<1>3. calls' = (calls \ {c}) \union {w} /\ sender' = sender
  BY DEF Awaits
<1> HIDE DEF w
<1>4. TypeOK'
  BY <1>2, <1>3 DEF Inv, TypeOK
<1>5. NotStarted'
  BY <1>2, <1>3 DEF Inv, NotStarted, Fresh
<1>6. BeginFirst'
  BY <1>2, <1>3 DEF Inv, BeginFirst, Fresh
<1>7. BeforeCommit'
  BY <1>2, <1>3 DEF Inv, BeforeCommit
<1>8. OneCommit'
  BY <1>2, <1>3 DEF Inv, OneCommit
<1>9. CommitFirst'
  BY <1>2, <1>3 DEF Inv, CommitFirst
<1>10. Served'
  BY <1>1, <1>2, <1>3 DEF Inv, Served
<1>11. OpenHasFile'
  BY DEF Inv, OpenHasFile
<1>12. DownIsEmpty'
  BY DEF DownIsEmpty
<1>13. DoneIsDeployed'
  BY DEF Inv, DoneIsDeployed
<1>14. NextChunk'
  BY <1>3 DEF Inv, NextChunk
<1>15. DeploysWholeZip'
  BY DEF Inv, DeploysWholeZip
<1>16. OkIsDeployed'
  BY <1>3 DEF Inv, OkIsDeployed
<1>17. NoGap'
  BY <1>2, <1>3 DEF Inv, NoGap
<1>18. FileInUse'
  BY <1>2, <1>3 DEF Inv, FileInUse, Checking
<1> QED
  BY <1>4, <1>5, <1>6, <1>7, <1>8, <1>9, <1>10, <1>11, <1>12, <1>13, <1>14, <1>15, <1>16,
     <1>17, <1>18
     DEF Inv

LEMMA ReceiveChunkInv ==
  ASSUME Inv, NEW c \in calls, ReceiveChunk(c)
  PROVE  Inv'
<1>1. UNCHANGED agent /\ up /\ c.at = "sent" /\ c.from.at = "chunk"
  BY DEF ReceiveChunk, Serves
<1>2. CASE Answer(c, FALSE) BY <1>1, <1>2, RefusalInv
<1>3. CASE c.transfer \in open /\ Awaits(c, "writing")
  BY <1>1, <1>3, AwaitsInv DEF agent
<1> QED BY <1>2, <1>3 DEF ReceiveChunk

LEMMA ReceiveCommitInv ==
  ASSUME Inv, NEW c \in calls, ReceiveCommit(c)
  PROVE  Inv'
<1>1. /\ up /\ c.at = "sent" /\ c.from.at = "commit"
      /\ UNCHANGED <<up, received, files, disk, deploys, restartIn, deployed>>
  BY DEF ReceiveCommit, Serves
<1>2. CASE UNCHANGED open /\ Answer(c, FALSE)
  BY <1>1, <1>2, RefusalInv DEF agent
<1>3. CASE c.transfer \in open /\ open' = open \ {c.transfer} /\ Awaits(c, "checking")
  BY <1>1, <1>3, AwaitsInv
<1> QED BY <1>2, <1>3 DEF ReceiveCommit

LEMMA CommitCheckedInv ==
  ASSUME Inv, NEW c \in calls, CommitChecked(c)
  PROVE  Inv'
<1> DEFINE t == c.transfer
<1>1. /\ t \in Transfer /\ c.from \in Sender /\ c.from.at = "commit" /\ c.at = "checking"
      /\ up /\ t \notin open /\ t \in files /\ deploys[t] = "none"
      /\ sender[t].at \notin {"notStarted", "begin", "chunk"}
      /\ \A d \in calls \ {c} : d.transfer = t => d.from.at \notin {"begin", "commit"}
  BY DEF CommitChecked, Inv, TypeOK, Call, Served, DownIsEmpty, CommitFirst, BeforeCommit,
         OneCommit, BeginFirst
<1>2. \E ok \in BOOLEAN : Answered(c, ok) BY AnswerFollows DEF CommitChecked, Inv
<1>3. sender'[t] = sender[t] \/ sender'[t].at \in {"poll", "abort", "failed"}
  BY <1>1, <1>2 DEF Answered, Follows
<1>4. \A d \in calls' :
        \/ d \in calls /\ d # c
        \/ d.transfer = t /\ d.at = "sent" /\ d.from.at = "abort"
  BY <1>1, <1>2 DEF Answered, Follows, Method
<1>5. /\ sender' \in [Transfer -> Sender] /\ calls' \subseteq Call
      /\ \A u \in Transfer \ {t} : sender'[u] = sender[u]
      /\ \A d \in calls : d # c => d \in calls'
  BY <1>2 DEF Answered
<1>6. \/ Whole(t) /\ deploys' = [deploys EXCEPT ![t] = "running"] /\ files' = files
      \/ files' = files \ {t} /\ deploys' = deploys
  BY DEF CommitChecked
<1>7. UNCHANGED <<up, open, received, disk, restartIn, deployed>>
  BY DEF CommitChecked
<1> HIDE DEF t
<1>8. TypeOK'
  BY <1>5, <1>6, <1>7 DEF Inv, TypeOK
<1>9. NotStarted'
  BY <1>1, <1>3, <1>4, <1>5, <1>6, <1>7 DEF Inv, TypeOK, NotStarted, Fresh
<1>10. BeginFirst'
  BY <1>1, <1>4, <1>5, <1>6, <1>7 DEF Inv, TypeOK, BeginFirst, Fresh, Call
<1>11. BeforeCommit'
  BY <1>1, <1>3, <1>4, <1>5, <1>6 DEF Inv, TypeOK, BeforeCommit
<1>12. OneCommit'
  BY <1>4 DEF Inv, OneCommit
<1>13. CommitFirst'
  BY <1>1, <1>4, <1>6 DEF Inv, TypeOK, CommitFirst, Call
<1>14. Served'
  BY <1>1, <1>4, <1>6, <1>7 DEF Inv, Served, Method
<1>15. OpenHasFile'
  BY <1>1, <1>6, <1>7 DEF Inv, TypeOK, OpenHasFile
<1>16. DownIsEmpty'
  BY <1>1, <1>7 DEF DownIsEmpty
<1>17. DoneIsDeployed'
  BY <1>6, <1>7 DEF Inv, TypeOK, DoneIsDeployed
<1>18. NextChunk'
  BY <1>3, <1>5, <1>7 DEF Inv, NextChunk
<1>19. DeploysWholeZip'
  BY <1>1, <1>6, <1>7 DEF Inv, TypeOK, DeploysWholeZip, Whole
<1>20. OkIsDeployed'
  BY <1>3, <1>5, <1>7 DEF Inv, OkIsDeployed
<1>21. NoGap'
  BY <1>4, <1>7 DEF Inv, NoGap
<1>22. FileInUse'
  BY <1>1, <1>5, <1>6, <1>7 DEF Inv, TypeOK, FileInUse, Checking, Served
<1> QED
  BY <1>8, <1>9, <1>10, <1>11, <1>12, <1>13, <1>14, <1>15, <1>16, <1>17, <1>18, <1>19,
     <1>20, <1>21, <1>22
     DEF Inv

LEMMA WriteChunkInv ==
  ASSUME Inv, NEW c \in calls, WriteChunk(c)
  PROVE  Inv'
<1> DEFINE t == c.transfer
<1>1. /\ t \in Transfer /\ c.from \in Sender /\ c.from.at = "chunk" /\ c.at = "writing"
      /\ up /\ c.from.chunk \in AllChunks /\ received[t] \in 0..Chunks /\ sender[t] \in Sender
  BY DEF WriteChunk, Inv, TypeOK, Call, Served, DownIsEmpty
<1>2. \E ok \in BOOLEAN : Answered(c, ok) BY AnswerFollows DEF WriteChunk, Inv
<1>3. \/ sender'[t] = sender[t]
      \/ /\ sender[t] = c.from
         /\ sender'[t].at \in {"chunk", "commit", "abort"}
         /\ sender'[t].at = "chunk" => sender'[t].chunk \in {c.from.chunk, c.from.chunk + 1}
  BY <1>1, <1>2 DEF Answered, Follows
<1>4. \A d \in calls' :
        \/ d \in calls /\ d # c
        \/ /\ d.transfer = t /\ d.at = "sent" /\ sender[t] = c.from /\ d.from = sender'[t]
           /\ d.from.at \in {"chunk", "commit", "abort"}
  BY <1>1, <1>2 DEF Answered, Follows, Method
<1>5. /\ sender' \in [Transfer -> Sender] /\ calls' \subseteq Call
      /\ \A u \in Transfer \ {t} : sender'[u] = sender[u]
      /\ \A d \in calls : d # c => d \in calls'
  BY <1>2 DEF Answered
<1>6. sender'[t].at = "chunk" => sender'[t].chunk \in AllChunks
  BY <1>1, <1>3, <1>5 DEF Inv, NextChunk, Sender, AllChunks
<1>7. /\ \/ disk' = disk
         \/ disk' = [disk EXCEPT ![t] = @ \union {c.from.chunk}]
      /\ \/ t \notin files /\ received' = received
         \/ received' = [received EXCEPT ![t] = IF c.from.chunk > @ THEN c.from.chunk ELSE @]
  BY DEF WriteChunk
<1>8. /\ received' \in [Transfer -> 0..Chunks]
      /\ \A u \in Transfer : received[u] <= received'[u]
      /\ t \in open => c.from.chunk <= received'[t]
  BY <1>1, <1>7 DEF Inv, TypeOK, OpenHasFile, AllChunks
<1>9. UNCHANGED <<up, open, files, deploys, restartIn, deployed>>
  BY DEF WriteChunk
<1>10. /\ \A d, e \in calls' \ (calls \ {c}) : d = e
       /\ sender[t] = c.from => \A d \in calls : d.transfer = t => d.from.at # "commit"
  BY <1>1, <1>4, <1>5 DEF Call, Inv, BeforeCommit
<1> HIDE DEF t
<1>11. TypeOK'
  BY <1>1, <1>5, <1>7, <1>8, <1>9 DEF Inv, TypeOK
<1>12. NotStarted'
  BY <1>3, <1>4, <1>5, <1>9 DEF Inv, NotStarted, Fresh
<1>13. BeginFirst'
  BY <1>1, <1>3, <1>4, <1>5, <1>9 DEF Inv, BeginFirst, Fresh, Call
<1>14. BeforeCommit'
  BY <1>1, <1>3, <1>4, <1>5, <1>9 DEF Inv, BeforeCommit
<1>15. OneCommit'
  BY <1>4, <1>10 DEF Inv, OneCommit
<1>16. CommitFirst'
  BY <1>1, <1>4, <1>9 DEF Inv, CommitFirst, BeforeCommit
<1>17. Served'
  BY <1>4, <1>6, <1>9 DEF Inv, Served, Method
<1>18. OpenHasFile'
  BY <1>9 DEF Inv, OpenHasFile
<1>19. DownIsEmpty'
  BY <1>1, <1>9 DEF DownIsEmpty
<1>20. DoneIsDeployed'
  BY <1>9 DEF Inv, DoneIsDeployed
<1>21. NextChunk'
  BY <1>1, <1>3, <1>5, <1>6, <1>7, <1>8, <1>9 DEF Inv, NextChunk, Sender
<1>22. DeploysWholeZip'
  <2>1. \A u \in Transfer : disk[u] = AllChunks => disk'[u] = AllChunks
    <3>1. CASE disk' = disk
      BY <3>1
    <3>2. CASE disk' = [disk EXCEPT ![t] = @ \union {c.from.chunk}]
      <4>1. c.from.chunk \in AllChunks /\ DOMAIN disk = Transfer
        BY <1>1 DEF Inv, TypeOK
      <4>2. \A u \in Transfer : disk'[u] = disk[u] \/ disk'[u] = disk[u] \union {c.from.chunk}
        BY <3>2, <4>1
      <4> QED
        BY <4>1, <4>2
    <3> QED
      BY <1>7, <3>1, <3>2
  <2> QED
    BY <1>9, <2>1 DEF Inv, DeploysWholeZip
<1>23. OkIsDeployed'
  BY <1>3, <1>5, <1>9 DEF Inv, OkIsDeployed
<1>24. NoGap'
  BY <1>1, <1>3, <1>4, <1>5, <1>7, <1>8, <1>9 DEF Inv, NoGap, Call, Sender
<1>25. FileInUse'
  BY <1>1, <1>5, <1>9 DEF Inv, FileInUse, Checking
<1> QED
  BY <1>11, <1>12, <1>13, <1>14, <1>15, <1>16, <1>17, <1>18, <1>19, <1>20, <1>21, <1>22,
     <1>23, <1>24, <1>25
     DEF Inv

LEMMA ReceiveAbortInv ==
  ASSUME Inv, NEW c \in calls, ReceiveAbort(c)
  PROVE  Inv'
<1> DEFINE t == c.transfer
<1>1. /\ t \in Transfer /\ c.from \in Sender /\ c.from.at = "abort" /\ c.at = "sent" /\ up
  BY DEF ReceiveAbort, Serves, Inv, TypeOK, Call
<1>2. Answered(c, TRUE) BY AnswerFollows DEF ReceiveAbort, Inv
<1>3. sender'[t] = sender[t] \/ (sender'[t].at = "failed" /\ sender[t].at = "abort")
  <2>1. CASE sender' = sender BY <2>1
  <2>2. CASE sender[t] = c.from /\ Follows(c.from, sender'[t], TRUE)
    BY <2>2, <1>1 DEF Follows
  <2> QED BY <2>1, <2>2, <1>2 DEF Answered
<1>4. calls' = calls \ {c}
  BY <1>1, <1>2 DEF Answered, Follows, Method
<1>5. /\ sender' \in [Transfer -> Sender]
      /\ \A u \in Transfer \ {t} : sender'[u] = sender[u]
  BY <1>2 DEF Answered
<1>6. /\ open' = open \ {t}
      /\ files' = IF t \in open THEN files \ {t} ELSE files
      /\ UNCHANGED <<up, received, disk, deploys, restartIn, deployed>>
  BY DEF ReceiveAbort
<1> HIDE DEF t
<1>7. TypeOK'
  BY <1>4, <1>5, <1>6 DEF Inv, TypeOK
<1>8. NotStarted'
  BY <1>3, <1>4, <1>5, <1>6 DEF Inv, NotStarted, Fresh
<1>9. BeginFirst'
  BY <1>3, <1>4, <1>5, <1>6 DEF Inv, TypeOK, BeginFirst, Fresh, Call
<1>10. BeforeCommit'
  BY <1>3, <1>4, <1>5, <1>6 DEF Inv, BeforeCommit
<1>11. OneCommit'
  BY <1>4 DEF Inv, OneCommit
<1>12. CommitFirst'
  BY <1>4, <1>6 DEF Inv, CommitFirst
<1>13. Served'
  BY <1>4, <1>6 DEF Inv, Served
<1>14. OpenHasFile'
  BY <1>6 DEF Inv, OpenHasFile
<1>15. DownIsEmpty'
  BY <1>1, <1>6 DEF DownIsEmpty
<1>16. DoneIsDeployed'
  BY <1>6 DEF Inv, DoneIsDeployed
<1>17. NextChunk'
  BY <1>3, <1>5, <1>6 DEF Inv, NextChunk
<1>18. DeploysWholeZip'
  BY <1>6 DEF Inv, DeploysWholeZip, OpenHasFile
<1>19. OkIsDeployed'
  BY <1>3, <1>5, <1>6 DEF Inv, OkIsDeployed
<1>20. NoGap'
  BY <1>4, <1>6 DEF Inv, NoGap
<1>21. FileInUse'
  BY <1>1, <1>4, <1>6 DEF Inv, FileInUse, Checking
<1> QED
  BY <1>7, <1>8, <1>9, <1>10, <1>11, <1>12, <1>13, <1>14, <1>15, <1>16, <1>17, <1>18,
     <1>19, <1>20, <1>21
     DEF Inv

LEMMA DeployEndsInv ==
  ASSUME Inv, NEW t \in Transfer, DeployEnds(t)
  PROVE  Inv'
<1>1. RestartDelay \in -1..RestartDelay /\ -1 \in -1..RestartDelay
  BY TransferAssumption
<1>2. TypeOK'
  BY <1>1 DEF Inv, DeployEnds, TypeOK
<1>3. NotStarted'
  BY DEF Inv, DeployEnds, TypeOK, NotStarted, Fresh
<1>4. BeginFirst'
  BY DEF Inv, DeployEnds, TypeOK, BeginFirst, Fresh, Call
<1>5. BeforeCommit'
  BY DEF Inv, DeployEnds, TypeOK, BeforeCommit
<1>6. OneCommit'
  BY DEF Inv, DeployEnds, OneCommit
<1>7. CommitFirst'
  BY DEF Inv, DeployEnds, TypeOK, CommitFirst, Call
<1>8. Served'
  BY DEF Inv, DeployEnds, Served, CommitFirst
<1>9. OpenHasFile'
  BY DEF Inv, DeployEnds, TypeOK, OpenHasFile
<1>10. DownIsEmpty'
  BY DEF Inv, DeployEnds, DownIsEmpty
<1>11. DoneIsDeployed'
  BY DEF Inv, DeployEnds, TypeOK, DoneIsDeployed
<1>12. NextChunk'
  BY DEF Inv, DeployEnds, NextChunk
<1>13. DeploysWholeZip'
  BY DEF Inv, DeployEnds, TypeOK, DeploysWholeZip
<1>14. OkIsDeployed'
  BY DEF Inv, DeployEnds, OkIsDeployed
<1>15. NoGap'
  BY DEF Inv, DeployEnds, NoGap
<1>16. FileInUse'
  BY DEF Inv, DeployEnds, TypeOK, FileInUse, Checking
<1> QED
  BY <1>2, <1>3, <1>4, <1>5, <1>6, <1>7, <1>8, <1>9, <1>10, <1>11, <1>12, <1>13, <1>14,
     <1>15, <1>16
     DEF Inv

LEMMA AbortIdleInv ==
  ASSUME Inv, NEW t \in Transfer, AbortIdle(t)
  PROVE  Inv'
<1>1. TypeOK'
  BY DEF Inv, AbortIdle, TypeOK
<1>2. NotStarted'
  BY DEF Inv, AbortIdle, NotStarted, Fresh
<1>3. BeginFirst'
  BY DEF Inv, AbortIdle, BeginFirst, Fresh
<1>4. BeforeCommit'
  BY DEF Inv, AbortIdle, BeforeCommit
<1>5. OneCommit'
  BY DEF Inv, AbortIdle, OneCommit
<1>6. CommitFirst'
  BY DEF Inv, AbortIdle, CommitFirst
<1>7. Served'
  BY DEF Inv, AbortIdle, Served
<1>8. OpenHasFile'
  BY DEF Inv, AbortIdle, OpenHasFile
<1>9. DownIsEmpty'
  BY DEF Inv, AbortIdle, DownIsEmpty
<1>10. DoneIsDeployed'
  BY DEF Inv, AbortIdle, DoneIsDeployed
<1>11. NextChunk'
  BY DEF Inv, AbortIdle, NextChunk
<1>12. DeploysWholeZip'
  BY DEF Inv, AbortIdle, DeploysWholeZip, OpenHasFile
<1>13. OkIsDeployed'
  BY DEF Inv, AbortIdle, OkIsDeployed
<1>14. NoGap'
  BY DEF Inv, AbortIdle, NoGap
<1>15. FileInUse'
  BY DEF Inv, AbortIdle, FileInUse, Checking
<1> QED
  BY <1>1, <1>2, <1>3, <1>4, <1>5, <1>6, <1>7, <1>8, <1>9, <1>10, <1>11, <1>12, <1>13,
     <1>14, <1>15
     DEF Inv

LEMMA ForgetStatusInv ==
  ASSUME Inv, NEW t \in Transfer, ForgetStatus(t)
  PROVE  Inv'
<1>1. TypeOK'
  BY DEF Inv, ForgetStatus, TypeOK
<1>2. NotStarted'
  BY DEF Inv, ForgetStatus, NotStarted, Fresh
<1>3. BeginFirst'
  BY DEF Inv, ForgetStatus, BeginFirst, Fresh
<1>4. BeforeCommit'
  BY DEF Inv, ForgetStatus, BeforeCommit
<1>5. OneCommit'
  BY DEF Inv, ForgetStatus, OneCommit
<1>6. CommitFirst'
  BY DEF Inv, ForgetStatus, CommitFirst
<1>7. Served'
  BY DEF Inv, ForgetStatus, Served
<1>8. OpenHasFile'
  BY DEF Inv, ForgetStatus, OpenHasFile
<1>9. DownIsEmpty'
  BY DEF Inv, ForgetStatus, DownIsEmpty
<1>10. DoneIsDeployed'
  BY DEF Inv, ForgetStatus, DoneIsDeployed
<1>11. NextChunk'
  BY DEF Inv, ForgetStatus, NextChunk
<1>12. DeploysWholeZip'
  BY DEF Inv, ForgetStatus, DeploysWholeZip
<1>13. OkIsDeployed'
  BY DEF Inv, ForgetStatus, OkIsDeployed
<1>14. NoGap'
  BY DEF Inv, ForgetStatus, NoGap
<1>15. FileInUse'
  BY DEF Inv, ForgetStatus, FileInUse, Checking
<1> QED
  BY <1>1, <1>2, <1>3, <1>4, <1>5, <1>6, <1>7, <1>8, <1>9, <1>10, <1>11, <1>12, <1>13,
     <1>14, <1>15
     DEF Inv

LEMMA AgentStopsInv ==
  ASSUME Inv, AgentStops
  PROVE  Inv'
<1>1. RestartDelay \in -1..RestartDelay /\ -1 \in -1..RestartDelay
  BY TransferAssumption
<1>2. TypeOK'
  BY <1>1 DEF Inv, AgentStops, TypeOK
<1>3. NotStarted'
  BY DEF Inv, AgentStops, NotStarted, Fresh
<1>4. BeginFirst'
  BY DEF AgentStops, BeginFirst
<1>5. BeforeCommit'
  BY DEF AgentStops, BeforeCommit
<1>6. OneCommit'
  BY DEF AgentStops, OneCommit
<1>7. CommitFirst'
  BY DEF AgentStops, CommitFirst
<1>8. Served'
  BY DEF AgentStops, Served
<1>9. OpenHasFile'
  BY DEF AgentStops, OpenHasFile
<1>10. DownIsEmpty'
  BY DEF AgentStops, DownIsEmpty
<1>11. DoneIsDeployed'
  BY DEF AgentStops, DoneIsDeployed
<1>12. NextChunk'
  BY DEF Inv, AgentStops, NextChunk
<1>13. DeploysWholeZip'
  BY DEF AgentStops, DeploysWholeZip
<1>14. OkIsDeployed'
  BY DEF Inv, AgentStops, OkIsDeployed
<1>15. NoGap'
  BY DEF AgentStops, NoGap
<1>16. FileInUse'
  BY DEF AgentStops, FileInUse
<1> QED
  BY <1>2, <1>3, <1>4, <1>5, <1>6, <1>7, <1>8, <1>9, <1>10, <1>11, <1>12, <1>13, <1>14,
     <1>15, <1>16
     DEF Inv

LEMMA AgentStartsInv ==
  ASSUME Inv, AgentStarts
  PROVE  Inv'
<1>1. TypeOK'
  BY DEF Inv, AgentStarts, TypeOK
<1>2. NotStarted'
  BY DEF Inv, AgentStarts, NotStarted, Fresh
<1>3. BeginFirst'
  BY DEF Inv, AgentStarts, BeginFirst, Fresh
<1>4. BeforeCommit'
  BY DEF Inv, AgentStarts, BeforeCommit
<1>5. OneCommit'
  BY DEF Inv, AgentStarts, OneCommit
<1>6. CommitFirst'
  BY DEF Inv, AgentStarts, CommitFirst
<1>7. Served'
  BY DEF Inv, AgentStarts, Served, DownIsEmpty
<1>8. OpenHasFile'
  BY DEF Inv, AgentStarts, OpenHasFile, DownIsEmpty
<1>9. DownIsEmpty'
  BY DEF AgentStarts, DownIsEmpty
<1>10. DoneIsDeployed'
  BY DEF Inv, AgentStarts, DoneIsDeployed
<1>11. NextChunk'
  BY DEF Inv, AgentStarts, NextChunk
<1>12. DeploysWholeZip'
  BY DEF Inv, AgentStarts, DeploysWholeZip, DownIsEmpty
<1>13. OkIsDeployed'
  BY DEF Inv, AgentStarts, OkIsDeployed
<1>14. NoGap'
  BY DEF Inv, AgentStarts, NoGap
<1>15. FileInUse'
  BY DEF AgentStarts, FileInUse
<1> QED
  BY <1>1, <1>2, <1>3, <1>4, <1>5, <1>6, <1>7, <1>8, <1>9, <1>10, <1>11, <1>12, <1>13,
     <1>14, <1>15
     DEF Inv

LEMMA NextInv == Inv /\ [Next]_vars => Inv'
<1> SUFFICES ASSUME Inv, [Next]_vars PROVE Inv'
  OBVIOUS
<1>1. ASSUME NEW t \in Transfer,
             SendZip(t) \/ SenderStep(t) \/ SenderStops(t) \/ AgentStep(t) \/ ForgetStatus(t)
               \/ RestartFires(t)
      PROVE  Inv'
  BY <1>1, SendZipInv, SenderMoves, DeployEndsInv, AbortIdleInv, ForgetStatusInv, AgentStopsInv
     DEF AgentStep, RestartFires
<1>2. ASSUME NEW c \in calls, AgentServes(c) \/ RequestLost(c)
      PROVE  Inv'
  <2>1. CASE WriteChunkFails(c)
    BY <2>1, RefusalInv DEF WriteChunkFails
  <2>2. CASE CommitReadFails(c)
    BY <2>2, RefusalInv DEF CommitReadFails
  <2> QED
    BY <1>2, <2>1, <2>2, ReceiveBeginInv, ReceiveChunkInv, WriteChunkInv, ReceiveCommitInv,
       CommitCheckedInv, ReceiveAbortInv, RequestLostInv DEF AgentServes
<1>3. CASE UNCHANGED vars
  BY <1>3 DEF vars, Inv, TypeOK, NotStarted, Fresh, BeginFirst, BeforeCommit, OneCommit,
              CommitFirst, Served, OpenHasFile, DownIsEmpty, DoneIsDeployed, NextChunk,
              DeploysWholeZip, OkIsDeployed, NoGap, FileInUse, Checking
<1> QED BY <1>1, <1>2, <1>3, AgentStopsInv, AgentStartsInv DEF Next

LEMMA Invariance == Spec => []Inv
<1>1. Inv /\ [Next]_vars => Inv' BY NextInv
<1> QED BY InitInv, <1>1, PTL DEF Spec

-----------------------------------------------------------------------------

\* Every variable keeps its type: among others, a chunk is never past the last.
THEOREM TypeCorrect == Spec => []TypeOK
<1>1. Inv => TypeOK BY DEF Inv
<1> QED BY Invariance, <1>1, PTL

\* doLocalDeploy is given the whole ZIP, whatever was lost, retried, written in
\* part or served late, and its file is there until it ends.
THEOREM WholeZipDeployed == Spec => []DeploysWholeZip
<1>1. Inv => DeploysWholeZip BY DEF Inv
<1> QED BY Invariance, <1>1, PTL

\* sendZip says ok only of a node that has been deployed.
THEOREM OkMeansDeployed == Spec => []OkIsDeployed
<1>1. Inv => OkIsDeployed BY DEF Inv
<1> QED BY Invariance, <1>1, PTL

\* No chunk of an open transfer is refused for a gap: a retry never needs one
\* of the chunks before it again.
THEOREM NoChunkAfterGap == Spec => []NoGap
<1>1. Inv => NoGap BY DEF Inv
<1> QED BY Invariance, <1>1, PTL

\* A temp file of a running agent is in use, unless reading it failed.
THEOREM NoFileForgotten == Spec => []FileInUse
<1>1. Inv => FileInUse BY DEF Inv
<1> QED BY Invariance, <1>1, PTL

-----------------------------------------------------------------------------
(***************************************************************************)
(* DeployNodes, for any deploys, nodes, files and ZIPs: the protected      *)
(* files are kept, what a deploy leaves behind is its release when it was  *)
(* alone, and what is left untouched when it is cut short.                 *)
(***************************************************************************)

Steps == Active \cup {"none", "done", "failed", "killed"}

\* What a task has still to do are files it may touch.
Shapes ==
  \A d \in Deploy, n \in Node :
    /\ task[d][n].pc = "purge" => /\ task[d][n].ahead \subseteq Clear[d]
                                  /\ task[d][n].left \subseteq UNION Clear[d]
    /\ task[d][n].pc = "merge" => task[d][n].left \subseteq Zip[d] \ Protected

\* A deploy j, whose tasks are t: the nodes it has not come to have neither a
\* result nor a task, and the local one is the last.
JobSound(j, t) ==
  /\ \A n \in j.left : j.res[n] = "none"
  /\ j.pc = "idle" => \A n \in Node : j.res[n] = "none"
  /\ j.pc = "at" => j.at \in j.left
  /\ \A n \in Node :
       j.res[n] = "none" /\ ~(j.pc \in {"at", "killed", "stopped"} /\ j.at = n) => t[n].pc = "none"
  /\ j.pc \in {"between", "at"} /\ t[Local].pc # "none" => j.left \subseteq {Local}

Jobs == \A d \in Deploy : JobSound(job[d], task[d])

\* A restart is asked for by a deploy that is done.
Restarts == \A n \in restarting : \E e \in Restart : task[e][n].pc = "done"

\* What the task t of d has done of its release, on a node whose files are p.
Progress(d, t, p) ==
  /\ t.pc = "purge" =>
       \A folder \in Clear[d] \ t.ahead : \A f \in folder \ t.left : p[f] = Gone
  /\ t.pc = "extract" => \A f \in UNION Clear[d] : p[f] = Gone
  /\ t.pc = "merge" => /\ \A f \in (Zip[d] \ Protected) \ t.left : p[f] = d
                       /\ \A f \in (UNION Clear[d]) \ Zip[d] : p[f] = Gone
  /\ t.pc = "done" => /\ \A f \in Zip[d] \ Protected : p[f] = d
                      /\ \A f \in (UNION Clear[d]) \ Zip[d] : p[f] = Gone

\* A deploy alone on its node: no other runs there, and its work is all there.
Owned ==
  \A n \in Node, d \in Deploy :
    owner[n].last = d /\ owner[n].alone =>
      /\ \A e \in Deploy \ {d} : task[e][n].pc \notin Active
      /\ Progress(d, task[d][n], project[n])

\* The inductive invariant.
NodesInv ==
  NodesTypeOK /\ Shapes /\ ProtectedKept /\ Jobs /\ Restarts /\ CutByAnother /\ Owned

-----------------------------------------------------------------------------
LEMMA InitNodesInv == NodesInit => NodesInv
<1> SUFFICES ASSUME NodesInit PROVE NodesInv
  OBVIOUS
<1> USE DEF NodesInit
<1>1. NodesTypeOK
  BY LocalAssumption DEF NodesTypeOK, JobRec, TaskRec, Result
<1>2. Shapes
  BY DEF Shapes
<1>3. ProtectedKept
  BY DeployAssumption DEF ProtectedKept
<1>4. Jobs
  BY LocalAssumption DEF Jobs, JobSound
<1>5. Restarts /\ CutByAnother
  BY DEF Restarts, CutByAnother
<1>6. Owned
  BY NoDeployNamedSo DEF Owned
<1> QED
  BY <1>1, <1>2, <1>3, <1>4, <1>5, <1>6 DEF NodesInv

\* Tasks that go on, end or are killed leave what is said of a deploy true.
LEMMA JobSoundKept ==
  ASSUME NEW j, NEW t, NEW u, JobSound(j, t),
         \A n \in Node : t[n].pc = "none" <=> u[n].pc = "none"
  PROVE  JobSound(j, u)
  BY LocalAssumption DEF JobSound

\* The task of one deploy on one node.
LEMMA TaskAtIs ==
  ASSUME NodesTypeOK, NEW d \in Deploy, NEW n \in Node, NEW pc \in Steps,
         NEW ahead \in SUBSET SUBSET File, NEW left \in SUBSET File,
         TaskAt(d, n, pc, ahead, left)
  PROVE  /\ task' \in [Deploy -> [Node -> TaskRec]]
         /\ task'[d][n] = [pc |-> pc, ahead |-> ahead, left |-> left]
         /\ \A e \in Deploy, m \in Node : e # d \/ m # n => task'[e][m] = task[e][m]
         /\ \A e \in Deploy \ {d} : task'[e] = task[e]
<1>1. task \in [Deploy -> [Node -> TaskRec]]
  BY DEF NodesTypeOK
<1>2. [pc |-> pc, ahead |-> ahead, left |-> left] \in TaskRec
  BY DEF TaskRec, Steps
<1>3. task' = [task EXCEPT ![d] = [task[d] EXCEPT ![n] = [pc |-> pc, ahead |-> ahead, left |-> left]]]
  BY DEF TaskAt
<1> QED
  BY <1>1, <1>2, <1>3

-----------------------------------------------------------------------------
(* A step of a task on its node. *)

LEMMA RunStep ==
  ASSUME NodesInv, NEW d \in Deploy, NEW n \in Node, task[d][n].pc \in Active,
         NEW pc \in Active \cup {"done", "failed"},
         NEW ahead \in SUBSET SUBSET File, NEW left \in SUBSET File,
         TaskAt(d, n, pc, ahead, left),
         pc = "purge" => ahead \subseteq Clear[d] /\ left \subseteq UNION Clear[d],
         pc = "merge" => left \subseteq Zip[d] \ Protected,
         project' \in [Node -> [File -> Deploy \cup {Old, Gone}]],
         \A m \in Node \ {n} : project'[m] = project[m],
         \A f \in Protected : project'[n][f] = project[n][f],
         Progress(d, task[d][n], project[n]) =>
           Progress(d, [pc |-> pc, ahead |-> ahead, left |-> left], project'[n]),
         restarting' \in {restarting, restarting \cup {n}},
         restarting' # restarting => pc = "done" /\ d \in Restart,
         UNCHANGED <<zip, uploads, waiting, job, owner>>
  PROVE  NodesInv'
<1>1. /\ task' \in [Deploy -> [Node -> TaskRec]]
      /\ task'[d][n] = [pc |-> pc, ahead |-> ahead, left |-> left]
      /\ \A e \in Deploy, m \in Node : e # d \/ m # n => task'[e][m] = task[e][m]
  <2>1. pc \in Steps /\ NodesTypeOK
    BY DEF NodesInv, Steps, Active
  <2>2. \A q \in Steps, a \in SUBSET SUBSET File, l \in SUBSET File :
          TaskAt(d, n, q, a, l) =>
            /\ task' \in [Deploy -> [Node -> TaskRec]]
            /\ task'[d][n] = [pc |-> q, ahead |-> a, left |-> l]
            /\ \A e \in Deploy, m \in Node : e # d \/ m # n => task'[e][m] = task[e][m]
    BY <2>1, TaskAtIs
  <2> QED
    BY <2>1, <2>2
<1>2. /\ \A e \in Deploy, m \in Node : task[e][m].pc = "none" <=> task'[e][m].pc = "none"
      /\ \A e \in Deploy, m \in Node : task[e][m].pc = "done" => task'[e][m].pc = "done"
      /\ \A e \in Deploy, m \in Node : task'[e][m].pc \in Active => task[e][m].pc \in Active
  <2> SUFFICES ASSUME NEW e \in Deploy, NEW m \in Node
               PROVE  /\ task[e][m].pc = "none" <=> task'[e][m].pc = "none"
                      /\ task[e][m].pc = "done" => task'[e][m].pc = "done"
                      /\ task'[e][m].pc \in Active => task[e][m].pc \in Active
    OBVIOUS
  <2>1. CASE e = d /\ m = n
    BY <1>1, <2>1 DEF Active
  <2>2. CASE e # d \/ m # n
    BY <1>1, <2>2
  <2> QED
    BY <2>1, <2>2
<1>3. NodesTypeOK'
  BY <1>1 DEF NodesInv, NodesTypeOK
<1>4. Shapes'
  BY <1>1 DEF NodesInv, Shapes
<1>5. ProtectedKept'
  BY DEF NodesInv, ProtectedKept
<1>6. Jobs'
  BY <1>2, JobSoundKept DEF NodesInv, Jobs
<1>7. Restarts'
  BY <1>1, <1>2, DeployAssumption DEF NodesInv, NodesTypeOK, Restarts
<1>8. CutByAnother'
  BY <1>2, LocalAssumption DEF NodesInv, CutByAnother
<1>9. Owned'
  <2> SUFFICES ASSUME NEW m \in Node, NEW e \in Deploy, owner[m].last = e, owner[m].alone
               PROVE  /\ \A x \in Deploy \ {e} : task'[x][m].pc \notin Active
                      /\ Progress(e, task'[e][m], project'[m])
    BY DEF Owned
  <2>1. /\ \A x \in Deploy \ {e} : task[x][m].pc \notin Active
        /\ Progress(e, task[e][m], project[m])
    BY DEF NodesInv, Owned
  <2>2. CASE m # n
    BY <1>1, <2>1, <2>2
  <2>3. CASE m = n
    <3>1. e = d
      BY <2>1, <2>3
    <3> QED
      BY <1>1, <2>1, <2>3, <3>1
  <2> QED
    BY <2>2, <2>3
<1> QED
  BY <1>3, <1>4, <1>5, <1>6, <1>7, <1>8, <1>9 DEF NodesInv

LEMMA PurgeInv ==
  ASSUME NodesInv, NEW d \in Deploy, NEW n \in Node, Purge(d, n)
  PROVE  NodesInv'
<1>1. PICK f \in task[d][n].left :
        /\ project' = [project EXCEPT ![n][f] = Gone]
        /\ TaskAt(d, n, "purge", task[d][n].ahead, task[d][n].left \ {f})
  BY DEF Purge
<1> DEFINE rest == task[d][n].left \ {f}
           ahead == task[d][n].ahead
<1>2. /\ task[d][n].pc = "purge" /\ task[d][n].left \subseteq UNION Clear[d]
      /\ ahead \subseteq Clear[d] /\ UNION Clear[d] \subseteq File \ Protected
      /\ ahead \in SUBSET SUBSET File
      /\ UNCHANGED <<zip, uploads, waiting, job, restarting, owner>>
  BY DeployAssumption DEF Purge, NodesInv, Shapes
<1>3. /\ project' \in [Node -> [File -> Deploy \cup {Old, Gone}]]
      /\ \A m \in Node \ {n} : project'[m] = project[m]
      /\ \A g \in File : project'[n][g] = IF g = f THEN Gone ELSE project[n][g]
  BY <1>1, <1>2 DEF NodesInv, NodesTypeOK
<1>4. Progress(d, task[d][n], project[n]) =>
        Progress(d, [pc |-> "purge", ahead |-> ahead, left |-> rest], project'[n])
  BY <1>2, <1>3 DEF Progress
<1>5. rest \in SUBSET File /\ rest \subseteq UNION Clear[d] /\ task[d][n].pc \in Active
  BY <1>2 DEF Active
<1>6. \A g \in Protected : project'[n][g] = project[n][g]
  BY <1>2, <1>3, DeployAssumption
<1>7. TaskAt(d, n, "purge", ahead, rest)
  BY <1>1
<1> HIDE DEF rest, ahead
<1> QED
  BY <1>2, <1>3, <1>4, <1>5, <1>6, <1>7, RunStep DEF Active

LEMMA ListFolderInv ==
  ASSUME NodesInv, NEW d \in Deploy, NEW n \in Node, ListFolder(d, n)
  PROVE  NodesInv'
<1>1. PICK folder \in task[d][n].ahead :
        TaskAt(d, n, "purge", task[d][n].ahead \ {folder}, {f \in folder : project[n][f] # Gone})
  BY DEF ListFolder
<1> DEFINE ahead == task[d][n].ahead \ {folder}
           entries == {f \in folder : project[n][f] # Gone}
<1>2. /\ task[d][n].pc = "purge" /\ task[d][n].left = {} /\ task[d][n].ahead \subseteq Clear[d]
      /\ UNCHANGED <<zip, uploads, waiting, job, project, restarting, owner>>
  BY DEF ListFolder, NodesInv, Shapes
<1>3. /\ ahead \subseteq Clear[d] /\ ahead \in SUBSET SUBSET File
      /\ entries \subseteq UNION Clear[d] /\ entries \in SUBSET File
  BY <1>2, DeployAssumption
<1>4. Progress(d, task[d][n], project[n]) =>
        Progress(d, [pc |-> "purge", ahead |-> ahead, left |-> entries], project[n])
  BY <1>2 DEF Progress
<1>5. project \in [Node -> [File -> Deploy \cup {Old, Gone}]]
  BY DEF NodesInv, NodesTypeOK
<1>6. TaskAt(d, n, "purge", ahead, entries)
  BY <1>1
<1> HIDE DEF ahead, entries
<1> QED
  BY <1>2, <1>3, <1>4, <1>5, <1>6, RunStep DEF Active

LEMMA PurgedInv ==
  ASSUME NodesInv, NEW d \in Deploy, NEW n \in Node, Purged(d, n)
  PROVE  NodesInv'
<1>1. /\ task[d][n].pc = "purge" /\ task[d][n].left = {} /\ task[d][n].ahead = {}
      /\ TaskAt(d, n, "extract", {}, {})
      /\ UNCHANGED <<zip, uploads, waiting, job, project, restarting, owner>>
  BY DEF Purged
<1>2. Progress(d, task[d][n], project[n]) =>
        Progress(d, [pc |-> "extract", ahead |-> {}, left |-> {}], project[n])
  BY <1>1 DEF Progress
<1>3. project \in [Node -> [File -> Deploy \cup {Old, Gone}]]
  BY DEF NodesInv, NodesTypeOK
<1> QED
  BY <1>1, <1>2, <1>3, RunStep DEF Active

LEMMA ExtractInv ==
  ASSUME NodesInv, NEW d \in Deploy, NEW n \in Node, Extract(d, n)
  PROVE  NodesInv'
<1>1. /\ task[d][n].pc = "extract" /\ TaskAt(d, n, "merge", {}, Zip[d] \ Protected)
      /\ UNCHANGED <<zip, uploads, waiting, job, project, restarting, owner>>
  BY DEF Extract
<1>2. Progress(d, task[d][n], project[n]) =>
        Progress(d, [pc |-> "merge", ahead |-> {}, left |-> Zip[d] \ Protected], project[n])
  BY <1>1 DEF Progress
<1>3. Zip[d] \ Protected \in SUBSET File
  BY DeployAssumption
<1>4. project \in [Node -> [File -> Deploy \cup {Old, Gone}]]
  BY DEF NodesInv, NodesTypeOK
<1> QED
  BY <1>1, <1>2, <1>3, <1>4, RunStep DEF Active

LEMMA MergeInv ==
  ASSUME NodesInv, NEW d \in Deploy, NEW n \in Node, Merge(d, n)
  PROVE  NodesInv'
<1>1. PICK f \in task[d][n].left :
        /\ project' = [project EXCEPT ![n][f] = d]
        /\ TaskAt(d, n, "merge", {}, task[d][n].left \ {f})
  BY DEF Merge
<1> DEFINE rest == task[d][n].left \ {f}
<1>2. /\ task[d][n].pc = "merge" /\ task[d][n].left \subseteq Zip[d] \ Protected
      /\ Zip[d] \subseteq File
      /\ UNCHANGED <<zip, uploads, waiting, job, restarting, owner>>
  BY DeployAssumption DEF Merge, NodesInv, Shapes
<1>3. /\ project' \in [Node -> [File -> Deploy \cup {Old, Gone}]]
      /\ \A m \in Node \ {n} : project'[m] = project[m]
      /\ \A g \in File : project'[n][g] = IF g = f THEN d ELSE project[n][g]
  BY <1>1, <1>2 DEF NodesInv, NodesTypeOK
<1>4. Progress(d, task[d][n], project[n]) =>
        Progress(d, [pc |-> "merge", ahead |-> {}, left |-> rest], project'[n])
  <2>1. UNION Clear[d] \subseteq File
    BY DeployAssumption
  <2>2. ASSUME Progress(d, task[d][n], project[n])
        PROVE  /\ \A g \in (Zip[d] \ Protected) \ rest : project'[n][g] = d
               /\ \A g \in (UNION Clear[d]) \ Zip[d] : project'[n][g] = Gone
    <3>1. /\ \A g \in (Zip[d] \ Protected) \ task[d][n].left : project[n][g] = d
          /\ \A g \in (UNION Clear[d]) \ Zip[d] : project[n][g] = Gone
      BY <1>2, <2>2 DEF Progress
    <3>2. f \in Zip[d] /\ f \in task[d][n].left
      BY <1>2
    <3>3. ASSUME NEW g \in (Zip[d] \ Protected) \ rest PROVE project'[n][g] = d
      BY <1>2, <1>3, <3>1
    <3>4. ASSUME NEW g \in (UNION Clear[d]) \ Zip[d] PROVE project'[n][g] = Gone
      <4>1. g \in File /\ g # f
        BY <2>1, <3>2
      <4> QED
        BY <1>3, <3>1, <4>1
    <3> QED
      BY <3>3, <3>4
  <2> QED
    BY <2>2 DEF Progress
<1> QED
  <2>1. rest \in SUBSET File /\ rest \subseteq Zip[d] \ Protected
    BY <1>2
  <2>2. \A g \in Protected : project'[n][g] = project[n][g]
    BY <1>2, <1>3, DeployAssumption
  <2>3. TaskAt(d, n, "merge", {}, rest)
    BY <1>1
  <2> HIDE DEF rest
  <2> QED
    BY <1>2, <1>3, <1>4, <2>1, <2>2, <2>3, RunStep DEF Active

LEMMA DeployedInv ==
  ASSUME NodesInv, NEW d \in Deploy, NEW n \in Node, Deployed(d, n)
  PROVE  NodesInv'
<1>1. /\ task[d][n].pc = "merge" /\ task[d][n].left = {} /\ TaskAt(d, n, "done", {}, {})
      /\ restarting' = IF d \in Restart THEN restarting \cup {n} ELSE restarting
      /\ UNCHANGED <<zip, uploads, waiting, job, project, owner>>
  BY DEF Deployed
<1>2. Progress(d, task[d][n], project[n]) =>
        Progress(d, [pc |-> "done", ahead |-> {}, left |-> {}], project[n])
  BY <1>1 DEF Progress
<1>3. project \in [Node -> [File -> Deploy \cup {Old, Gone}]]
  BY DEF NodesInv, NodesTypeOK
<1> QED
  BY <1>1, <1>2, <1>3, RunStep DEF Active

LEMMA TaskFailsInv ==
  ASSUME NodesInv, NEW d \in Deploy, NEW n \in Node, TaskFails(d, n)
  PROVE  NodesInv'
<1>1. /\ task[d][n].pc \in Active /\ TaskAt(d, n, "failed", {}, {})
      /\ UNCHANGED <<zip, uploads, waiting, job, project, restarting, owner>>
  BY DEF TaskFails
<1>2. Progress(d, task[d][n], project[n]) =>
        Progress(d, [pc |-> "failed", ahead |-> {}, left |-> {}], project[n])
  BY DEF Progress
<1>3. project \in [Node -> [File -> Deploy \cup {Old, Gone}]]
  BY DEF NodesInv, NodesTypeOK
<1>4. {} \in SUBSET File /\ "failed" \in Active \cup {"done", "failed"}
  OBVIOUS
<1> QED
  BY <1>1, <1>2, <1>3, <1>4, RunStep

-----------------------------------------------------------------------------
(* A step of the aggregator.                                               *)

LEMMA JobStep ==
  ASSUME NodesInv, NEW d \in Deploy,
         zip' \in [Deploy -> {"none", "partial", "whole", "removed"}],
         uploads' \in SUBSET Deploy, waiting' \in SUBSET Deploy,
         job' \in [Deploy -> JobRec], \A e \in Deploy \ {d} : job'[e] = job[e],
         JobSound(job'[d], task[d]),
         job'[d].pc # "killed" \/ job'[d] = job[d],
         UNCHANGED <<task, project, restarting, owner>>
  PROVE  NodesInv'
<1>1. NodesTypeOK'
  BY DEF NodesInv, NodesTypeOK
<1>2. Shapes' /\ ProtectedKept'
  BY DEF NodesInv, Shapes, ProtectedKept
<1>3. Jobs'
  BY DEF NodesInv, Jobs
<1>4. Restarts' /\ Owned'
  BY DEF NodesInv, Restarts, Owned
<1>5. CutByAnother'
  BY DEF NodesInv, CutByAnother
<1> QED
  BY <1>1, <1>2, <1>3, <1>4, <1>5 DEF NodesInv

LEMMA StartStep ==
  ASSUME NodesInv, NEW d \in Deploy, NEW n \in Node, task[d][n].pc = "none", StartTask(d, n),
         job' \in [Deploy -> JobRec], \A e \in Deploy \ {d} : job'[e] = job[e],
         job'[d].pc # "killed",
         \A t : /\ t[n].pc # "none" /\ \A m \in Node \ {n} : t[m] = task[d][m]
               => JobSound(job'[d], t),
         UNCHANGED <<zip, uploads, waiting, project, restarting>>
  PROVE  NodesInv'
<1>1. /\ TaskAt(d, n, "purge", Clear[d], {})
      /\ owner' = [owner EXCEPT ![n] = [last |-> d, alone |-> Busy(n) = {}]]
  BY DEF StartTask
<1>2. Clear[d] \in SUBSET SUBSET File
  BY DeployAssumption
<1>3. Progress(d, [pc |-> "purge", ahead |-> Clear[d], left |-> {}], project[n])
  BY DEF Progress
<1>4. /\ task' \in [Deploy -> [Node -> TaskRec]]
      /\ task'[d][n] = [pc |-> "purge", ahead |-> Clear[d], left |-> {}]
      /\ \A e \in Deploy, m \in Node : e # d \/ m # n => task'[e][m] = task[e][m]
      /\ \A e \in Deploy \ {d} : task'[e] = task[e]
  <2>1. "purge" \in Steps /\ {} \in SUBSET File /\ NodesTypeOK
    BY DEF NodesInv, Steps, Active
  <2>2. \A pc \in Steps, ahead \in SUBSET SUBSET File, left \in SUBSET File :
          TaskAt(d, n, pc, ahead, left) =>
            /\ task' \in [Deploy -> [Node -> TaskRec]]
            /\ task'[d][n] = [pc |-> pc, ahead |-> ahead, left |-> left]
            /\ \A e \in Deploy, m \in Node : e # d \/ m # n => task'[e][m] = task[e][m]
            /\ \A e \in Deploy \ {d} : task'[e] = task[e]
    BY <2>1, TaskAtIs
  <2> QED
    BY <1>1, <1>2, <2>1, <2>2
<1>5. NodesTypeOK'
  BY <1>1, <1>4 DEF NodesInv, NodesTypeOK
<1>6. Shapes'
  BY <1>2, <1>4 DEF NodesInv, Shapes
<1>7. ProtectedKept'
  BY DEF NodesInv, ProtectedKept
<1>8. Jobs'
  <2>1. JobSound(job'[d], task'[d])
    BY <1>2, <1>4
  <2> QED
    BY <1>4, <2>1 DEF NodesInv, Jobs
<1>9. Restarts'
  <2> SUFFICES ASSUME NEW m \in restarting PROVE \E e \in Restart : task'[e][m].pc = "done"
    BY DEF Restarts
  <2>1. PICK e \in Restart : task[e][m].pc = "done"
    BY DEF NodesInv, Restarts
  <2>2. e \in Deploy /\ m \in Node /\ (e # d \/ m # n)
    BY <2>1, DeployAssumption DEF NodesInv, NodesTypeOK
  <2> QED
    BY <1>4, <2>1, <2>2
<1>10. CutByAnother'
  <2> SUFFICES ASSUME NEW c \in Deploy, job'[c].pc = "killed", job'[c].left \ {Local} # {}
               PROVE  \E e \in Deploy \ {c} : e \in Restart /\ task'[e][Local].pc = "done"
    BY DEF CutByAnother
  <2>1. job'[c] = job[c]
    OBVIOUS
  <2>2. PICK e \in Deploy \ {c} : e \in Restart /\ task[e][Local].pc = "done"
    BY <2>1 DEF NodesInv, CutByAnother
  <2>3. e # d \/ Local # n
    BY <2>2
  <2> QED
    BY <1>4, <2>2, <2>3, LocalAssumption
<1>11. Owned'
  <2> SUFFICES ASSUME NEW m \in Node, NEW e \in Deploy, owner'[m].last = e, owner'[m].alone
               PROVE  /\ \A x \in Deploy \ {e} : task'[x][m].pc \notin Active
                      /\ Progress(e, task'[e][m], project[m])
    BY DEF Owned
  <2>1. CASE m # n
    <3>1. owner'[m] = owner[m]
      BY <1>1, <2>1 DEF NodesInv, NodesTypeOK
    <3> QED
      BY <1>4, <2>1, <3>1 DEF NodesInv, Owned
  <2>2. CASE m = n
    <3>1. owner'[m] = [last |-> d, alone |-> Busy(n) = {}]
      BY <1>1, <2>2 DEF NodesInv, NodesTypeOK
    <3>2. e = d /\ Busy(n) = {}
      <4>1. owner'[m].last = d
        BY <3>1
      <4>2. ASSUME Busy(n) # {} PROVE FALSE
        <5>1. (Busy(n) = {}) = FALSE
          BY <4>2
        <5>2. owner'[m] = [last |-> d, alone |-> FALSE]
          BY <3>1, <5>1, Zenon
        <5> QED
          BY <5>2
      <4> QED
        BY <2>2, <4>1, <4>2
    <3>3. \A x \in Deploy : task[x][n].pc \notin Active
      BY <3>2 DEF Busy
    <3> QED
      BY <1>3, <1>4, <2>2, <3>2, <3>3
  <2> QED
    BY <2>1, <2>2
<1> QED
  BY <1>5, <1>6, <1>7, <1>8, <1>9, <1>10, <1>11 DEF NodesInv

\* A deploy between two nodes, and what it knows of the next one.
LEMMA NextNodeIs ==
  ASSUME NodesInv, NEW d \in Deploy, NEW n \in Node, NextNode(d, n)
  PROVE  /\ job[d] \in JobRec /\ job[d].pc = "between" /\ n \in job[d].left
         /\ JobSound(job[d], task[d])
         /\ job[d].res[n] = "none" /\ task[d][n].pc = "none"
         /\ n = Local => job[d].left = {Local}
<1>1. /\ job[d] \in JobRec /\ job[d].pc = "between" /\ n \in job[d].left
      /\ n = Local => job[d].left = {Local}
      /\ JobSound(job[d], task[d])
  BY DEF NextNode, NodesInv, NodesTypeOK, Jobs
<1> QED
  BY <1>1 DEF JobSound

LEMMA BeginInv ==
  ASSUME NodesInv, NEW d \in Deploy, NEW n \in Node, Begin(d, n)
  PROVE  NodesInv'
<1>1. /\ job[d] \in JobRec /\ job[d].pc = "between" /\ n \in job[d].left
      /\ JobSound(job[d], task[d])
      /\ job[d].res[n] = "none" /\ task[d][n].pc = "none"
      /\ n = Local => job[d].left = {Local}
  BY NextNodeIs DEF Begin
<1>2. /\ job' = [job EXCEPT ![d].pc = "at", ![d].at = n] /\ StartTask(d, n)
      /\ UNCHANGED <<zip, uploads, waiting, project, restarting>>
  BY DEF Begin
<1>3. job'[d] = [job[d] EXCEPT !.pc = "at", !.at = n] /\ job \in [Deploy -> JobRec]
  BY <1>2 DEF NodesInv, NodesTypeOK
<1>4. [job[d] EXCEPT !.pc = "at", !.at = n] \in JobRec
  BY <1>1 DEF JobRec
<1>5. job' = [job EXCEPT ![d] = [job[d] EXCEPT !.pc = "at", !.at = n]]
  BY <1>2
<1>6. job' \in [Deploy -> JobRec] /\ \A e \in Deploy \ {d} : job'[e] = job[e]
  BY <1>4, <1>5, <1>3
<1>7. /\ job'[d].pc = "at" /\ job'[d].at = n
      /\ job'[d].left = job[d].left /\ job'[d].res = job[d].res
  BY <1>1, <1>3 DEF JobRec
<1>8. ASSUME NEW t, t[n].pc # "none", \A m \in Node \ {n} : t[m] = task[d][m]
      PROVE  JobSound(job'[d], t)
  BY <1>1, <1>7, <1>8, LocalAssumption DEF JobSound
<1> QED
  BY <1>1, <1>2, <1>6, <1>7, <1>8, StartStep

\* A node that gets its result.
LEMMA ToldIs ==
  ASSUME NodesTypeOK, NEW d \in Deploy, NEW n \in Node, NEW r \in {"ok", "failed"}, Told(d, n, r)
  PROVE  /\ job' \in [Deploy -> JobRec] /\ \A e \in Deploy \ {d} : job'[e] = job[e]
         /\ job'[d].pc = "between" /\ job'[d].left = job[d].left \ {n}
         /\ job'[d].res[n] = r /\ \A m \in Node \ {n} : job'[d].res[m] = job[d].res[m]
<1>1. job \in [Deploy -> JobRec] /\ job[d].res \in [Node -> Result]
  BY DEF NodesTypeOK, JobRec
<1>2. job' = [job EXCEPT ![d] = [job[d] EXCEPT !.pc = "between", !.left = @ \ {n},
                                               !.res = [job[d].res EXCEPT ![n] = r]]]
  BY DEF Told
<1> DEFINE res == [job[d].res EXCEPT ![n] = r]
           local == [job[d] EXCEPT !.pc = "between", !.left = @ \ {n}, !.res = res]
<1>3. res \in [Node -> Result] /\ res[n] = r /\ \A m \in Node \ {n} : res[m] = job[d].res[m]
  BY <1>1 DEF Result
<1> HIDE DEF res
<1>4. job[d] \in JobRec
  BY <1>1
<1>5. /\ local \in JobRec
      /\ local.pc = "between" /\ local.left = job[d].left \ {n} /\ local.res = res
  BY <1>3, <1>4 DEF JobRec
<1>6. job' = [job EXCEPT ![d] = local]
  BY <1>2 DEF res
<1> HIDE DEF local
<1>7. job' \in [Deploy -> JobRec] /\ job'[d] = local /\ \A e \in Deploy \ {d} : job'[e] = job[e]
  BY <1>1, <1>5, <1>6
<1> QED
  BY <1>3, <1>5, <1>7

LEMMA SendFailsInv ==
  ASSUME NodesInv, NEW d \in Deploy, NEW n \in Node, SendFails(d, n)
  PROVE  NodesInv'
<1>1. /\ job[d].pc = "between" /\ n \in job[d].left
      /\ JobSound(job[d], task[d]) /\ task[d][n].pc = "none" /\ n # Local
  BY NextNodeIs DEF SendFails
<1>2. /\ job' \in [Deploy -> JobRec] /\ \A e \in Deploy \ {d} : job'[e] = job[e]
      /\ job'[d].pc = "between" /\ job'[d].left = job[d].left \ {n}
      /\ job'[d].res[n] = "failed"
      /\ \A m \in Node \ {n} : job'[d].res[m] = job[d].res[m]
  BY ToldIs DEF SendFails, NodesInv
<1>3. ASSUME NEW t, \A m \in Node \ {n} : t[m] = task[d][m]
      PROVE  JobSound(job'[d], t)
  <2>1. job[d].left \subseteq Node
    BY DEF NodesInv, NodesTypeOK, JobRec
  <2> QED
    BY <1>1, <1>2, <1>3, <2>1, LocalAssumption DEF JobSound
<1>4. UNCHANGED <<zip, uploads, waiting, project, restarting>>
  BY DEF SendFails
<1>5. CASE StartTask(d, n)
  BY <1>1, <1>2, <1>3, <1>4, <1>5, StartStep
<1>6. CASE UNCHANGED <<task, owner>>
  BY <1>2, <1>3, <1>4, <1>6, JobStep DEF NodesInv, NodesTypeOK
<1> QED
  BY <1>5, <1>6 DEF SendFails

LEMMA LocalZipMissingInv ==
  ASSUME NodesInv, NEW d \in Deploy, LocalZipMissing(d)
  PROVE  NodesInv'
<1>1. JobSound(job[d], task[d]) /\ task[d][Local].pc = "none" /\ job[d].left = {Local}
      /\ job[d].pc = "between"
  BY NextNodeIs, LocalAssumption DEF LocalZipMissing
<1>2. /\ job' \in [Deploy -> JobRec] /\ \A e \in Deploy \ {d} : job'[e] = job[e]
      /\ job'[d].pc = "between" /\ job'[d].left = job[d].left \ {Local}
      /\ job'[d].res[Local] = "failed"
      /\ \A m \in Node \ {Local} : job'[d].res[m] = job[d].res[m]
  BY ToldIs, LocalAssumption DEF LocalZipMissing, NodesInv
<1>3. JobSound(job'[d], task[d])
  BY <1>1, <1>2 DEF JobSound
<1> QED
  BY <1>2, <1>3, JobStep DEF LocalZipMissing, NodesInv, NodesTypeOK

LEMMA NodeDoneInv ==
  ASSUME NodesInv, NEW d \in Deploy, NodeDone(d)
  PROVE  NodesInv'
<1> DEFINE n == job[d].at
<1>1. /\ job[d].pc = "at" /\ n \in Node /\ n \in job[d].left /\ JobSound(job[d], task[d])
      /\ job[d].left \subseteq Node
  BY DEF NodeDone, NodesInv, NodesTypeOK, JobRec, Jobs, JobSound
<1>2. PICK r \in {"ok", "failed"} : Told(d, n, r)
  BY DEF NodeDone
<1>3. UNCHANGED <<zip, uploads, waiting, task, project, restarting, owner>>
  BY DEF NodeDone
<1> HIDE DEF n
<1>4. /\ job' \in [Deploy -> JobRec] /\ \A e \in Deploy \ {d} : job'[e] = job[e]
      /\ job'[d].pc = "between" /\ job'[d].left = job[d].left \ {n}
      /\ job'[d].res[n] = r /\ \A m \in Node \ {n} : job'[d].res[m] = job[d].res[m]
  BY <1>1, <1>2, ToldIs DEF NodesInv
<1>5. JobSound(job'[d], task[d])
  BY <1>1, <1>2, <1>4 DEF JobSound, n
<1> QED
  BY <1>3, <1>4, <1>5, JobStep DEF NodesInv, NodesTypeOK

\* A deploy that takes up its nodes, throws or replies.
LEMMA OtherJobInv ==
  ASSUME NodesInv, NEW d \in Deploy,
         DeployCalled(d) \/ Reply(d) \/ \E n \in Node : SendThrows(d, n)
  PROVE  NodesInv'
<1>1. /\ job \in [Deploy -> JobRec] /\ job[d] \in JobRec /\ JobSound(job[d], task[d])
      /\ zip \in [Deploy -> {"none", "partial", "whole", "removed"}]
      /\ uploads \in SUBSET Deploy /\ waiting \in SUBSET Deploy
  BY DEF NodesInv, NodesTypeOK, Jobs
<1>2. CASE DeployCalled(d)
  <2>1. PICK ns \in Resolved(d) : job' = [job EXCEPT ![d].pc = "between", ![d].left = ns]
    BY <1>2 DEF DeployCalled
  <2>2. ns \in SUBSET Node
    BY LocalAssumption, DeployAssumption DEF Resolved
  <2>3. job'[d] = [job[d] EXCEPT !.pc = "between", !.left = ns] /\ job[d].pc = "idle"
    BY <1>1, <1>2, <2>1 DEF DeployCalled
  <2>4. job' \in [Deploy -> JobRec] /\ \A e \in Deploy \ {d} : job'[e] = job[e]
    BY <1>1, <2>1, <2>2 DEF JobRec
  <2>5. job'[d].pc = "between" /\ job'[d].left = ns /\ job'[d].res = job[d].res
    BY <1>1, <2>3 DEF JobRec
  <2>6. JobSound(job'[d], task[d])
    BY <1>1, <2>2, <2>3, <2>5, LocalAssumption DEF JobSound
  <2> QED
    BY <1>1, <1>2, <2>4, <2>5, <2>6, JobStep DEF DeployCalled
<1>3. ASSUME NEW pc \in {"replied", "threw"}, job' = [job EXCEPT ![d].pc = pc],
             job[d].pc = "between",
             zip' \in [Deploy -> {"none", "partial", "whole", "removed"}],
             waiting' \in SUBSET Deploy,
             UNCHANGED <<uploads, task, project, restarting, owner>>
      PROVE  NodesInv'
  <2>1. job' \in [Deploy -> JobRec] /\ \A e \in Deploy \ {d} : job'[e] = job[e]
    BY <1>1, <1>3 DEF JobRec
  <2>2. job'[d].pc = pc /\ job'[d].left = job[d].left /\ job'[d].res = job[d].res
    BY <1>1, <1>3 DEF JobRec
  <2>3. JobSound(job'[d], task[d])
    BY <1>1, <1>3, <2>2 DEF JobSound
  <2> QED
    BY <1>1, <1>3, <2>1, <2>2, <2>3, JobStep
<1>4. CASE Reply(d)
  <2>1. zip' \in [Deploy -> {"none", "partial", "whole", "removed"}] /\ waiting' \in SUBSET Deploy
    BY <1>1, <1>4 DEF Reply, CallOver
  <2> QED
    BY <1>3, <1>4, <2>1 DEF Reply
<1>5. CASE \E n \in Node : SendThrows(d, n)
  BY <1>1, <1>3, <1>5 DEF SendThrows, NextNode
<1> QED
  BY <1>2, <1>4, <1>5

-----------------------------------------------------------------------------
(* The webserver, and the restarts.                                        *)

LEMMA WebserverInv ==
  ASSUME NodesInv, NEW d \in Deploy,
         UploadInit(d) \/ UploadChunks(d) \/ UploadFinalize(d) \/ CallFails(d)
  PROVE  NodesInv'
<1>1. /\ zip' \in [Deploy -> {"none", "partial", "whole", "removed"}]
      /\ uploads' \in SUBSET Deploy /\ waiting' \in SUBSET Deploy
      /\ UNCHANGED <<job, task, project, restarting, owner>>
  BY DEF UploadInit, UploadChunks, UploadFinalize, CallFails, CallOver, NodesInv, NodesTypeOK
<1>2. job \in [Deploy -> JobRec] /\ JobSound(job[d], task[d])
  BY DEF NodesInv, NodesTypeOK, Jobs
<1> QED
  BY <1>1, <1>2, JobStep

LEMMA ManagerEndsInv ==
  ASSUME NodesInv, NEW n \in Node, NEW pc \in {"killed", "stopped"}, ManagerEnds(n, pc),
         pc = "killed" => n \in restarting,
         restarting' \in SUBSET restarting,
         uploads' \in SUBSET Deploy, waiting' \in SUBSET Deploy,
         UNCHANGED <<zip, project, owner>>
  PROVE  NodesInv'
<1>1. /\ \A d \in Deploy, m \in Node :
            task'[d][m] = IF m = n /\ task[d][m].pc \in Active
                            THEN [task[d][m] EXCEPT !.pc = "killed"] ELSE task[d][m]
      /\ task' \in [Deploy -> [Node -> TaskRec]]
  <2>1. task \in [Deploy -> [Node -> TaskRec]]
    BY DEF NodesInv, NodesTypeOK
  <2>2. task' = [d \in Deploy |-> [task[d] EXCEPT ![n] =
                  [task[d][n] EXCEPT !.pc = IF @ \in Active THEN "killed" ELSE @]]]
    BY DEF ManagerEnds
  <2>3. \A d \in Deploy : task[d][n].pc \notin Active =>
          [task[d][n] EXCEPT !.pc = IF @ \in Active THEN "killed" ELSE @] = task[d][n]
    BY <2>1 DEF TaskRec
  <2>4. \A d \in Deploy :
          [task[d][n] EXCEPT !.pc = IF @ \in Active THEN "killed" ELSE @] \in TaskRec
    <3> SUFFICES ASSUME NEW d \in Deploy
                 PROVE  [task[d][n] EXCEPT !.pc = IF @ \in Active THEN "killed" ELSE @] \in TaskRec
      OBVIOUS
    <3> DEFINE r == task[d][n]
    <3>1. r \in TaskRec
      BY <2>1
    <3> HIDE DEF r
    <3>2. [r EXCEPT !.pc = "killed"] \in TaskRec
      BY <3>1 DEF TaskRec
    <3> QED
      BY <2>3, <3>1, <3>2 DEF r
  <2> QED
    BY <2>1, <2>2, <2>3, <2>4
<1>2. \A d \in Deploy, m \in Node :
        /\ task'[d][m].pc = "none" <=> task[d][m].pc = "none"
        /\ task'[d][m].pc = "done" <=> task[d][m].pc = "done"
        /\ task'[d][m].pc \in Active => task'[d][m] = task[d][m]
  <2> SUFFICES ASSUME NEW d \in Deploy, NEW m \in Node
               PROVE  /\ task'[d][m].pc = "none" <=> task[d][m].pc = "none"
                      /\ task'[d][m].pc = "done" <=> task[d][m].pc = "done"
                      /\ task'[d][m].pc \in Active => task'[d][m] = task[d][m]
    OBVIOUS
  <2>1. CASE m = n /\ task[d][m].pc \in Active
    <3> DEFINE x == task[d][m]
    <3>1. x \in TaskRec
      BY DEF NodesInv, NodesTypeOK
    <3>2. task'[d][m].pc = "killed"
      <4>1. task'[d][m] = [x EXCEPT !.pc = "killed"]
        BY <1>1, <2>1
      <4> HIDE DEF x
      <4> QED
        BY <3>1, <4>1 DEF TaskRec
    <3>3. task[d][m].pc \notin {"none", "done"}
      BY <2>1 DEF Active
    <3>4. task'[d][m].pc \notin Active
      BY <3>2 DEF Active
    <3> QED
      BY <3>2, <3>3, <3>4
  <2>2. CASE ~(m = n /\ task[d][m].pc \in Active)
    BY <1>1, <2>2
  <2> QED
    BY <2>1, <2>2
<1>3. /\ job' \in [Deploy -> JobRec]
      /\ \A d \in Deploy :
           \/ job'[d] = job[d]
           \/ /\ n = Local /\ job[d].pc \in {"between", "at"} /\ job'[d].pc = pc
              /\ job'[d].left = job[d].left /\ job'[d].res = job[d].res
              /\ job'[d].at = job[d].at
  <2>1. job \in [Deploy -> JobRec]
    BY DEF NodesInv, NodesTypeOK
  <2>2. job' = [d \in Deploy |-> IF n = Local /\ job[d].pc \in {"between", "at"}
                                  THEN [job[d] EXCEPT !.pc = pc] ELSE job[d]]
    BY DEF ManagerEnds
  <2> QED
    BY <2>1, <2>2 DEF JobRec
<1>4. \A m \in restarting' : m \in restarting
  OBVIOUS
<1>5. NodesTypeOK'
  BY <1>1, <1>3, <1>4 DEF NodesInv, NodesTypeOK
<1>6. Shapes'
  BY <1>2 DEF NodesInv, Shapes, Active
<1>7. ProtectedKept'
  BY DEF NodesInv, ProtectedKept
<1>8. Jobs'
  <2> SUFFICES ASSUME NEW d \in Deploy PROVE JobSound(job'[d], task'[d])
    BY DEF Jobs
  <2>1. JobSound(job[d], task'[d])
    <3>1. JobSound(job[d], task[d])
      BY DEF NodesInv, Jobs
    <3> QED
      BY <1>2, <3>1, JobSoundKept
  <2> QED
    BY <1>3, <2>1 DEF JobSound
<1>9. Restarts'
  BY <1>2, <1>4, DeployAssumption DEF NodesInv, NodesTypeOK, Restarts
<1>10. CutByAnother'
  <2> SUFFICES ASSUME NEW d \in Deploy, job'[d].pc = "killed", job'[d].left \ {Local} # {}
               PROVE  \E e \in Deploy \ {d} : e \in Restart /\ task[e][Local].pc = "done"
    BY <1>2, LocalAssumption DEF CutByAnother
  <2>1. CASE job'[d] = job[d]
    BY <2>1 DEF NodesInv, CutByAnother
  <2>2. CASE job'[d] # job[d]
    <3>1. /\ n = Local /\ job[d].pc \in {"between", "at"} /\ job'[d].left = job[d].left
          /\ pc = "killed"
      BY <1>3, <2>2
    <3>2. PICK e \in Restart : task[e][Local].pc = "done"
      BY <3>1 DEF NodesInv, Restarts
    <3>3. task[d][Local].pc = "none"
      BY <3>1 DEF NodesInv, Jobs, JobSound
    <3> QED
      BY <3>2, <3>3, DeployAssumption
  <2> QED
    BY <2>1, <2>2
<1>11. Owned'
  <2> SUFFICES ASSUME NEW m \in Node, NEW e \in Deploy, owner[m].last = e, owner[m].alone
               PROVE  /\ \A x \in Deploy \ {e} : task'[x][m].pc \notin Active
                      /\ Progress(e, task'[e][m], project[m])
    BY DEF Owned
  <2>1. /\ \A x \in Deploy \ {e} : task[x][m].pc \notin Active
        /\ Progress(e, task[e][m], project[m])
    BY DEF NodesInv, Owned
  <2> QED
    BY <1>2, <2>1 DEF Progress, Active
<1> QED
  BY <1>5, <1>6, <1>7, <1>8, <1>9, <1>10, <1>11 DEF NodesInv

LEMMA EndsInv ==
  ASSUME NodesInv, WebserverStops \/ \E n \in Node : RestartNode(n) \/ ManagerStops(n)
  PROVE  NodesInv'
<1>1. uploads \in SUBSET Deploy /\ waiting \in SUBSET Deploy
  BY DEF NodesInv, NodesTypeOK
<1>2. ASSUME NEW n \in Node, RestartNode(n) PROVE NodesInv'
  BY <1>1, <1>2, ManagerEndsInv DEF RestartNode
<1>3. ASSUME NEW n \in Node, ManagerStops(n) PROVE NodesInv'
  BY <1>1, <1>3, ManagerEndsInv DEF ManagerStops
<1>4. CASE WebserverStops
  BY <1>4 DEF WebserverStops, NodesInv, NodesTypeOK, Shapes, ProtectedKept, Jobs, Restarts,
              CutByAnother, Owned
<1> QED
  BY <1>2, <1>3, <1>4

LEMMA NextNodesInv == NodesInv /\ [NodesNext]_nodesVars => NodesInv'
<1> SUFFICES ASSUME NodesInv, [NodesNext]_nodesVars PROVE NodesInv'
  OBVIOUS
<1>1. ASSUME NEW d \in Deploy, NEW n \in Node, Run(d, n)
      PROVE  NodesInv'
  BY <1>1, ListFolderInv, PurgeInv, PurgedInv, ExtractInv, MergeInv, DeployedInv, TaskFailsInv DEF Run
<1>2. ASSUME NEW d \in Deploy, Aggregate(d)
      PROVE  NodesInv'
  BY <1>2, BeginInv, SendFailsInv, LocalZipMissingInv, NodeDoneInv, OtherJobInv DEF Aggregate
<1>3. CASE UNCHANGED nodesVars
  BY <1>3 DEF nodesVars, NodesInv, NodesTypeOK, Shapes, ProtectedKept, Jobs, Restarts, CutByAnother, Owned
<1> QED
  BY <1>1, <1>2, <1>3, WebserverInv, EndsInv DEF NodesNext

-----------------------------------------------------------------------------
(* The theorems. *)

\* The inductive invariant holds.
THEOREM Invariant == NodesSpec => []NodesInv
<1> QED
  BY InitNodesInv, NextNodesInv, PTL DEF NodesSpec

\* Every variable keeps its type.
THEOREM NodesTypeCorrect == NodesSpec => []NodesTypeOK
  BY Invariant, PTL DEF NodesInv

\* No deploy, overlapping, failing or cut by a restart, changes a protected file
\* (doLocalDeploy's purge, stage and merge).
THEOREM ProtectedAreKept == NodesSpec => []ProtectedKept
  BY Invariant, PTL DEF NodesInv

\* A deploy that is done and was alone on its node left exactly its release.
THEOREM ReleasedWhenAlone == NodesSpec => []DoneIsReleased
<1>1. NodesInv => DoneIsReleased
  BY DeployAssumption DEF NodesInv, Owned, Progress, DoneIsReleased
<1> QED
  BY <1>1, Invariant, PTL

\* The local node last: the restart a deploy asks for on the aggregator's own
\* project never cuts that deploy short of a node.
THEOREM NotCutByItself == NodesSpec => []CutByAnother
  BY Invariant, PTL DEF NodesInv

\* A deploy that ends before its time leaves one node in doubt at most, and none when
\* sendZip threw (deployToNodes, one node awaited after the other).
THEOREM OneLeftInDoubt == NodesSpec => []OneInDoubt
<1>1. NodesInv => OneInDoubt
  BY DEF NodesInv, Jobs, JobSound, OneInDoubt, InDoubt
<1> QED
  BY <1>1, Invariant, PTL
==============================================================================
