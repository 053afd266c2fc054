------------------------------ MODULE VncRelay ------------------------------
(***************************************************************************)
(* One session of the VNC relay (libs/wui-remote-vnc/backend: vncRelay.ts, *)
(* rfbBroker.ts): a WebSocket of the browser, a TCP socket to the VNC      *)
(* server, startRelay with its awaits, the RFB handshake of both sides,    *)
(* then a pipe.  Sessions share nothing.                                   *)
(*                                                                         *)
(* An action is an event of a socket, of the timer or of an awaited call,  *)
(* with all the promises it settles: they run before the next event.  Each *)
(* side's messages are numbered: the first Greeting of the browser, the    *)
(* first Auth of the server are its part of the handshake, the others are  *)
(* to be piped.  A message is what one read of the handshake takes.        *)
(***************************************************************************)
EXTENDS Integers, Sequences

CONSTANTS
  Greeting,  \* the messages greetClient reads
  Auth,      \* the messages authenticateToServer reads, when none is a refusal
  High,      \* BACKPRESSURE_HIGH, in messages
  MaxSent    \* bound: the messages of each side

ASSUME RelayAssumption ==
  /\ Greeting \in Nat \ {0}
  /\ Auth \in Nat \ {0}
  /\ High \in Nat \ {0}
  /\ MaxSent \in Nat

VARIABLES
  at,          \* the await startRelay stands at
  closing,     \* st.closing
  code,        \* the code the relay closed the WebSocket with
  ws,          \* the WebSocket; closed: its close handler has run
  tcp,         \* the TCP socket; destroyed: its close event is still to come
  sent,        \* history: how many messages each side sent
  clientRead,  \* how many of the browser's messages greetClient has read
  serverSide,  \* how far authenticateToServer is
  fromClient,  \* the browser's messages kept for later
  fromServer,  \* the server's
  written,     \* what was piped to the server
  shown,       \* what was piped to the browser
  buffered,    \* how many of these the WebSocket still holds
  paused       \* st.tcpPaused

vars == <<at, closing, code, ws, tcp, sent, clientRead, serverSide, fromClient, fromServer,
          written, shown, buffered, paused>>

Codes == {"ticket", "forbidden", "resolve", "tcp", "handshake", "auth", "timeout",
          "tcpClosed"}

TypeOK ==
  /\ at \in {"open", "allowed", "resolve", "readSecret", "handshake", "piping", "over"}
  /\ closing \in BOOLEAN
  /\ code \in Codes \union {"none"}
  /\ ws \in {"open", "closed"}
  /\ tcp \in {"none", "open", "destroyed", "closed"}
  /\ sent \in [{"client", "server"} -> Nat]
  /\ clientRead \in 0..Greeting
  /\ serverSide \in {"authenticating", "ok", "refused"}
  /\ fromClient \in Seq(Nat) /\ fromServer \in Seq(Nat)
  /\ written \in Seq(Nat) /\ shown \in Seq(Nat)
  /\ buffered \in Nat
  /\ paused \in BOOLEAN

Init ==
  /\ at = "open"
  /\ closing = FALSE
  /\ code = "none"
  /\ ws = "open"
  /\ tcp = "none"
  /\ sent = [side \in {"client", "server"} |-> 0]
  /\ clientRead = 0
  /\ serverSide = "authenticating"
  /\ fromClient = <<>> /\ fromServer = <<>>
  /\ written = <<>> /\ shown = <<>>
  /\ buffered = 0
  /\ paused = FALSE

-----------------------------------------------------------------------------

handshake == <<clientRead, serverSide>>
queues == <<fromClient, fromServer>>
pipe == <<written, shown, buffered, paused>>

\* safeEnd: the first reason to close is the one the browser is told.
SafeEnd(reason) ==
  /\ closing' = TRUE
  /\ code' = IF closing THEN code ELSE reason

Destroyed == IF tcp = "open" THEN "destroyed" ELSE tcp

\* Mutant: connected without a look at st.closing.
ReadSecret_Unchecked ==
  /\ at = "readSecret"
  /\ at' = "handshake" /\ tcp' = "open"
  /\ UNCHANGED <<closing, code, ws, sent, handshake, queues, pipe>>

(* startRelay up to the connection. *)

\* open: a session refused at the upgrade is closed at once.
Open ==
  /\ at = "open"
  /\ \/ at' = "allowed" /\ UNCHANGED <<closing, code>>
     \/ at' = "over" /\ SafeEnd("ticket")
  /\ UNCHANGED <<ws, tcp, sent, handshake, queues, pipe>>

\* The role checked again; a check that fails lets through.
Allowed ==
  /\ at = "allowed"
  /\ \/ at' = "resolve" /\ UNCHANGED <<closing, code>>
     \/ at' = "over" /\ SafeEnd("forbidden")
  /\ UNCHANGED <<ws, tcp, sent, handshake, queues, pipe>>

Resolve ==
  /\ at = "resolve"
  /\ \/ at' = "readSecret" /\ UNCHANGED <<closing, code>>
     \/ at' = "over" /\ SafeEnd("resolve")
  /\ UNCHANGED <<ws, tcp, sent, handshake, queues, pipe>>

\* The password read, or none: connect, unless the WebSocket closed meanwhile.
ReadSecret ==
  /\ at = "readSecret"
  /\ \/ closing /\ at' = "over" /\ UNCHANGED tcp
     \/ ~closing /\ at' = "handshake" /\ tcp' = "open"
  /\ UNCHANGED <<closing, code, ws, sent, handshake, queues, pipe>>

-----------------------------------------------------------------------------
(* The pipe. *)

\* toClient.  (The few bytes of the handshake are not counted; `send` throws only
\* once the WebSocket is closed, and st.closing is set then.)
ToClient(messages) ==
  IF closing \/ messages = <<>>
  THEN UNCHANGED <<shown, buffered, paused>>
  ELSE /\ shown' = shown \o messages
       /\ buffered' = buffered + Len(messages)
       /\ paused' = (paused \/ (tcp = "open" /\ buffered' > High))

\* sock.write: what is written to a socket destroyed is lost.
ToServer(messages) ==
  written' = IF tcp = "open" THEN written \o messages ELSE written

-----------------------------------------------------------------------------
(* brokerHandshake goes on.                                                *)

\* Mutant: what the browser sent meanwhile not handed over.
StartPiping_ClientDropped(c, s) ==
  /\ at' = "piping"
  /\ fromClient' = <<>> /\ fromServer' = <<>>
  /\ ToServer(<<>>)
  /\ ToClient(s)

\* Both queues are drained into the pipe.
StartPiping(c, s) ==
  /\ at' = "piping"
  /\ fromClient' = <<>> /\ fromServer' = <<>>
  /\ ToServer(c)
  /\ ToClient(s)

\* Mutant: a refusal waited out until the server hangs up.
Continue_RefusalKept(read, side, c, s) ==
  /\ clientRead' = read
  /\ serverSide' = side
  /\ \/ /\ read < Greeting \/ side # "ok"
        /\ fromClient' = c /\ fromServer' = s
        /\ UNCHANGED <<at, closing, code, tcp, pipe>>
     \/ /\ read = Greeting /\ side = "ok" /\ closing
        /\ at' = "over"
        /\ fromClient' = c /\ fromServer' = s
        /\ UNCHANGED <<closing, code, tcp, pipe>>
     \/ /\ read = Greeting /\ side = "ok" /\ ~closing
        /\ StartPiping(c, s)
        /\ UNCHANGED <<closing, code, tcp>>

\* greetClient has read `read` messages, the other side is `side`; `c` and `s` are
\* what is kept for later.
Continue(read, side, c, s) ==
  /\ clientRead' = read
  /\ serverSide' = side
  /\ \/ /\ read < Greeting \/ side = "authenticating"
        /\ fromClient' = c /\ fromServer' = s
        /\ UNCHANGED <<at, closing, code, tcp, pipe>>
     \/ /\ read = Greeting /\ side = "refused"
        /\ at' = "over"
        /\ SafeEnd("auth")
        /\ tcp' = Destroyed
        /\ fromClient' = c /\ fromServer' = s
        /\ UNCHANGED pipe
     \/ /\ read = Greeting /\ side = "ok" /\ closing
        /\ at' = "over"
        /\ fromClient' = c /\ fromServer' = s
        /\ UNCHANGED <<closing, code, tcp, pipe>>
     \/ /\ read = Greeting /\ side = "ok" /\ ~closing
        /\ StartPiping(c, s)
        /\ UNCHANGED <<closing, code, tcp>>

\* greetClient throws (another protocol): the session is closed.
HandshakeFails(c, s) ==
  /\ at' = "over"
  /\ SafeEnd("handshake")
  /\ tcp' = Destroyed
  /\ fromClient' = c /\ fromServer' = s
  /\ UNCHANGED <<handshake, pipe>>

-----------------------------------------------------------------------------
(* The events of the sockets. *)

\* greetClient waits for a message.
GreetClientReads == at = "handshake" /\ clientRead < Greeting

\* The browser answers the relay's greeting, and may go on before it knows the
\* outcome (before RFB 3.8 it gets none).
ClientMessage ==
  LET n == sent["client"] + 1 IN
  /\ ws = "open"
  /\ at \in {"handshake", "piping", "over"} /\ tcp # "none"
  /\ n <= MaxSent
  /\ sent' = [sent EXCEPT !["client"] = n]
  /\ \/ /\ GreetClientReads
        /\ \/ Continue(clientRead + 1, serverSide, fromClient, fromServer)
           \/ HandshakeFails(fromClient, fromServer)
     \/ /\ at = "piping"
        /\ ToServer(<<n>>)
        /\ UNCHANGED <<at, closing, code, tcp, handshake, queues, shown, buffered, paused>>
     \/ /\ at = "over" \/ (at = "handshake" /\ clientRead = Greeting)
        /\ fromClient' = Append(fromClient, n)
        /\ UNCHANGED <<at, closing, code, tcp, handshake, fromServer, pipe>>
  /\ UNCHANGED ws

\* A server that refused sends no more.
ServerData ==
  LET n == sent["server"] + 1 IN
  /\ tcp = "open" /\ ~paused
  /\ serverSide # "refused"
  /\ n <= MaxSent
  /\ sent' = [sent EXCEPT !["server"] = n]
  /\ \/ /\ at = "handshake" /\ serverSide = "authenticating"
        /\ \E side \in (IF n < Auth THEN {"authenticating"} ELSE {"ok"}) \union {"refused"} :
             Continue(clientRead, side, fromClient, fromServer)
     \/ /\ at = "piping"
        /\ ToClient(<<n>>)
        /\ UNCHANGED <<at, closing, code, tcp, handshake, queues, written>>
     \/ /\ at = "over" \/ (at = "handshake" /\ serverSide = "ok")
        /\ fromServer' = Append(fromServer, n)
        /\ UNCHANGED <<at, closing, code, tcp, handshake, fromClient, pipe>>
  /\ UNCHANGED ws

\* Mutant: the close handler closes the server's queue only.
ReadFails_Server(side) ==
  at' = IF at = "handshake" /\ serverSide = "authenticating" THEN "over" ELSE at

\* The handshake ends with the read that fails, if one is pending on `side`.
ReadFails(side) ==
  at' = IF /\ at = "handshake"
           /\ \/ side = "server" /\ serverSide = "authenticating"
              \/ side = "any"
        THEN "over" ELSE at

\* The TCP socket's close event: of one destroyed, or closed by the server once
\* its data is read.
TcpCloses ==
  /\ tcp = "destroyed" \/ (tcp = "open" /\ ~paused)
  /\ tcp' = "closed"
  /\ SafeEnd("tcpClosed")
  /\ ReadFails("server")
  /\ UNCHANGED <<ws, sent, handshake, queues, pipe>>

\* Its error event; the close event follows.
TcpFails ==
  /\ tcp = "open"
  /\ tcp' = "destroyed"
  /\ SafeEnd("tcp")
  /\ ReadFails("server")
  /\ UNCHANGED <<ws, sent, handshake, queues, pipe>>

\* The close handler: the browser went, or the relay ended the WebSocket (at once
\* or later).
WsCloses ==
  /\ ws = "open"
  /\ ws' = "closed"
  /\ closing' = TRUE
  /\ tcp' = Destroyed
  /\ ReadFails("any")
  /\ UNCHANGED <<code, sent, handshake, queues, pipe>>

HandshakeTimeout ==
  /\ at = "handshake" /\ tcp = "open"
  /\ tcp' = "destroyed"
  /\ SafeEnd("timeout")
  /\ UNCHANGED <<at, ws, sent, handshake, queues, pipe>>

\* Mutant: resumed only if the WebSocket drains to the exact threshold.
BufferDrains_Exact ==
  /\ ws = "open" /\ buffered > 0
  /\ buffered' \in 0..(buffered - 1)
  /\ paused' = (paused /\ buffered' # High)
  /\ UNCHANGED <<at, closing, code, ws, tcp, sent, handshake, queues, written, shown>>

\* The WebSocket sends on, and the drain handler runs.
BufferDrains ==
  /\ ws = "open" /\ buffered > 0
  /\ buffered' \in 0..(buffered - 1)
  /\ paused' = (paused /\ buffered' >= High)
  /\ UNCHANGED <<at, closing, code, ws, tcp, sent, handshake, queues, written, shown>>

StartRelay == Open \/ Allowed \/ Resolve \/ ReadSecret

Next ==
  \/ StartRelay
  \/ ClientMessage
  \/ ServerData
  \/ TcpCloses
  \/ TcpFails
  \/ WsCloses
  \/ HandshakeTimeout
  \/ BufferDrains

Spec == Init /\ [][Next]_vars

\* The awaited calls are answered, the timer fires, a destroyed socket is closed,
\* so is a WebSocket the relay ended, and an open one sends what it holds.
FairSpec ==
  /\ Spec
  /\ WF_vars(StartRelay)
  /\ WF_vars(HandshakeTimeout)
  /\ WF_vars(tcp = "destroyed" /\ TcpCloses)
  /\ WF_vars(closing /\ WsCloses)
  /\ WF_vars(BufferDrains)

-----------------------------------------------------------------------------

From(n, messages) == messages = [i \in 1..Len(messages) |-> n + i]

\* Each side gets what the other sent after its part of the handshake, every
\* message once and in order, those sent before the pipe was open too; while the
\* session lasts, none is held back.
PipedInOrder ==
  /\ From(Greeting, written) /\ From(Auth, shown)
  /\ at = "piping" /\ ~closing =>
       /\ Len(written) = sent["client"] - Greeting
       /\ Len(shown) = sent["server"] - Auth

\* No TCP socket is left behind, or opened, once the WebSocket's handler ran.
SocketFollows == ws = "closed" => tcp # "open"

\* A socket is paused over the threshold, and stays so only as long as a drain is
\* to come.
Backpressure ==
  at = "piping" /\ tcp = "open" =>
    /\ ~closing /\ buffered > High => paused
    /\ paused => buffered >= High

\* startRelay ends, in a pipe or a closed session: the browser that never answers
\* and the server that never does are timed out.
EverySessionStarts == at \notin {"piping", "over"} ~> at \in {"piping", "over"}

\* A socket paused is resumed, or closed.
EveryPauseEnds == paused ~> ~paused \/ tcp # "open"

\* The server's refusal is told (vncRelay.ts:30, "the reason also reaches noVNC"):
\* its hanging up comes first only while the browser has not answered the greeting.
RefusalLostEarly ==
  [][serverSide = "refused" /\ code = "none" /\ code' \in {"tcp", "tcpClosed"} =>
       clientRead < Greeting]_vars
=============================================================================
