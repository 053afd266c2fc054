-------------------------- MODULE VncRelayProofs ---------------------------
(***************************************************************************)
(* Proofs about VncRelay: the pipe is in order, sockets follow each other,  *)
(* backpressure.                                                           *)
(***************************************************************************)
EXTENDS VncRelay, TLAPS

-----------------------------------------------------------------------------
(* Sequences of consecutive numbers. *)

\* A sequence of consecutive messages goes on with the next one.
LEMMA FromAppend ==
  ASSUME NEW n \in Nat, NEW s \in Seq(Nat), From(n, s), NEW x, x = n + Len(s) + 1
  PROVE  /\ Append(s, x) \in Seq(Nat)
         /\ Len(Append(s, x)) = Len(s) + 1
         /\ From(n, Append(s, x))
<1> DEFINE t == Append(s, x)
<1>1. x \in Nat
  OBVIOUS
<1>2. t \in Seq(Nat) /\ Len(t) = Len(s) + 1
  BY <1>1
<1>3. \A i \in 1..Len(s) : t[i] = s[i]
  BY <1>1
<1>4. \A i \in 1..Len(s) : s[i] = n + i
  BY DEF From
<1>5. \A i \in 1..Len(t) : t[i] = n + i
  <2>1. t[Len(s) + 1] = n + (Len(s) + 1)
    BY <1>1
  <2>2. \A i \in 1..Len(t) : i \in 1..Len(s) \/ i = Len(s) + 1
    <3>1. Len(t) = Len(s) + 1 /\ Len(s) \in Nat
      BY <1>2
    <3> HIDE DEF t
    <3> QED
      BY <3>1
  <2> HIDE DEF t
  <2>3. \A i \in 1..Len(s) : t[i] = n + i
    BY <1>3, <1>4
  <2> QED
    BY <2>1, <2>2, <2>3
<1>6. t = [i \in 1..Len(t) |-> t[i]]
  BY <1>2
<1> QED
  BY <1>2, <1>5, <1>6 DEF From

\* The same, of a message written.
LEMMA FromNext ==
  ASSUME NEW n \in Nat, NEW s \in Seq(Nat), From(n, s), NEW x, x = n + Len(s) + 1
  PROVE  /\ s \o <<x>> \in Seq(Nat)
         /\ Len(s \o <<x>>) = Len(s) + 1
         /\ From(n, s \o <<x>>)
<1> DEFINE t == s \o <<x>>
<1>1. x \in Nat
  OBVIOUS
<1>2. t \in Seq(Nat) /\ Len(t) = Len(s) + 1
  BY <1>1
<1>3. \A i \in 1..Len(s) : t[i] = s[i]
  BY <1>1
<1>4. \A i \in 1..Len(s) : s[i] = n + i
  BY DEF From
<1>5. \A i \in 1..Len(t) : t[i] = n + i
  <2>1. t[Len(s) + 1] = n + (Len(s) + 1)
    BY <1>1
  <2>2. \A i \in 1..Len(t) : i \in 1..Len(s) \/ i = Len(s) + 1
    <3>1. Len(t) = Len(s) + 1 /\ Len(s) \in Nat
      BY <1>2
    <3> HIDE DEF t
    <3> QED
      BY <3>1
  <2> HIDE DEF t
  <2>3. \A i \in 1..Len(s) : t[i] = n + i
    BY <1>3, <1>4
  <2> QED
    BY <2>1, <2>2, <2>3
<1>6. t = [i \in 1..Len(t) |-> t[i]]
  BY <1>2
<1> QED
  BY <1>2, <1>5, <1>6 DEF From

\* The empty sequence.
LEMMA FromEmpty ==
  /\ <<>> \in Seq(Nat) /\ Len(<<>>) = 0
  /\ \A n : From(n, <<>>)
  /\ \A s \in Seq(Nat) : <<>> \o s = s /\ s \o <<>> = s
  BY DEF From

-----------------------------------------------------------------------------
(* The inductive invariant. *)

\* A closed session has no socket open; one that waits or pipes and is not closed
\* has one.
Sockets ==
  /\ closing => tcp # "open"
  /\ ws = "closed" \/ at = "over" => closing
  /\ at \in {"handshake", "piping"} /\ ~closing => tcp = "open"

\* Nobody has spoken before the TCP socket was opened.
Unopened ==
  at \in {"open", "allowed", "resolve", "readSecret"} =>
    /\ tcp = "none"
    /\ sent = [side \in {"client", "server"} |-> 0]
    /\ clientRead = 0 /\ serverSide = "authenticating"
    /\ fromClient = <<>> /\ fromServer = <<>>

\* Nothing is piped before the pipe is open.
Unpiped ==
  at \notin {"piping", "over"} =>
    written = <<>> /\ shown = <<>> /\ buffered = 0 /\ paused = FALSE

\* What the handshake keeps for later is what came after its part.
Kept ==
  at = "handshake" =>
    /\ From(Greeting, fromClient)
    /\ clientRead + Len(fromClient) = sent["client"]
    /\ clientRead < Greeting => fromClient = <<>>
    /\ From(Auth, fromServer)
    /\ serverSide = "authenticating" => sent["server"] < Auth /\ fromServer = <<>>
    /\ serverSide = "ok" => Auth + Len(fromServer) = sent["server"]

IInv ==
  TypeOK /\ Sockets /\ Unopened /\ Unpiped /\ Kept /\ PipedInOrder /\ Backpressure

LEMMA InitInv == Init => IInv
<1> SUFFICES ASSUME Init PROVE IInv
  OBVIOUS
<1> USE RelayAssumption DEF Init
<1>1. TypeOK
  <2>1. sent \in [{"client", "server"} -> Nat] /\ clientRead \in 0..Greeting
    OBVIOUS
  <2>2. at = "open" /\ <<>> \in Seq(Nat)
    OBVIOUS
  <2> QED
    BY <2>1, <2>2 DEF TypeOK
<1>2. Sockets
  BY DEF Sockets
<1>3. Unopened
  BY DEF Unopened
<1>4. Unpiped
  BY DEF Unpiped
<1>5. Kept
  BY DEF Kept
<1>6. PipedInOrder
  BY FromEmpty DEF PipedInOrder
<1>7. Backpressure
  BY DEF Backpressure
<1> QED
  BY <1>1, <1>2, <1>3, <1>4, <1>5, <1>6, <1>7 DEF IInv

LEMMA OpenInv ==
  ASSUME IInv, Open
  PROVE  IInv'
<1> USE RelayAssumption DEF IInv, Open, SafeEnd, Codes, handshake, queues, pipe
<1>1. TypeOK'
  BY DEF TypeOK, Sockets
<1>2. Sockets'
  BY DEF Sockets, Unopened
<1>3. Unopened'
  BY DEF Unopened
<1>4. Unpiped'
  BY DEF Unpiped
<1>5. Kept'
  BY DEF Kept
<1>6. PipedInOrder'
  BY DEF PipedInOrder
<1>7. Backpressure'
  BY DEF Backpressure
<1> QED
  BY <1>1, <1>2, <1>3, <1>4, <1>5, <1>6, <1>7

LEMMA AllowedInv ==
  ASSUME IInv, Allowed
  PROVE  IInv'
<1> USE RelayAssumption DEF IInv, Allowed, SafeEnd, Codes, handshake, queues, pipe
<1>1. TypeOK'
  BY DEF TypeOK, Sockets
<1>2. Sockets'
  BY DEF Sockets, Unopened
<1>3. Unopened'
  BY DEF Unopened
<1>4. Unpiped'
  BY DEF Unpiped
<1>5. Kept'
  BY DEF Kept
<1>6. PipedInOrder'
  BY DEF PipedInOrder
<1>7. Backpressure'
  BY DEF Backpressure
<1> QED
  BY <1>1, <1>2, <1>3, <1>4, <1>5, <1>6, <1>7

LEMMA ResolveInv ==
  ASSUME IInv, Resolve
  PROVE  IInv'
<1> USE RelayAssumption DEF IInv, Resolve, SafeEnd, Codes, handshake, queues, pipe
<1>1. TypeOK'
  BY DEF TypeOK
<1>2. Sockets'
  BY DEF Sockets, Unopened
<1>3. Unopened'
  BY DEF Unopened
<1>4. Unpiped'
  BY DEF Unpiped
<1>5. Kept'
  BY DEF Kept
<1>6. PipedInOrder'
  BY DEF PipedInOrder
<1>7. Backpressure'
  BY DEF Backpressure
<1> QED
  BY <1>1, <1>2, <1>3, <1>4, <1>5, <1>6, <1>7

LEMMA ReadSecretInv ==
  ASSUME IInv, ReadSecret
  PROVE  IInv'
<1> USE RelayAssumption DEF IInv, ReadSecret, handshake, queues, pipe
<1>1. TypeOK'
  BY DEF TypeOK
<1>2. Sockets'
  BY DEF Sockets
<1>3. Unopened'
  BY DEF Unopened
<1>4. Unpiped'
  BY DEF Unpiped
<1>5. Kept'
  BY DEF Unopened, Unpiped, Kept, PipedInOrder
<1>6. PipedInOrder'
  BY DEF PipedInOrder
<1>7. Backpressure'
  BY DEF Backpressure
<1> QED
  BY <1>1, <1>2, <1>3, <1>4, <1>5, <1>6, <1>7

LEMMA TcpClosesInv ==
  ASSUME IInv, TcpCloses
  PROVE  IInv'
<1> USE RelayAssumption
       DEF IInv, TcpCloses, SafeEnd, Codes, ReadFails, handshake, queues, pipe
<1>1. TypeOK'
  BY DEF TypeOK
<1>2. Sockets'
  BY DEF Sockets
<1>3. Unopened'
  BY DEF Unopened
<1>4. Unpiped'
  BY DEF Unpiped
<1>5. Kept'
  BY DEF Kept
<1>6. PipedInOrder'
  BY DEF PipedInOrder
<1>7. Backpressure'
  BY DEF Backpressure
<1> QED
  BY <1>1, <1>2, <1>3, <1>4, <1>5, <1>6, <1>7

LEMMA TcpFailsInv ==
  ASSUME IInv, TcpFails
  PROVE  IInv'
<1> USE RelayAssumption
       DEF IInv, TcpFails, SafeEnd, Codes, ReadFails, handshake, queues, pipe
<1>1. TypeOK'
  BY DEF TypeOK
<1>2. Sockets'
  BY DEF Sockets
<1>3. Unopened'
  BY DEF Unopened
<1>4. Unpiped'
  BY DEF Unpiped
<1>5. Kept'
  BY DEF Kept
<1>6. PipedInOrder'
  BY DEF PipedInOrder
<1>7. Backpressure'
  BY DEF Backpressure
<1> QED
  BY <1>1, <1>2, <1>3, <1>4, <1>5, <1>6, <1>7

LEMMA WsClosesInv ==
  ASSUME IInv, WsCloses
  PROVE  IInv'
<1> USE RelayAssumption DEF IInv, WsCloses, ReadFails, Destroyed, handshake, queues, pipe
<1>1. TypeOK'
  BY DEF TypeOK
<1>2. Sockets'
  BY DEF Sockets
<1>3. Unopened'
  BY DEF Unopened
<1>4. Unpiped'
  BY DEF Unpiped
<1>5. Kept'
  BY DEF Kept
<1>6. PipedInOrder'
  BY DEF PipedInOrder
<1>7. Backpressure'
  BY DEF Backpressure
<1> QED
  BY <1>1, <1>2, <1>3, <1>4, <1>5, <1>6, <1>7

LEMMA HandshakeTimeoutInv ==
  ASSUME IInv, HandshakeTimeout
  PROVE  IInv'
<1> USE RelayAssumption DEF IInv, HandshakeTimeout, SafeEnd, Codes, handshake, queues, pipe
<1>1. TypeOK'
  BY DEF TypeOK
<1>2. Sockets'
  BY DEF Sockets
<1>3. Unopened'
  BY DEF Unopened
<1>4. Unpiped'
  BY DEF Unpiped
<1>5. Kept'
  BY DEF Kept
<1>6. PipedInOrder'
  BY DEF PipedInOrder
<1>7. Backpressure'
  BY DEF Backpressure
<1> QED
  BY <1>1, <1>2, <1>3, <1>4, <1>5, <1>6, <1>7

LEMMA BufferDrainsInv ==
  ASSUME IInv, BufferDrains
  PROVE  IInv'
<1> USE RelayAssumption DEF IInv, BufferDrains, handshake, queues, pipe
<1>1. TypeOK'
  BY DEF TypeOK
<1>2. Sockets'
  BY DEF Sockets
<1>3. Unopened'
  BY DEF Unopened
<1>4. Unpiped'
  BY DEF Unpiped
<1>5. Kept'
  BY DEF Kept
<1>6. PipedInOrder'
  BY DEF PipedInOrder
<1>7. Backpressure'
  BY DEF TypeOK, Sockets, Backpressure
<1> QED
  BY <1>1, <1>2, <1>3, <1>4, <1>5, <1>6, <1>7

\* A read of the handshake, of either side, after which the queues are as before.
LEMMA ContinueInv ==
  ASSUME IInv, at = "handshake", UNCHANGED ws,
         NEW read \in 0..Greeting, NEW side \in {"authenticating", "ok", "refused"},
         sent' \in [{"client", "server"} -> Nat],
         read + Len(fromClient) = sent'["client"],
         read < Greeting => fromClient = <<>>,
         side = "authenticating" => sent'["server"] < Auth /\ fromServer = <<>>,
         side = "ok" => Auth + Len(fromServer) = sent'["server"],
         Continue(read, side, fromClient, fromServer)
  PROVE  IInv'
<1> USE RelayAssumption DEF IInv
<1>a. CASE read < Greeting \/ side = "authenticating"
  <2>0. /\ clientRead' = read /\ serverSide' = side
        /\ UNCHANGED <<at, closing, code, tcp, queues, pipe>>
    BY <1>a DEF Continue, queues
  <2> USE <1>a, <2>0 DEF queues, pipe
  <2>1. TypeOK'
    BY DEF TypeOK
  <2>2. Sockets'
    BY DEF Sockets
  <2>3. Unopened'
    BY DEF Unopened
  <2>4. Unpiped'
    BY DEF Unpiped
  <2>5. Kept'
    <3>1. From(Greeting, fromClient) /\ From(Auth, fromServer)
      BY DEF Kept
    <3> QED
      BY <3>1 DEF Kept
  <2>6. PipedInOrder'
    BY DEF PipedInOrder
  <2>7. Backpressure'
    BY DEF Backpressure
  <2> QED
    BY <2>1, <2>2, <2>3, <2>4, <2>5, <2>6, <2>7
<1>b. CASE read = Greeting /\ side = "refused"
  <2> USE <1>b
  <2>1. TypeOK'
    BY DEF TypeOK, Continue, SafeEnd, Destroyed, Codes, pipe
  <2>2. Sockets'
    BY DEF Sockets, Continue, SafeEnd, Destroyed, Codes, pipe
  <2>3. Unopened'
    BY DEF Unopened, Continue, SafeEnd, Destroyed, Codes, pipe
  <2>4. Unpiped'
    BY DEF Unpiped, Continue, SafeEnd, Destroyed, Codes, pipe
  <2>5. Kept'
    BY DEF Kept, Continue, SafeEnd, Destroyed, Codes, pipe
  <2>6. PipedInOrder'
    BY DEF PipedInOrder, Continue, SafeEnd, Destroyed, Codes, pipe
  <2>7. Backpressure'
    BY DEF Backpressure, Continue, SafeEnd, Destroyed, Codes, pipe
  <2> QED
    BY <2>1, <2>2, <2>3, <2>4, <2>5, <2>6, <2>7
<1>c. CASE read = Greeting /\ side = "ok" /\ closing
  <2> USE <1>c
  <2>1. TypeOK'
    BY DEF TypeOK, Continue, pipe
  <2>2. Sockets'
    BY DEF Sockets, Continue, pipe
  <2>3. Unopened'
    BY DEF Unopened, Continue, pipe
  <2>4. Unpiped'
    BY DEF Unpiped, Continue, pipe
  <2>5. Kept'
    BY DEF Kept, Continue, pipe
  <2>6. PipedInOrder'
    BY DEF PipedInOrder, Continue, pipe
  <2>7. Backpressure'
    BY DEF Backpressure, Continue, pipe
  <2> QED
    BY <2>1, <2>2, <2>3, <2>4, <2>5, <2>6, <2>7
<1>d. CASE read = Greeting /\ side = "ok" /\ ~closing
  <2>0. /\ at' = "piping" /\ closing' = closing /\ code' = code /\ tcp' = tcp
        /\ clientRead' = read /\ serverSide' = side
        /\ fromClient' = <<>> /\ fromServer' = <<>>
        /\ tcp = "open"
    BY <1>d DEF Continue, StartPiping, Sockets
  <2>a. written' = fromClient
    BY <1>d, <2>0, FromEmpty DEF Continue, StartPiping, ToServer, Unpiped, TypeOK
  <2>b. /\ shown' = fromServer /\ buffered' = Len(fromServer)
        /\ paused' <=> Len(fromServer) > High
    <3>1. ToClient(fromServer)
      BY <1>d DEF Continue, StartPiping
    <3>2. fromServer \in Seq(Nat) /\ shown = <<>> /\ buffered = 0 /\ paused = FALSE
      BY DEF Unpiped, TypeOK
    <3>3. CASE fromServer = <<>>
      BY <3>1, <3>2, <3>3, FromEmpty DEF ToClient
    <3>4. CASE fromServer # <<>>
      <4>1. /\ shown' = <<>> \o fromServer
            /\ buffered' = 0 + Len(fromServer)
            /\ paused' = (paused \/ (tcp = "open" /\ buffered' > High))
        BY <1>d, <3>1, <3>2, <3>4 DEF ToClient
      <4>2. shown' = fromServer
        BY <4>1, <3>2, FromEmpty
      <4>3. buffered' = Len(fromServer)
        BY <4>1, <3>2
      <4>4. paused' <=> buffered' > High
        BY <4>1, <3>2, <2>0, Zenon
      <4> QED
        BY <4>2, <4>3, <4>4
    <3> QED
      BY <3>3, <3>4
  <2> USE <1>d, <2>0, <2>a, <2>b
  <2>1. TypeOK'
    <3>1. paused' \in BOOLEAN
      BY <1>d, <2>0 DEF Continue, StartPiping, ToClient, TypeOK
    <3>2. written' \in Seq(Nat) /\ shown' \in Seq(Nat) /\ buffered' \in Nat
      BY DEF TypeOK
    <3> QED
      BY <3>1, <3>2, FromEmpty DEF TypeOK
  <2>2. Sockets'
    BY DEF Sockets
  <2>3. Unopened'
    BY DEF Unopened
  <2>4. Unpiped'
    BY DEF Unpiped
  <2>5. Kept'
    BY FromEmpty DEF Kept
  <2>6. PipedInOrder'
    BY DEF Kept, PipedInOrder
  <2>7. Backpressure'
    BY DEF Backpressure
  <2> QED
    BY <2>1, <2>2, <2>3, <2>4, <2>5, <2>6, <2>7
<1> QED
  BY <1>a, <1>b, <1>c, <1>d

\* The pipe, when a message of the server comes.
LEMMA ToClientPipes ==
  ASSUME TypeOK, NEW x \in Nat, ToClient(<<x>>),
         From(Auth, shown), x = Auth + Len(shown) + 1
  PROVE  /\ shown' \in Seq(Nat) /\ buffered' \in Nat /\ paused' \in BOOLEAN
         /\ From(Auth, shown')
         /\ ~closing => Len(shown') = Len(shown) + 1
         /\ ~closing /\ tcp = "open" /\ buffered' > High => paused'
         /\ paused' => buffered' >= High \/ (paused /\ buffered' >= buffered)
<1>1. CASE closing
  BY <1>1 DEF ToClient, TypeOK
<1>2. CASE ~closing
  <2>1. /\ shown' = shown \o <<x>>
        /\ buffered' = buffered + 1
        /\ paused' = (paused \/ (tcp = "open" /\ buffered' > High))
    BY <1>2 DEF ToClient
  <2>2. /\ shown' \in Seq(Nat) /\ From(Auth, shown') /\ Len(shown') = Len(shown) + 1
    BY <2>1, FromNext, RelayAssumption DEF TypeOK
  <2>3. buffered' \in Nat /\ paused' \in BOOLEAN /\ buffered' >= buffered
    BY <2>1, RelayAssumption DEF TypeOK
  <2>4. paused' <=> (paused \/ (tcp = "open" /\ buffered' > High))
    BY <2>1, Zenon
  <2>5. buffered' > High => buffered' >= High
    BY <2>3, RelayAssumption
  <2> QED
    BY <1>2, <2>2, <2>3, <2>4, <2>5
<1> QED
  BY <1>1, <1>2

LEMMA ClientMessageInv ==
  ASSUME IInv, ClientMessage
  PROVE  IInv'
<1> USE RelayAssumption DEF IInv
<1> DEFINE n == sent["client"] + 1
<1>1. /\ UNCHANGED ws
      /\ sent' \in [{"client", "server"} -> Nat]
      /\ sent'["client"] = n /\ n \in Nat
      /\ sent'["server"] = sent["server"]
  BY DEF ClientMessage, TypeOK
<1>2. CASE GreetClientReads /\ Continue(clientRead + 1, serverSide, fromClient, fromServer)
  <2>1. at = "handshake" /\ clientRead + 1 \in 0..Greeting /\ fromClient = <<>>
    BY <1>2 DEF GreetClientReads, Kept, TypeOK
  <2>2. clientRead + 1 + Len(fromClient) = sent'["client"]
    BY <1>1, <2>1 DEF Kept, TypeOK
  <2>3. /\ serverSide = "authenticating" => sent'["server"] < Auth /\ fromServer = <<>>
        /\ serverSide = "ok" => Auth + Len(fromServer) = sent'["server"]
        /\ serverSide \in {"authenticating", "ok", "refused"}
    BY <1>1, <2>1 DEF Kept, TypeOK
  <2> QED
    BY <1>1, <1>2, <2>1, <2>2, <2>3, ContinueInv
<1>3. CASE GreetClientReads /\ HandshakeFails(fromClient, fromServer)
  <2> USE <1>1, <1>3
         DEF GreetClientReads, HandshakeFails, SafeEnd, Destroyed, Codes, handshake, pipe
  <2>1. TypeOK'
    BY DEF TypeOK
  <2>2. Sockets'
    BY DEF Sockets
  <2>3. Unopened'
    BY DEF Unopened
  <2>4. Unpiped'
    BY DEF Unpiped
  <2>5. Kept'
    BY DEF Kept
  <2>6. PipedInOrder'
    BY DEF PipedInOrder
  <2>7. Backpressure'
    BY DEF Backpressure
  <2> QED
    BY <2>1, <2>2, <2>3, <2>4, <2>5, <2>6, <2>7
<1>4. CASE /\ at = "piping"
           /\ ToServer(<<n>>)
           /\ UNCHANGED <<at, closing, code, tcp, handshake, queues, shown, buffered, paused>>
  <2>a. /\ written' \in Seq(Nat)
        /\ From(Greeting, written')
        /\ ~closing => Len(written') = Len(written) + 1
    <3>1. CASE tcp # "open"
      BY <1>4, <3>1 DEF ToServer, Sockets, PipedInOrder, TypeOK
    <3>2. CASE tcp = "open"
      <4>1. written' = written \o <<n>> /\ n = Greeting + Len(written) + 1
        <5>1. ~closing /\ Len(written) = sent["client"] - Greeting
          BY <1>4, <3>2 DEF Sockets, PipedInOrder
        <5>2. written' = written \o <<n>>
          BY <1>4, <3>2 DEF ToServer
        <5>3. n = Greeting + Len(written) + 1
          BY <5>1 DEF TypeOK
        <5> QED
          BY <5>2, <5>3
      <4> QED
        BY <4>1, FromNext DEF PipedInOrder, TypeOK
    <3> QED
      BY <3>1, <3>2
  <2>b. ~closing => Len(written') = sent'["client"] - Greeting
    <3>1. CASE closing
      BY <3>1
    <3>2. CASE ~closing
      <4>1. Len(written) = sent["client"] - Greeting
        BY <1>4, <3>2 DEF PipedInOrder
      <4>2. Len(written') = Len(written) + 1 /\ sent'["client"] = sent["client"] + 1
        BY <1>1, <2>a, <3>2
      <4>3. sent["client"] \in Nat
        BY DEF TypeOK
      <4> QED
        BY <4>1, <4>2, <4>3
    <3> QED
      BY <3>1, <3>2
  <2> USE <1>1, <1>4 DEF handshake, queues
  <2>1. TypeOK'
    BY <2>a DEF TypeOK
  <2>2. Sockets'
    BY <2>a DEF Sockets
  <2>3. Unopened'
    BY <2>a DEF Unopened
  <2>4. Unpiped'
    BY <2>a DEF Unpiped
  <2>5. Kept'
    BY <2>a DEF Kept
  <2>6. PipedInOrder'
    <3>1. /\ From(Auth, shown) /\ shown' = shown
          /\ ~closing => Len(shown) = sent["server"] - Auth
      BY DEF PipedInOrder
    <3> QED
      BY <2>a, <2>b, <3>1 DEF PipedInOrder
  <2>7. Backpressure'
    BY <2>a DEF Backpressure
  <2> QED
    BY <2>1, <2>2, <2>3, <2>4, <2>5, <2>6, <2>7
<1>5. CASE /\ at = "over" \/ (at = "handshake" /\ clientRead = Greeting)
           /\ fromClient' = Append(fromClient, n)
           /\ UNCHANGED <<at, closing, code, tcp, handshake, fromServer, pipe>>
  <2> USE <1>1, <1>5 DEF handshake, pipe
  <2>a. fromClient' \in Seq(Nat)
    BY DEF TypeOK
  <2>b. at = "handshake" => /\ From(Greeting, fromClient')
                            /\ Len(fromClient') = Len(fromClient) + 1
    <3> SUFFICES ASSUME at = "handshake"
                 PROVE  /\ From(Greeting, fromClient')
                        /\ Len(fromClient') = Len(fromClient) + 1
      OBVIOUS
    <3>1. /\ n = Greeting + Len(fromClient) + 1
          /\ fromClient \in Seq(Nat) /\ From(Greeting, fromClient)
      BY DEF Kept, TypeOK
    <3>2. /\ From(Greeting, Append(fromClient, n))
          /\ Len(Append(fromClient, n)) = Len(fromClient) + 1
      BY <3>1, FromAppend
    <3> QED
      BY <3>2
  <2>1. TypeOK'
    BY <2>a, <2>b DEF TypeOK
  <2>2. Sockets'
    BY <2>a, <2>b DEF Sockets
  <2>3. Unopened'
    BY <2>a, <2>b DEF Unopened
  <2>4. Unpiped'
    BY <2>a, <2>b DEF Unpiped
  <2>5. Kept'
    BY <2>a, <2>b DEF Kept
  <2>6. PipedInOrder'
    BY <2>a, <2>b DEF PipedInOrder
  <2>7. Backpressure'
    BY <2>a, <2>b DEF Backpressure
  <2> QED
    BY <2>1, <2>2, <2>3, <2>4, <2>5, <2>6, <2>7
<1> QED
  BY <1>2, <1>3, <1>4, <1>5 DEF ClientMessage

LEMMA ServerDataInv ==
  ASSUME IInv, ServerData
  PROVE  IInv'
<1> USE RelayAssumption DEF IInv
<1> DEFINE n == sent["server"] + 1
<1>1. /\ UNCHANGED ws /\ tcp = "open"
      /\ sent' \in [{"client", "server"} -> Nat]
      /\ sent'["server"] = n /\ n \in Nat
      /\ sent'["client"] = sent["client"]
  BY DEF ServerData, TypeOK
<1>2. CASE /\ at = "handshake" /\ serverSide = "authenticating"
           /\ \E side \in (IF n < Auth THEN {"authenticating"} ELSE {"ok"}) \union {"refused"} :
                Continue(clientRead, side, fromClient, fromServer)
  <2>1. PICK side \in (IF n < Auth THEN {"authenticating"} ELSE {"ok"}) \union {"refused"} :
          Continue(clientRead, side, fromClient, fromServer)
    BY <1>2
  <2>2. sent["server"] < Auth /\ fromServer = <<>>
    BY <1>2 DEF Kept
  <2>3. /\ side = "authenticating" => sent'["server"] < Auth /\ fromServer = <<>>
        /\ side = "ok" => Auth + Len(fromServer) = sent'["server"]
        /\ side \in {"authenticating", "ok", "refused"}
    BY <1>1, <2>1, <2>2, FromEmpty DEF TypeOK
  <2>4. /\ clientRead \in 0..Greeting /\ clientRead + Len(fromClient) = sent'["client"]
        /\ clientRead < Greeting => fromClient = <<>>
    BY <1>1, <1>2 DEF Kept, TypeOK
  <2> QED
    BY <1>1, <1>2, <2>1, <2>3, <2>4, ContinueInv
<1>3. CASE /\ at = "piping"
           /\ ToClient(<<n>>)
           /\ UNCHANGED <<at, closing, code, tcp, handshake, queues, written>>
  <2>a. ~closing /\ n = Auth + Len(shown) + 1 /\ From(Auth, shown)
    <3>1. ~closing /\ Len(shown) = sent["server"] - Auth /\ From(Auth, shown)
      BY <1>1, <1>3 DEF Sockets, PipedInOrder
    <3> QED
      BY <3>1 DEF TypeOK
  <2>b. /\ shown' \in Seq(Nat) /\ buffered' \in Nat /\ paused' \in BOOLEAN
        /\ From(Auth, shown')
        /\ Len(shown') = Len(shown) + 1
        /\ buffered' > High => paused'
        /\ paused' => buffered' >= High \/ (paused /\ buffered' >= buffered)
    BY <1>1, <1>3, <2>a, ToClientPipes
  <2> USE <1>1, <1>3 DEF handshake, queues
  <2>1. TypeOK'
    BY <2>a, <2>b DEF TypeOK
  <2>2. Sockets'
    BY <2>a, <2>b DEF Sockets
  <2>3. Unopened'
    BY <2>a, <2>b DEF Unopened
  <2>4. Unpiped'
    BY <2>a, <2>b DEF Unpiped
  <2>5. Kept'
    BY <2>a, <2>b DEF Kept
  <2>6. PipedInOrder'
    BY <2>a, <2>b DEF PipedInOrder
  <2>7. Backpressure'
    BY <2>a, <2>b DEF TypeOK, Backpressure
  <2> QED
    BY <2>1, <2>2, <2>3, <2>4, <2>5, <2>6, <2>7
<1>4. CASE /\ at = "over" \/ (at = "handshake" /\ serverSide = "ok")
           /\ fromServer' = Append(fromServer, n)
           /\ UNCHANGED <<at, closing, code, tcp, handshake, fromClient, pipe>>
  <2>a. at = "handshake" /\ serverSide = "ok"
    BY <1>1, <1>4 DEF Sockets
  <2>b. /\ fromServer' \in Seq(Nat) /\ From(Auth, fromServer')
        /\ Len(fromServer') = Len(fromServer) + 1
    <3>1. /\ n = Auth + Len(fromServer) + 1
          /\ fromServer \in Seq(Nat) /\ From(Auth, fromServer)
      BY <2>a DEF Kept, TypeOK
    <3>2. /\ Append(fromServer, n) \in Seq(Nat)
          /\ From(Auth, Append(fromServer, n))
          /\ Len(Append(fromServer, n)) = Len(fromServer) + 1
      BY <3>1, FromAppend
    <3> QED
      BY <1>4, <3>2
  <2> USE <1>1, <1>4 DEF handshake, pipe
  <2>1. TypeOK'
    BY <2>a, <2>b DEF TypeOK
  <2>2. Sockets'
    BY <2>a, <2>b DEF Sockets
  <2>3. Unopened'
    BY <2>a, <2>b DEF Unopened
  <2>4. Unpiped'
    BY <2>a, <2>b DEF Unpiped
  <2>5. Kept'
    BY <2>a, <2>b DEF Kept
  <2>6. PipedInOrder'
    BY <2>a, <2>b DEF PipedInOrder
  <2>7. Backpressure'
    BY <2>a, <2>b DEF Backpressure
  <2> QED
    BY <2>1, <2>2, <2>3, <2>4, <2>5, <2>6, <2>7
<1> QED
  BY <1>2, <1>3, <1>4 DEF ServerData

LEMMA NextInv == IInv /\ [Next]_vars => IInv'
<1> SUFFICES ASSUME IInv, [Next]_vars PROVE IInv'
  OBVIOUS
<1>1. CASE StartRelay
  BY <1>1, OpenInv, AllowedInv, ResolveInv, ReadSecretInv DEF StartRelay
<1>2. CASE UNCHANGED vars
  <2> USE <1>2 DEF vars
  <2>1. TypeOK'
    BY DEF IInv, TypeOK
  <2>2. Sockets'
    BY DEF IInv, Sockets
  <2>3. Unopened'
    BY DEF IInv, Unopened
  <2>4. Unpiped'
    BY DEF IInv, Unpiped
  <2>5. Kept'
    BY DEF IInv, Kept
  <2>6. PipedInOrder'
    BY DEF IInv, PipedInOrder
  <2>7. Backpressure'
    BY DEF IInv, Backpressure
  <2> QED
    BY <2>1, <2>2, <2>3, <2>4, <2>5, <2>6, <2>7 DEF IInv
<1> QED
  BY <1>1, <1>2, ClientMessageInv, ServerDataInv, TcpClosesInv, TcpFailsInv, WsClosesInv,
     HandshakeTimeoutInv, BufferDrainsInv DEF Next

\* The invariant holds in every reachable state, whatever the length of the
\* handshakes, the threshold and the number of messages.
LEMMA Invariant == Spec => []IInv
  BY InitInv, NextInv, PTL DEF Spec

-----------------------------------------------------------------------------

\* Every variable of the session keeps its type: neither side's handshake reads
\* beyond its last message.
THEOREM TypeCorrect == Spec => []TypeOK
  BY Invariant, PTL DEF IInv

\* What each side sends after its part of the handshake is piped once and in order,
\* what came before the pipe was open first (startRelay's drains, message, data).
THEOREM PipeInOrder == Spec => []PipedInOrder
  BY Invariant, PTL DEF IInv

\* No TCP socket is open once the WebSocket has closed, opened before or after.
THEOREM NoSocketLeft == Spec => []SocketFollows
<1>1. IInv => SocketFollows
  BY DEF IInv, Sockets, SocketFollows
<1> QED
  BY <1>1, Invariant, PTL

\* Above the threshold of toClient the TCP socket is paused, below that of drain it
\* is not.
THEOREM PausesRight == Spec => []Backpressure
  BY Invariant, PTL DEF IInv

-----------------------------------------------------------------------------
(* A refusal of the server.                                                *)

\* A refusal not told yet waits for the browser's part of the handshake.
Untold ==
  serverSide = "refused" /\ ~closing => at = "handshake" /\ clientRead < Greeting

LEMMA ContinueUntold ==
  ASSUME IInv, Untold, at = "handshake", NEW read \in 0..Greeting, NEW side, NEW c, NEW s,
         Continue(read, side, c, s)
  PROVE  Untold'
<1> USE RelayAssumption
<1>1. serverSide' = side /\ clientRead' = read
  BY DEF Continue
<1>2. CASE side # "refused"
  BY <1>1, <1>2 DEF Untold
<1>3. CASE side = "refused" /\ read = Greeting
  BY <1>3 DEF Continue, SafeEnd, Untold
<1>4. CASE side = "refused" /\ read < Greeting
  BY <1>1, <1>4 DEF Continue, Untold
<1> QED
  BY <1>2, <1>3, <1>4

LEMMA UntoldStep == IInv /\ Untold /\ [Next]_vars => Untold'
<1> SUFFICES ASSUME IInv, Untold, [Next]_vars PROVE Untold'
  OBVIOUS
<1>1. clientRead \in 0..Greeting /\ (at = "over" => closing)
  BY DEF IInv, TypeOK, Sockets
<1>2. CASE StartRelay
  BY <1>1, <1>2 DEF StartRelay, Open, Allowed, Resolve, ReadSecret, SafeEnd, handshake, Untold
<1>3. CASE ClientMessage
  <2>1. CASE GreetClientReads /\ Continue(clientRead + 1, serverSide, fromClient, fromServer)
    BY <1>1, <2>1, ContinueUntold, RelayAssumption DEF GreetClientReads
  <2>2. CASE HandshakeFails(fromClient, fromServer)
    BY <2>2 DEF HandshakeFails, SafeEnd, Untold
  <2>3. CASE UNCHANGED <<at, closing, handshake>>
    BY <2>3 DEF handshake, Untold
  <2> QED
    BY <1>3, <2>1, <2>2, <2>3 DEF ClientMessage, handshake
<1>4. CASE ServerData
  <2>1. CASE /\ at = "handshake"
             /\ \E side : Continue(clientRead, side, fromClient, fromServer)
    BY <1>1, <2>1, ContinueUntold
  <2>2. CASE UNCHANGED <<at, closing, handshake>>
    BY <2>2 DEF handshake, Untold
  <2> QED
    BY <1>4, <2>1, <2>2 DEF ServerData, handshake
<1>5. CASE TcpCloses \/ TcpFails \/ WsCloses \/ HandshakeTimeout
  BY <1>5 DEF TcpCloses, TcpFails, WsCloses, HandshakeTimeout, SafeEnd, Untold
<1>6. CASE BufferDrains \/ UNCHANGED vars
  BY <1>6 DEF BufferDrains, vars, handshake, Untold
<1> QED
  BY <1>2, <1>3, <1>4, <1>5, <1>6 DEF Next

\* The browser is told why the server refused: the server's hanging up, or an
\* error of its socket, comes first only before the browser's part of the
\* handshake is read (brokerHandshake, which greets the browser first).
THEOREM RefusalTold == Spec => RefusalLostEarly
<1>1. Init => Untold
  BY DEF Init, Untold
<1>2. ASSUME IInv, Untold, Next, serverSide = "refused", code = "none",
             code' \in {"tcp", "tcpClosed"}
      PROVE  clientRead < Greeting
  <2>1. CASE closing
    <3>1. code' \in {"none", "auth"} \/ code' = code
      BY <1>2, <2>1 DEF Next, StartRelay, Open, Allowed, Resolve, ReadSecret, ClientMessage,
         ServerData, TcpCloses, TcpFails, WsCloses, HandshakeTimeout, BufferDrains, SafeEnd,
         Continue, HandshakeFails
    <3> QED
      BY <1>2, <3>1
  <2>2. CASE ~closing
    BY <1>2, <2>2 DEF Untold
  <2> QED
    BY <2>1, <2>2
<1>3. IInv /\ Untold /\ [Next]_vars =>
        [serverSide = "refused" /\ code = "none" /\ code' \in {"tcp", "tcpClosed"} =>
           clientRead < Greeting]_vars
  BY <1>2
<1> QED
  BY <1>1, <1>3, UntoldStep, Invariant, PTL DEF Spec, RefusalLostEarly
=============================================================================
