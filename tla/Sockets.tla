------------------------------ MODULE Sockets ------------------------------
(* The socket client and server of lab 4. A client turns signals into        *)
(* requests: the handlers write message_to_send, which the main loop reads   *)
(* twice for each request and resets at the end. The server serves one       *)
(* connection at a time. Between them TCP, which is outside the repository:  *)
(* two queues for each connection; a read returns a whole message.           *)
(* Steps of a client that no handler and no server can tell apart are one    *)
(* action: preparing and writing a request, reading and showing an answer.   *)
EXTENDS Naturals, Sequences, FiniteSets

CONSTANTS Client,           \* the clients started during one run of the server
          MAX_CONNECTIONS,  \* length of the queue of pending connections
          MaxCounting       \* bound on the signals that ask for the counter

ASSUME SocketsAssumption ==
    /\ "none" \notin Client
    /\ MAX_CONNECTIONS \in Nat \ {0}
    /\ MaxCounting \in Nat

Requests == {"Bonjour", "Aurevoir", "Compteur", "Quitter"}

VARIABLES
    server,           \* where the server stands
    conn,             \* the client at the other end of conn_fd, or "none"
    backlog,          \* connections the server has not accepted yet
    counter,          \* counter of the server
    client,           \* where each client stands
    message_to_send,  \* of each client: 0 is "none"
    alt,              \* of each client: whether the next greeting is Bonjour
    toServer,         \* requests on their way, for each connection
    toClient,         \* answers on their way, for each connection
    open,             \* the ends of each connection that are open
    request,          \* history: the request each client wrote last
    shown,            \* history: the answer each client showed last, with its request
    asked             \* history: number of signals that asked for the counter

serverVars == <<server, conn, backlog, counter>>
clientVars == <<client, message_to_send, alt, request, shown>>
netVars    == <<toServer, toClient, open>>
vars == <<serverVars, clientVars, netVars, asked>>

Init ==
    /\ server = "start" /\ conn = "none" /\ backlog = <<>> /\ counter = 0
    /\ client = [c \in Client |-> "start"]
    /\ message_to_send = [c \in Client |-> "none"]
    /\ alt = [c \in Client |-> TRUE]
    /\ toServer = [c \in Client |-> <<>>] /\ toClient = [c \in Client |-> <<>>]
    /\ open = [c \in Client |-> {}]
    /\ request = [c \in Client |-> "none"]
    /\ shown = [c \in Client |-> {}]
    /\ asked = 0
-----------------------------------------------------------------------------
(* The client *)

\* connect: refused, and the program ends, unless the server listens.
Connect(c) ==
    /\ client[c] = "start"
    /\ IF server \in {"accept", "read"}
       THEN /\ Len(backlog) < MAX_CONNECTIONS
            /\ backlog' = Append(backlog, c)
            /\ open' = [open EXCEPT ![c] = {"client", "server"}]
            /\ client' = [client EXCEPT ![c] = "loop"]
       ELSE /\ client' = [client EXCEPT ![c] = "done"]
            /\ UNCHANGED <<backlog, open>>
    /\ UNCHANGED <<server, conn, counter, message_to_send, alt, request, shown, toServer, toClient, asked>>

\* The handlers, which are installed before connect, run between any two steps.
Running(c) == client[c] # "done"

int_handler(c) ==
    /\ Running(c)
    /\ message_to_send' = [message_to_send EXCEPT ![c] = "QUITING"]
    /\ UNCHANGED <<serverVars, client, alt, request, shown, netVars, asked>>

user_handler(c, sig) ==
    /\ Running(c)
    /\ \/ /\ sig = "SIGUSR1"
          /\ message_to_send' = [message_to_send EXCEPT ![c] = "GREETING"]
          /\ UNCHANGED asked
       \/ /\ sig = "SIGUSR2"
          /\ asked < MaxCounting
          /\ message_to_send' = [message_to_send EXCEPT ![c] = "COUNTING"]
          /\ asked' = asked + 1
    /\ UNCHANGED <<serverVars, client, alt, request, shown, netVars>>

\* The first switch: which request message_to_send stands for.
RequestOf(c) ==
    CASE message_to_send[c] = "GREETING" -> IF alt[c] THEN "Bonjour" ELSE "Aurevoir"
      [] message_to_send[c] = "COUNTING" -> "Compteur"
      [] message_to_send[c] = "QUITING"  -> "Quitter"

\* The request is written. If the server has closed its end it is lost, or
\* the client is killed by SIGPIPE.
Send(c) ==
    /\ client[c] = "loop" /\ message_to_send[c] # "none"
    /\ request' = [request EXCEPT ![c] = RequestOf(c)]
    /\ alt' = [alt EXCEPT ![c] = IF message_to_send[c] = "GREETING" THEN ~@ ELSE @]
    /\ \/ /\ client' = [client EXCEPT ![c] = "sent"]
          /\ toServer' = [toServer EXCEPT ![c] = IF "server" \in open[c] THEN Append(@, RequestOf(c)) ELSE @]
          /\ UNCHANGED open
       \/ /\ "server" \notin open[c]
          /\ client' = [client EXCEPT ![c] = "done"]
          /\ open' = [open EXCEPT ![c] = @ \ {"client"}]
          /\ UNCHANGED toServer
    /\ UNCHANGED <<serverVars, message_to_send, shown, toClient, asked>>

\* Mutant: only greetings are answered.
Check_CountingUnread(c) ==
    /\ client[c] = "sent"
    /\ \/ /\ message_to_send[c] = "QUITING"
          /\ client' = [client EXCEPT ![c] = "done"]
          /\ open' = [open EXCEPT ![c] = @ \ {"client"}]
          /\ message_to_send' = [message_to_send EXCEPT ![c] = "none"]
       \/ /\ message_to_send[c] = "GREETING"
          /\ client' = [client EXCEPT ![c] = "recv"]
          /\ UNCHANGED <<open, message_to_send>>
       \/ /\ message_to_send[c] = "COUNTING"
          /\ client' = [client EXCEPT ![c] = "loop"]
          /\ message_to_send' = [message_to_send EXCEPT ![c] = "none"]
          /\ UNCHANGED open
    /\ UNCHANGED <<serverVars, alt, request, shown, toServer, toClient, asked>>

\* The second switch reads message_to_send again, which a handler may have
\* changed since the request was written: to quit closes the connection,
\* anything else waits for an answer.
Check(c) ==
    /\ client[c] = "sent"
    /\ \/ /\ message_to_send[c] = "QUITING"
          /\ client' = [client EXCEPT ![c] = "done"]
          /\ open' = [open EXCEPT ![c] = @ \ {"client"}]
          /\ message_to_send' = [message_to_send EXCEPT ![c] = "none"]
       \/ /\ message_to_send[c] \in {"GREETING", "COUNTING"}
          /\ client' = [client EXCEPT ![c] = "recv"]
          /\ UNCHANGED <<open, message_to_send>>
    /\ UNCHANGED <<serverVars, alt, request, shown, toServer, toClient, asked>>

\* Mutant: message_to_send is not reset.
Receive_KeepsMessage(c) ==
    /\ client[c] = "recv"
    /\ \/ /\ toClient[c] # <<>>
          /\ shown' = [shown EXCEPT ![c] = {[request |-> request[c], answer |-> Head(toClient[c])]}]
          /\ toClient' = [toClient EXCEPT ![c] = Tail(@)]
       \/ /\ toClient[c] = <<>> /\ "server" \notin open[c]
          /\ shown' = [shown EXCEPT ![c] = {}]
          /\ UNCHANGED toClient
    /\ client' = [client EXCEPT ![c] = "loop"]
    /\ UNCHANGED <<serverVars, message_to_send, alt, request, toServer, open, asked>>

\* recv returns an answer, or nothing if the server has closed the connection;
\* the reset of message_to_send forgets a signal that came in the meantime.
Receive(c) ==
    /\ client[c] = "recv"
    /\ \/ /\ toClient[c] # <<>>
          /\ shown' = [shown EXCEPT ![c] = {[request |-> request[c], answer |-> Head(toClient[c])]}]
          /\ toClient' = [toClient EXCEPT ![c] = Tail(@)]
       \/ /\ toClient[c] = <<>> /\ "server" \notin open[c]
          /\ shown' = [shown EXCEPT ![c] = {}]
          /\ UNCHANGED toClient
    /\ client' = [client EXCEPT ![c] = "loop"]
    /\ message_to_send' = [message_to_send EXCEPT ![c] = "none"]
    /\ UNCHANGED <<serverVars, alt, request, toServer, open, asked>>
-----------------------------------------------------------------------------
(* The server *)

\* What the server writes for request m to the client it serves, with the
\* counter at n: the address of the client, or the value of the counter.
Answer(m, n) == [kind |-> m, to |-> conn, n |-> IF m = "Compteur" THEN n ELSE 0]

\* socket, bind, listen
Listen ==
    /\ server = "start"
    /\ server' = "accept"
    /\ UNCHANGED <<conn, backlog, counter, clientVars, netVars, asked>>

Accept ==
    /\ server = "accept" /\ backlog # <<>>
    /\ server' = "read"
    /\ conn' = Head(backlog)
    /\ backlog' = Tail(backlog)
    /\ UNCHANGED <<counter, clientVars, netVars, asked>>

\* Mutant: the loop over connections goes on.
ServeQuit_NextClient ==
    /\ server = "read" /\ toServer[conn] # <<>> /\ Head(toServer[conn]) = "Quitter"
    /\ server' = "accept" /\ conn' = "none"
    /\ open' = [open EXCEPT ![conn] = @ \ {"server"}]
    /\ toServer' = [toServer EXCEPT ![conn] = Tail(@)]
    /\ UNCHANGED <<counter, backlog, clientVars, toClient, asked>>

\* Mutant: the connections still in the queue stay open.
ServeQuit_KeepsPending ==
    /\ server = "read" /\ toServer[conn] # <<>> /\ Head(toServer[conn]) = "Quitter"
    /\ server' = "done" /\ conn' = "none" /\ backlog' = <<>>
    /\ open' = [open EXCEPT ![conn] = @ \ {"server"}]
    /\ toServer' = [toServer EXCEPT ![conn] = Tail(@)]
    /\ UNCHANGED <<counter, clientVars, toClient, asked>>

\* Quitter ends both loops: the connection, the listening socket and with it
\* the connections still in the queue are closed.
ServeQuit ==
    /\ server = "read" /\ toServer[conn] # <<>> /\ Head(toServer[conn]) = "Quitter"
    /\ server' = "done" /\ conn' = "none" /\ backlog' = <<>>
    /\ open' = [c \in Client |-> open[c] \ {"server"}]
    /\ toServer' = [toServer EXCEPT ![conn] = Tail(@)]
    /\ UNCHANGED <<counter, clientVars, toClient, asked>>

\* Mutant: a farewell gets no answer.
Serve_SilentFarewell ==
    /\ server = "read" /\ toServer[conn] # <<>> /\ Head(toServer[conn]) # "Quitter"
    /\ LET m == Head(toServer[conn])
       IN  /\ counter' = IF m = "Compteur" THEN counter + 1 ELSE counter
           /\ toClient' = [toClient EXCEPT ![conn] =
                             IF "client" \in open[conn] /\ m # "Aurevoir"
                             THEN Append(@, Answer(m, counter'))
                             ELSE @]
    /\ toServer' = [toServer EXCEPT ![conn] = Tail(@)]
    /\ UNCHANGED <<server, conn, backlog, clientVars, open, asked>>

\* Any other request is answered, with the address of the client or with the
\* counter; the answer to a client that has closed its end is lost.
Serve ==
    /\ server = "read" /\ toServer[conn] # <<>> /\ Head(toServer[conn]) # "Quitter"
    /\ LET m == Head(toServer[conn])
       IN  /\ counter' = IF m = "Compteur" THEN counter + 1 ELSE counter
           /\ toClient' = [toClient EXCEPT ![conn] =
                             IF "client" \in open[conn] THEN Append(@, Answer(m, counter'))
                                                        ELSE @]
    /\ toServer' = [toServer EXCEPT ![conn] = Tail(@)]
    /\ UNCHANGED <<server, conn, backlog, clientVars, open, asked>>

\* read returns 0 once the client has closed its end: the next one is served.
Hangup ==
    /\ server = "read" /\ toServer[conn] = <<>> /\ "client" \notin open[conn]
    /\ server' = "accept" /\ conn' = "none"
    /\ open' = [open EXCEPT ![conn] = @ \ {"server"}]
    /\ UNCHANGED <<backlog, counter, clientVars, toServer, toClient, asked>>

ServerStep == Listen \/ Accept \/ ServeQuit \/ Serve \/ Hangup
ClientStep(c) == Connect(c) \/ Send(c) \/ Check(c) \/ Receive(c)
Signal(c) == int_handler(c) \/ \E sig \in {"SIGUSR1", "SIGUSR2"} : user_handler(c, sig)

Next == ServerStep \/ \E c \in Client : ClientStep(c) \/ Signal(c)

\* Both are processes the scheduler keeps running; signals come when they come.
Fairness == WF_vars(ServerStep) /\ \A c \in Client : WF_vars(ClientStep(c))

Spec == Init /\ [][Next]_vars /\ Fairness
-----------------------------------------------------------------------------
(* Properties *)

\* An answer a client shows is the answer to the request it wrote last, for
\* itself and not for another client, although message_to_send may change
\* between writing a request and deciding whether to wait for the answer
\* (socket_client.c:116-139).
AnswerOfRequest ==
    \A c \in Client : \A s \in shown[c] : s.answer.kind = s.request /\ s.answer.to = c

\* The value of the counter a client shows, if it shows one.
ToldTo(c) == {s.answer.n : s \in {t \in shown[c] : t.answer.kind = "Compteur"}}

\* One signal is counted once at most, whatever signals come between, and no
\* two clients are told the same value (socket_client.c:143, socket_server.c:91).
CountedOnce ==
    /\ counter <= asked
    /\ \A c, d \in Client : /\ ToldTo(c) \subseteq 1..counter
                            /\ c # d => ToldTo(c) \intersect ToldTo(d) = {}

\* A client that sleeps in recv is never forgotten: its answer is there, the
\* server has closed the connection, or the request is before the server, now
\* or when the turn of the client in the queue comes (socket_client.c:137-139,
\* socket_server.c:62-103).
NobodyForgotten ==
    \A c \in Client : client[c] = "recv" =>
        \/ toClient[c] # <<>>
        \/ "server" \notin open[c]
        \/ /\ toServer[c] = <<request[c]>>
           /\ \/ server = "read" /\ conn = c
              \/ server # "done" /\ \E i \in 1 .. Len(backlog) : backlog[i] = c

\* A client that waits in recv on the connection the server serves, or on one
\* the server has left behind, comes back (socket_client.c:139).
Answered ==
    \A c \in Client :
        (client[c] = "recv" /\ (conn = c \/ server = "done")) ~> (client[c] # "recv")

\* A Quitter written by the client being served stops the server
\* (socket_server.c:78-81).
QuitHeard ==
    \A c \in Client : (conn = c /\ "Quitter" \in {toServer[c][i] : i \in DOMAIN toServer[c]}) ~> (server = "done")
-----------------------------------------------------------------------------
(* The inductive invariant behind the theorems of module SocketsProofs       *)

Answers == [kind : Requests, to : Client, n : Nat]

SocketTypes ==
    /\ server \in {"start", "accept", "read", "done"}
    /\ conn \in Client \cup {"none"}
    /\ backlog \in Seq(Client)
    /\ counter \in Nat /\ asked \in Nat
    /\ client \in [Client -> {"start", "loop", "sent", "recv", "done"}]
    /\ message_to_send \in [Client -> {"none", "GREETING", "COUNTING", "QUITING"}]
    /\ alt \in [Client -> BOOLEAN]
    /\ toServer \in [Client -> Seq(Requests)]
    /\ toClient \in [Client -> Seq(Answers)]
    /\ open \in [Client -> SUBSET {"client", "server"}]
    /\ request \in [Client -> Requests \cup {"none"}]
    /\ shown \in [Client -> SUBSET [request : Requests, answer : Answers]]

\* The connection the server serves and those in the queue are different, and
\* their server end is open.
Connections ==
    /\ server = "read" <=> conn # "none"
    /\ conn # "none" => client[conn] # "start" /\ "server" \in open[conn]
    /\ \A i \in 1 .. Len(backlog) :
          /\ client[backlog[i]] # "start" /\ "server" \in open[backlog[i]]
          /\ backlog[i] # conn
          /\ \A j \in 1 .. Len(backlog) : backlog[i] = backlog[j] => i = j

\* Every connection whose server end is open is being served or in the queue.
Attended ==
    /\ \A c \in Client : "server" \in open[c] =>
            conn = c \/ \E i \in 1 .. Len(backlog) : backlog[i] = c
    /\ server = "done" => backlog = <<>>

\* A client in its loop has nothing under way; one that waits has its request
\* or the answer to it under way, not both. What nobody reads any more, since
\* the server has closed its end, does not count.
UnderWay(c) ==
    LET served == "server" \in open[c] IN
    /\ client[c] = "start" => toServer[c] = <<>> /\ toClient[c] = <<>> /\ open[c] = {}
    /\ client[c] \in {"loop", "sent", "recv"} => "client" \in open[c]
    /\ client[c] = "loop" => toClient[c] = <<>> /\ (served => toServer[c] = <<>>)
    /\ client[c] \in {"sent", "recv"} =>
          \/ toClient[c] = <<>> /\ (served => toServer[c] = <<request[c]>>)
          \/ /\ Len(toClient[c]) = 1 /\ (served => toServer[c] = <<>>)
             /\ toClient[c][1].kind = request[c] /\ toClient[c][1].to = c
    /\ client[c] = "done" => "client" \notin open[c] /\ (served => Len(toServer[c]) <= 1)

\* The clients whose last signal is still to be counted.
ToCount ==
    {c \in Client :
        \/ client[c] \in {"start", "loop"} /\ message_to_send[c] = "COUNTING"
        \/ "server" \in open[c] /\ toServer[c] = <<"Compteur">>}

\* The values of the counter client c shows or has been sent.
Held(c) ==
    ToldTo(c) \cup {toClient[c][i].n : i \in {j \in 1 .. Len(toClient[c]) : toClient[c][j].kind = "Compteur"}}

Counting ==
    /\ IsFiniteSet(ToCount) /\ counter + Cardinality(ToCount) <= asked
    /\ \A c \in Client : Held(c) \subseteq 1 .. counter
    /\ \A c, d \in Client : c # d => Held(c) \intersect Held(d) = {}

SocketsInv ==
    /\ SocketTypes
    /\ Connections
    /\ \A c \in Client : UnderWay(c)
    /\ AnswerOfRequest
    /\ Counting
=============================================================================
