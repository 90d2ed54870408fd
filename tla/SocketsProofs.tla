--------------------------- MODULE SocketsProofs ---------------------------
(***************************************************************************)
(* Proofs that the socket client and server of lab 4 pair answers with     *)
(* requests and count every signal at most once, for any set of clients.   *)
(***************************************************************************)
EXTENDS Sockets, FiniteSetTheorems, SequenceTheorems, TLAPS

\* The request a message stands for; only COUNTING asks for the counter.
LEMMA RequestType ==
    ASSUME NEW c \in Client, SocketTypes, message_to_send[c] # "none"
    PROVE  /\ RequestOf(c) \in Requests
           /\ RequestOf(c) = "Compteur" => message_to_send[c] = "COUNTING"
<1>1. message_to_send[c] \in {"GREETING", "COUNTING", "QUITING"}
    BY DEF SocketTypes
<1>2. CASE message_to_send[c] = "GREETING"
    BY <1>2 DEF RequestOf, Requests
<1>3. CASE message_to_send[c] = "COUNTING"
    BY <1>3 DEF RequestOf, Requests
<1>4. CASE message_to_send[c] = "QUITING"
    BY <1>4 DEF RequestOf, Requests
<1>5. QED
    BY <1>1, <1>2, <1>3, <1>4

\* While the server reads, it reads from a client.
LEMMA Reading ==
    ASSUME SocketTypes, Connections, server = "read"
    PROVE  conn \in Client
BY SocketsAssumption DEF SocketTypes, Connections

\* The answer to a request.
LEMMA AnswerType ==
    ASSUME NEW m \in Requests, NEW n \in Nat, conn \in Client
    PROVE  /\ Answer(m, n) \in Answers
           /\ Answer(m, n).kind = m /\ Answer(m, n).to = conn
           /\ m = "Compteur" => Answer(m, n).n = n
BY DEF Answer, Answers

\* What remains open of a connection when ends of it are opened or closed.
LEMMA OpenType ==
    ASSUME NEW c \in Client, SocketTypes, NEW E \in SUBSET {"client", "server"}
    PROVE  [open EXCEPT ![c] = E] \in [Client -> SUBSET {"client", "server"}]
<1>1. open \in [Client -> SUBSET {"client", "server"}]
    BY DEF SocketTypes
<1>2. QED
    BY <1>1

\* What remains open of a connection when the client closes its end.
LEMMA CloseType ==
    ASSUME NEW c \in Client, SocketTypes
    PROVE  /\ [open EXCEPT ![c] = @ \ {"client"}] \in [Client -> SUBSET {"client", "server"}]
           /\ \A d \in Client : "server" \in open[d] <=>
                               "server" \in [open EXCEPT ![c] = @ \ {"client"}][d]
<1>1. open \in [Client -> SUBSET {"client", "server"}]
    BY DEF SocketTypes
<1>2. open[c] \ {"client"} \in SUBSET {"client", "server"}
    BY <1>1
<1>3. [open EXCEPT ![c] = @ \ {"client"}] = [open EXCEPT ![c] = open[c] \ {"client"}]
    BY <1>1
<1>4. QED
    BY <1>1, <1>2, <1>3

\* Every step keeps the types.
LEMMA TypesStep ==
    ASSUME SocketTypes, Connections, \A c \in Client : UnderWay(c), [Next]_vars
    PROVE  SocketTypes'
<1> USE DEF SocketTypes, serverVars, clientVars, netVars
<1>1. CASE UNCHANGED vars
    BY <1>1 DEF vars
<1>2. ASSUME NEW c \in Client, Connect(c) PROVE SocketTypes'
  <2>1. client' \in [Client -> {"start", "loop", "sent", "recv", "done"}]
    <3>1. \/ client' = [client EXCEPT ![c] = "loop"]
          \/ client' = [client EXCEPT ![c] = "done"]
        BY <1>2 DEF Connect
    <3>2. client \in [Client -> {"start", "loop", "sent", "recv", "done"}]
        OBVIOUS
    <3>3. QED
        BY ONLY <3>1, <3>2
  <2>2. backlog' \in Seq(Client)
    <3>1. Append(backlog, c) \in Seq(Client) /\ backlog \in Seq(Client)
        OBVIOUS
    <3>2. backlog' = backlog \/ backlog' = Append(backlog, c)
        BY <1>2 DEF Connect
    <3>3. QED
        BY <3>1, <3>2
  <2>3. open' \in [Client -> SUBSET {"client", "server"}]
    <3>1. {"client", "server"} \in SUBSET {"client", "server"}
        OBVIOUS
    <3>2. open' = open \/ open' = [open EXCEPT ![c] = {"client", "server"}]
        BY <1>2 DEF Connect
    <3>3. QED
        BY <3>1, <3>2, OpenType
  <2>4. QED
    BY <1>2, <2>1, <2>2, <2>3 DEF Connect
<1>3. ASSUME NEW c \in Client, Signal(c) PROVE SocketTypes'
  <2>1. message_to_send' \in [Client -> {"none", "GREETING", "COUNTING", "QUITING"}]
    BY <1>3 DEF Signal, int_handler, user_handler
  <2>2. asked' \in Nat
    BY <1>3 DEF Signal, int_handler, user_handler
  <2>3. QED
    BY <1>3, <2>1, <2>2 DEF Signal, int_handler, user_handler
<1>4. ASSUME NEW c \in Client, Send(c) PROVE SocketTypes'
  <2>1. RequestOf(c) \in Requests
    BY <1>4, RequestType DEF Send
  <2>2. toServer' \in [Client -> Seq(Requests)]
    <3>1. toServer[c] \in Seq(Requests) /\ Append(toServer[c], RequestOf(c)) \in Seq(Requests)
        BY <2>1
    <3>2. QED
        BY <1>4, <3>1 DEF Send
  <2>3. request' \in [Client -> Requests \cup {"none"}]
    BY <1>4, <2>1 DEF Send
  <2>4. alt' \in [Client -> BOOLEAN]
    BY <1>4 DEF Send
  <2>5. client' \in [Client -> {"start", "loop", "sent", "recv", "done"}]
    BY <1>4 DEF Send
  <2>6. open' \in [Client -> SUBSET {"client", "server"}]
    <3>1. open' = open \/ open' = [open EXCEPT ![c] = @ \ {"client"}]
        BY <1>4 DEF Send
    <3>2. [open EXCEPT ![c] = @ \ {"client"}] \in [Client -> SUBSET {"client", "server"}]
        BY ONLY c \in Client, SocketTypes, CloseType
    <3>3. open \in [Client -> SUBSET {"client", "server"}]
        BY OpenType
    <3>4. QED
        BY ONLY <3>1, <3>2, <3>3
  <2>7. QED
    BY <1>4, <2>2, <2>3, <2>4, <2>5, <2>6 DEF Send
<1>5. ASSUME NEW c \in Client, Check(c) PROVE SocketTypes'
  <2>1. client' \in [Client -> {"start", "loop", "sent", "recv", "done"}]
    BY <1>5 DEF Check
  <2>2. open' \in [Client -> SUBSET {"client", "server"}]
    <3>1. open' = open \/ open' = [open EXCEPT ![c] = @ \ {"client"}]
        BY <1>5 DEF Check
    <3>2. [open EXCEPT ![c] = @ \ {"client"}] \in [Client -> SUBSET {"client", "server"}]
        BY ONLY c \in Client, SocketTypes, CloseType
    <3>3. open \in [Client -> SUBSET {"client", "server"}]
        BY OpenType
    <3>4. QED
        BY ONLY <3>1, <3>2, <3>3
  <2>3. message_to_send' \in [Client -> {"none", "GREETING", "COUNTING", "QUITING"}]
    BY <1>5 DEF Check
  <2>4. QED
    BY <1>5, <2>1, <2>2, <2>3 DEF Check
<1>6. ASSUME NEW c \in Client, Receive(c) PROVE SocketTypes'
  <2>1. toClient' \in [Client -> Seq(Answers)]
    <3>1. toClient[c] # <<>> => Tail(toClient[c]) \in Seq(Answers)
        OBVIOUS
    <3>2. QED
        BY <1>6, <3>1 DEF Receive
  <2>2. shown' \in [Client -> SUBSET [request : Requests, answer : Answers]]
    <3>1. CASE toClient[c] = <<>>
        BY <1>6, <3>1 DEF Receive
    <3>2. CASE toClient[c] # <<>>
      <4>1. toClient[c] \in Seq(Answers) /\ Head(toClient[c]) \in Answers
        BY <3>2
      <4>2. request[c] = toClient[c][1].kind
        BY <1>6, <3>2 DEF Receive, UnderWay
      <4>3. request[c] \in Requests
        BY <3>2, <4>1, <4>2 DEF Answers
      <4>4. shown' = [shown EXCEPT ![c] = {[request |-> request[c], answer |-> Head(toClient[c])]}]
        BY <1>6, <3>2 DEF Receive
      <4>5. QED
        BY <4>1, <4>3, <4>4
    <3>3. QED
        BY <3>1, <3>2
  <2>3. QED
    BY <1>6, <2>1, <2>2 DEF Receive
<1>7. CASE Listen
    BY <1>7 DEF Listen
<1>8. CASE Accept
    BY <1>8 DEF Accept
<1>9. CASE ServeQuit
  <2>1. conn \in Client
    BY <1>9, Reading DEF ServeQuit
  <2>2. QED
    BY <1>9, <2>1 DEF ServeQuit
<1>10. CASE Serve
  <2>1. conn \in Client
    BY <1>10, Reading DEF Serve
  <2>2. Head(toServer[conn]) \in Requests /\ toServer' \in [Client -> Seq(Requests)]
    BY <1>10, <2>1 DEF Serve
  <2>3. counter' \in Nat
    BY <1>10 DEF Serve
  <2>4. Answer(Head(toServer[conn]), counter') \in Answers
    BY <2>1, <2>2, <2>3, AnswerType
  <2>5. toClient' \in [Client -> Seq(Answers)]
    BY <1>10, <2>1, <2>4 DEF Serve
  <2>6. QED
    BY <1>10, <2>2, <2>3, <2>5 DEF Serve
<1>11. CASE Hangup
    BY <1>11 DEF Hangup
<1>12. QED
    BY <1>1, <1>2, <1>3, <1>4, <1>5, <1>6, <1>7, <1>8, <1>9, <1>10, <1>11
       DEF Next, ServerStep, ClientStep

\* A step of a client that has connected disturbs no connection.
LEMMA ConnectionsFrame ==
    ASSUME SocketTypes, Connections, UNCHANGED <<server, conn, backlog>>,
           \A d \in Client : "server" \in open[d] => "server" \in open'[d],
           \A d \in Client : client[d] # "start" => client'[d] # "start"
    PROVE  Connections'
<1>1. server' = "read" <=> conn' # "none"
    BY DEF Connections
<1>2. conn # "none" => conn \in Client
    BY DEF SocketTypes
<1>3. conn' # "none" => client'[conn'] # "start" /\ "server" \in open'[conn']
    BY <1>2 DEF Connections
<1>4. \A i \in 1 .. Len(backlog) : backlog[i] \in Client
    BY DEF SocketTypes
<1>5. \A i \in 1 .. Len(backlog) :
          /\ client'[backlog[i]] # "start" /\ "server" \in open'[backlog[i]]
          /\ backlog[i] # conn
          /\ \A j \in 1 .. Len(backlog) : backlog[i] = backlog[j] => i = j
    BY <1>4 DEF Connections
<1>6. QED
    BY <1>1, <1>3, <1>5 DEF Connections

\* Every step keeps the connections apart.
LEMMA ConnectionsStep ==
    ASSUME SocketTypes, Connections, \A c \in Client : UnderWay(c), [Next]_vars
    PROVE  Connections'
<1> USE DEF SocketTypes, Connections, serverVars, clientVars, netVars
<1>1. CASE UNCHANGED vars
    BY <1>1 DEF vars
<1>2. ASSUME NEW c \in Client, Connect(c) PROVE Connections'
  <2>1. CASE server \in {"accept", "read"}
    <3>1. /\ backlog' = Append(backlog, c) /\ client'[c] = "loop" /\ "server" \in open'[c]
          /\ \A d \in Client \ {c} : client'[d] = client[d] /\ open'[d] = open[d]
          /\ UNCHANGED <<server, conn>>
        BY <1>2, <2>1 DEF Connect
    <3>2. conn # c /\ \A i \in 1 .. Len(backlog) : backlog[i] # c
        BY <1>2, SocketsAssumption DEF Connect
    <3>3. /\ Len(backlog') = Len(backlog) + 1 /\ backlog'[Len(backlog) + 1] = c
          /\ \A i \in 1 .. Len(backlog) : backlog'[i] = backlog[i] /\ backlog[i] \in Client
        BY <3>1
    <3>4. QED
        BY <3>1, <3>2, <3>3, SMTT(20)
  <2>2. CASE server \notin {"accept", "read"}
    BY <1>2, <2>2 DEF Connect
  <2>3. QED
    BY <2>1, <2>2
<1>3. ASSUME NEW c \in Client, Signal(c) PROVE Connections'
    BY <1>3 DEF Signal, int_handler, user_handler
<1>4. ASSUME NEW c \in Client, Send(c) PROVE Connections'
  <2>1. /\ \A d \in Client : "server" \in open[d] => "server" \in open'[d]
        /\ \A d \in Client : client[d] # "start" => client'[d] # "start"
        /\ UNCHANGED <<server, conn, backlog>>
    BY <1>4 DEF Send
  <2>2. QED
    BY <2>1, ConnectionsFrame
<1>5. ASSUME NEW c \in Client, Check(c) PROVE Connections'
  <2>1. \A d \in Client : "server" \in open[d] => "server" \in open'[d]
    <3>1. open' = open \/ open' = [open EXCEPT ![c] = @ \ {"client"}]
        BY <1>5 DEF Check
    <3>2. \A d \in Client : "server" \in open[d] <=>
                              "server" \in [open EXCEPT ![c] = @ \ {"client"}][d]
        BY ONLY c \in Client, SocketTypes, CloseType
    <3>3. QED
        BY ONLY <3>1, <3>2
  <2>2. \A d \in Client : client[d] # "start" => client'[d] # "start"
    BY <1>5 DEF Check
  <2>3. UNCHANGED <<server, conn, backlog>>
    BY <1>5 DEF Check
  <2>4. QED
    BY <2>1, <2>2, <2>3, ConnectionsFrame
<1>6. ASSUME NEW c \in Client, Receive(c) PROVE Connections'
  <2>1. /\ open' = open /\ UNCHANGED <<server, conn, backlog>>
        /\ \A d \in Client : client[d] # "start" => client'[d] # "start"
    BY <1>6 DEF Receive
  <2>2. QED
    BY <2>1, ConnectionsFrame
<1>7. CASE Listen
    BY <1>7 DEF Listen
<1>8. CASE Accept
  <2>1. /\ Len(backlog') = Len(backlog) - 1 /\ conn' = backlog[1] /\ conn' \in Client
        /\ \A i \in 1 .. Len(backlog') : i + 1 \in 2 .. Len(backlog) /\ backlog'[i] = backlog[i + 1]
    BY <1>8 DEF Accept
  <2>2. server' = "read" /\ UNCHANGED <<client, open>> /\ conn' # "none"
    BY <1>8, <2>1, SocketsAssumption DEF Accept
  <2>3. 1 \in 1 .. Len(backlog)
    BY <1>8 DEF Accept
  <2>4. client[conn'] # "start" /\ "server" \in open[conn']
    BY <2>1, <2>3
  <2>5. ASSUME NEW i \in 1 .. Len(backlog')
        PROVE  /\ client[backlog'[i]] # "start" /\ "server" \in open[backlog'[i]]
               /\ backlog'[i] # conn'
               /\ \A j \in 1 .. Len(backlog') : backlog'[i] = backlog'[j] => i = j
    <3>1. i + 1 \in 1 .. Len(backlog) /\ i + 1 # 1 /\ backlog'[i] = backlog[i + 1]
        BY <2>1
    <3>2. backlog[i + 1] # backlog[1]
        BY <2>3, <3>1
    <3>3. /\ client[backlog'[i]] # "start" /\ "server" \in open[backlog'[i]]
          /\ backlog'[i] # conn'
        BY <2>1, <3>1, <3>2
    <3>4. ASSUME NEW j \in 1 .. Len(backlog'), backlog'[i] = backlog'[j] PROVE i = j
      <4>0. j + 1 \in 1 .. Len(backlog) /\ backlog'[j] = backlog[j + 1]
        BY <2>1
      <4>1. backlog[i + 1] = backlog[j + 1]
        BY <3>1, <3>4, <4>0
      <4>2. i + 1 = j + 1
        BY <3>1, <4>0, <4>1
      <4>3. i \in Int /\ j \in Int
        OBVIOUS
      <4>4. QED
        BY <4>2, <4>3
    <3>5. QED
        BY <3>3, <3>4
  <2>6. QED
    BY <2>2, <2>4, <2>5
<1>9. CASE ServeQuit
    BY <1>9 DEF ServeQuit
<1>10. CASE Serve
    BY <1>10 DEF Serve
<1>11. CASE Hangup
  <2>1. /\ \A d \in Client \ {conn} : open'[d] = open[d]
        /\ server' = "accept" /\ conn' = "none" /\ UNCHANGED <<backlog, client>>
    BY <1>11 DEF Hangup
  <2>2. \A i \in 1 .. Len(backlog) : backlog[i] \in Client \ {conn, "none"}
    BY SocketsAssumption
  <2>3. QED
    BY <2>1, <2>2
<1>12. QED
    BY <1>1, <1>2, <1>3, <1>4, <1>5, <1>6, <1>7, <1>8, <1>9, <1>10, <1>11
       DEF Next, ServerStep, ClientStep

\* What a step that leaves the connection and the request of d alone preserves.
LEMMA UnderWayFrame ==
    ASSUME NEW d, UnderWay(d), client'[d] = client[d], toServer'[d] = toServer[d],
           toClient'[d] = toClient[d], request'[d] = request[d], open'[d] = open[d]
    PROVE  UnderWay(d)'
BY DEF UnderWay

\* The same for a client whose connection the server closes.
LEMMA UnderWayClosed ==
    ASSUME NEW d, UnderWay(d), client'[d] = client[d], toClient'[d] = toClient[d],
           request'[d] = request[d], open'[d] = open[d] \ {"server"}
    PROVE  client[d] # "start" => UnderWay(d)'
BY DEF UnderWay

\* A connection the server has open holds one request at most, and none while
\* the client is in its loop.
LEMMA OneRequest ==
    ASSUME NEW c \in Client, SocketTypes, UnderWay(c), "server" \in open[c]
    PROVE  /\ Len(toServer[c]) <= 1
           /\ toServer[c] # <<>> => client[c] \in {"sent", "recv", "done"}
                                   /\ toServer[c] = <<Head(toServer[c])>>
                                   /\ Tail(toServer[c]) = <<>>
<1>1. \/ toServer[c] = <<>>
      \/ toServer[c] = <<request[c]>> /\ client[c] \in {"sent", "recv"}
      \/ Len(toServer[c]) <= 1 /\ client[c] = "done"
    BY DEF SocketTypes, UnderWay
<1>2. toServer[c] \in Seq(Requests)
    BY DEF SocketTypes
<1>3. CASE toServer[c] = <<>>
    BY <1>3
<1>4. CASE toServer[c] = <<request[c]>> /\ client[c] \in {"sent", "recv"}
    BY <1>4
<1>5. CASE Len(toServer[c]) <= 1 /\ client[c] = "done" /\ toServer[c] # <<>>
  <2>1. Len(toServer[c]) = 1
    <3>1. Len(toServer[c]) \in Nat \ {0}
        BY <1>2, <1>5, EmptySeq, Zenon
    <3>2. Len(toServer[c]) <= 1
        BY <1>5
    <3>3. \A n \in Nat \ {0} : n <= 1 => n = 1
        OBVIOUS
    <3>4. QED
        BY <3>1, <3>2, <3>3, Zenon
  <2>2. Head(toServer[c]) \in Requests /\ Tail(toServer[c]) \in Seq(Requests)
        /\ Len(Tail(toServer[c])) = 0 /\ Head(toServer[c]) = toServer[c][1]
    BY <1>2, <1>5, <2>1
  <2>3. Tail(toServer[c]) = <<>>
    BY <2>2, EmptySeq
  <2>4. toServer[c] = <<Head(toServer[c])>>
    <3> DEFINE s == <<Head(toServer[c])>>
    <3>1. s \in Seq(Requests) /\ Len(s) = 1 /\ s[1] = toServer[c][1]
        BY <2>2
    <3> HIDE DEF s
    <3>2. \A i \in 1 .. Len(s) : s[i] = toServer[c][i]
        BY <3>1
    <3>3. s = toServer[c]
        BY <1>2, <2>1, <3>1, <3>2, SeqEqual
    <3>4. QED
        BY <3>3 DEF s
  <2>5. QED
    BY <1>5, <2>1, <2>3, <2>4
<1>6. QED
    BY <1>1, <1>3, <1>4, <1>5

\* Every step of client c keeps the pairing of requests with answers.
LEMMA UnderWayClientStep ==
    ASSUME SocketTypes, Connections, \A d \in Client : UnderWay(d),
           NEW c \in Client, ClientStep(c) \/ Signal(c), NEW d \in Client
    PROVE  UnderWay(d)'
<1>0. /\ DOMAIN client = Client /\ DOMAIN toServer = Client /\ DOMAIN toClient = Client
      /\ DOMAIN open = Client /\ DOMAIN request = Client
      /\ toServer[c] \in Seq(Requests) /\ toClient[c] \in Seq(Answers)
    BY DEF SocketTypes
<1>1. UnderWay(c) /\ UnderWay(d)
    OBVIOUS
<1>2. CASE Signal(c)
    BY <1>1, <1>2, UnderWayFrame DEF Signal, int_handler, user_handler, netVars
<1>3. CASE d # c
  <2>1. /\ client'[d] = client[d] /\ toServer'[d] = toServer[d] /\ toClient'[d] = toClient[d]
        /\ request'[d] = request[d] /\ open'[d] = open[d]
    <3>1. CASE Connect(c)
        BY <1>0, <1>3, <3>1 DEF Connect
    <3>2. CASE Send(c)
        BY <1>0, <1>3, <3>2 DEF Send
    <3>3. CASE Check(c)
        BY <1>0, <1>3, <3>3 DEF Check
    <3>4. CASE Receive(c)
        BY <1>0, <1>3, <3>4 DEF Receive
    <3>5. CASE Signal(c)
        BY <3>5 DEF Signal, int_handler, user_handler, netVars
    <3>6. QED
        BY <3>1, <3>2, <3>3, <3>4, <3>5 DEF ClientStep
  <2>2. QED
    BY <1>1, <2>1, UnderWayFrame
<1>4. CASE Connect(c) /\ d = c
  <2>1. client[c] = "start" /\ toServer[c] = <<>> /\ toClient[c] = <<>> /\ "server" \notin open[c]
    BY <1>1, <1>4 DEF Connect, UnderWay
  <2>2. \/ client'[c] = "loop" /\ open'[c] = {"client", "server"}
        \/ client'[c] = "done" /\ open'[c] = open[c]
    BY <1>0, <1>4 DEF Connect
  <2>3. toServer' = toServer /\ toClient' = toClient
    BY <1>4 DEF Connect
  <2>4. client[c] = "start" => open[c] = {}
    BY <1>1 DEF UnderWay
  <2>5. QED
    BY <1>4, <2>1, <2>2, <2>3, <2>4 DEF UnderWay
<1>5. CASE Send(c) /\ d = c
  <2>1. /\ toClient'[c] = <<>> /\ "client" \in open[c]
        /\ "server" \in open[c] => toServer[c] = <<>>
    BY <1>1, <1>5 DEF Send, UnderWay
  <2>2. request'[c] = RequestOf(c)
    BY <1>0, <1>5 DEF Send
  <2>3. CASE client'[c] = "sent"
    <3>1. open'[c] = open[c]
        BY <1>0, <1>5, <2>3 DEF Send
    <3>2. "server" \in open[c] => toServer'[c] = <<request'[c]>>
        BY <1>0, <1>5, <2>1, <2>2, <2>3 DEF Send
    <3>3. QED
        BY <1>5, <2>1, <2>3, <3>1, <3>2 DEF UnderWay
  <2>4. CASE client'[c] = "done"
    <3>1. "client" \notin open'[c] /\ "server" \notin open'[c]
        BY <1>0, <1>5, <2>4 DEF Send
    <3>2. QED
        BY <1>5, <2>4, <3>1 DEF UnderWay
  <2>5. QED
    BY <1>0, <1>5, <2>3, <2>4 DEF Send
<1>6. CASE Check(c) /\ d = c
  <2>1. client[c] = "sent" /\ UNCHANGED <<toServer, toClient, request>>
    BY <1>6 DEF Check
  <2>2. CASE client'[c] = "done"
    <3>1. "client" \notin open'[c] /\ ("server" \in open'[c] => "server" \in open[c])
        BY <1>0, <1>6, <2>2 DEF Check
    <3>2. "server" \in open[c] => Len(toServer[c]) <= 1
        BY <1>1, OneRequest
    <3>3. QED
        BY <1>6, <2>1, <2>2, <3>1, <3>2 DEF UnderWay
  <2>3. CASE client'[c] = "recv"
    <3>1. open'[c] = open[c]
        BY <1>0, <1>6, <2>3 DEF Check
    <3>2. QED
        BY <1>1, <1>6, <2>1, <2>3, <3>1 DEF UnderWay
  <2>4. QED
    BY <1>0, <1>6, <2>2, <2>3 DEF Check
<1>7. CASE Receive(c) /\ d = c
  <2>1. client[c] = "recv" /\ client'[c] = "loop" /\ UNCHANGED <<toServer, open>>
    BY <1>0, <1>7 DEF Receive
  <2>2. CASE toClient[c] # <<>>
    <3>1. Len(toClient[c]) = 1 /\ ("server" \in open[c] => toServer[c] = <<>>)
        BY <1>1, <2>1, <2>2 DEF UnderWay
    <3>2. toClient'[c] = <<>>
        BY <1>0, <1>7, <2>2, <3>1 DEF Receive
    <3>3. QED
        BY <1>1, <1>7, <2>1, <3>1, <3>2 DEF UnderWay
  <2>3. CASE toClient[c] = <<>>
    <3>1. "server" \notin open[c] /\ toClient'[c] = <<>>
        BY <1>0, <1>7, <2>3 DEF Receive
    <3>2. QED
        BY <1>1, <1>7, <2>1, <3>1 DEF UnderWay
  <2>4. QED
    BY <2>2, <2>3
<1>8. QED
    BY <1>2, <1>3, <1>4, <1>5, <1>6, <1>7 DEF ClientStep

\* Every step of the server does.
LEMMA UnderWayServerStep ==
    ASSUME SocketTypes, Connections, \A d \in Client : UnderWay(d),
           ServerStep, NEW d \in Client
    PROVE  UnderWay(d)'
<1>0. /\ DOMAIN client = Client /\ DOMAIN toServer = Client /\ DOMAIN toClient = Client
      /\ DOMAIN open = Client /\ DOMAIN request = Client
      /\ toServer[d] \in Seq(Requests) /\ toClient[d] \in Seq(Answers)
    BY DEF SocketTypes
<1>1. UnderWay(d)
    OBVIOUS
<1>2. CASE Listen \/ Accept
    BY <1>1, <1>2, UnderWayFrame DEF Listen, Accept, clientVars, netVars
<1>3. CASE ServeQuit
  <2>1. /\ client' = client /\ toClient' = toClient /\ request' = request
        /\ open'[d] = open[d] \ {"server"} /\ (d # conn => toServer'[d] = toServer[d])
    BY <1>0, <1>3 DEF ServeQuit, clientVars
  <2>2. CASE client[d] # "start"
    BY <1>1, <2>1, <2>2, UnderWayClosed
  <2>3. CASE client[d] = "start"
    <3>1. d # conn
        BY <1>3, <2>3 DEF ServeQuit, Connections
    <3>2. QED
        BY <1>1, <2>1, <2>3, <3>1 DEF UnderWay
  <2>4. QED
    BY <2>2, <2>3
<1>4. CASE Hangup
  <2>1. /\ client' = client /\ toClient' = toClient /\ request' = request
        /\ toServer' = toServer
        /\ open'[d] = IF d = conn THEN open[d] \ {"server"} ELSE open[d]
    BY <1>0, <1>4 DEF Hangup, clientVars
  <2>2. CASE d # conn
    BY <1>1, <2>1, <2>2, UnderWayFrame
  <2>3. CASE d = conn
    <3>1. client[d] # "start"
        BY <1>4, <2>3 DEF Hangup, Connections
    <3>2. QED
        BY <1>1, <2>1, <2>3, <3>1, UnderWayClosed
  <2>4. QED
    BY <2>2, <2>3
<1>5. CASE Serve
  <2>0. /\ server = "read" /\ toServer[conn] # <<>> /\ conn \in Client
        /\ UNCHANGED <<client, open, request, conn>>
    BY <1>5, Reading DEF Serve, clientVars
  <2>1. CASE d # conn
    <3>1. toServer'[d] = toServer[d] /\ toClient'[d] = toClient[d]
        BY <1>0, <1>5, <2>1 DEF Serve
    <3>2. QED
        BY <1>1, <2>0, <3>1, UnderWayFrame
  <2>2. CASE d = conn
    <3> DEFINE m == Head(toServer[d])
    <3>1. /\ client[d] # "start" /\ "server" \in open[d]
          /\ toServer'[d] = Tail(toServer[d])
        BY <1>0, <1>5, <2>0, <2>2 DEF Serve, Connections
    <3>2. client[d] \in {"sent", "recv", "done"} /\ toServer[d] # <<>>
        BY <1>1, <2>0, <2>2, <3>1 DEF SocketTypes, UnderWay
    <3>3. toServer'[d] = <<>>
        BY <1>0, <1>1, <3>1, <3>2 DEF UnderWay
    <3>4. CASE client[d] = "done"
      <4>1. "client" \notin open[d]
        BY <1>1, <3>4 DEF UnderWay
      <4>2. toClient'[d] = toClient[d]
        BY <1>0, <1>5, <2>2, <4>1 DEF Serve
      <4>3. QED
        BY <1>1, <2>0, <3>3, <3>4, <4>2 DEF UnderWay
    <3>5. CASE client[d] \in {"sent", "recv"}
      <4>1. /\ toClient[d] = <<>> /\ toServer[d] = <<request[d]>> /\ "client" \in open[d]
        BY <1>1, <3>1, <3>2, <3>5 DEF UnderWay
      <4>2. toClient'[d] = <<Answer(m, counter')>> /\ m = request[d]
        BY <1>0, <1>5, <2>0, <2>2, <4>1 DEF Serve
      <4>3. toClient'[d][1].kind = request[d] /\ toClient'[d][1].to = d
        BY <2>2, <4>2 DEF Answer
      <4>4. Len(toClient'[d]) = 1
        BY <4>2
      <4>5. QED
        BY <2>0, <3>3, <3>5, <4>1, <4>3, <4>4 DEF UnderWay
    <3>6. QED
        BY <3>2, <3>4, <3>5
  <2>3. QED
    BY <2>1, <2>2
<1>6. QED
    BY <1>2, <1>3, <1>4, <1>5 DEF ServerStep

\* Every step keeps what the clients show.
LEMMA AnswerStep ==
    ASSUME SocketTypes, \A c \in Client : UnderWay(c), AnswerOfRequest, [Next]_vars
    PROVE  AnswerOfRequest'
<1>1. CASE shown' = shown
    BY <1>1 DEF AnswerOfRequest
<1>2. ASSUME NEW c \in Client, Receive(c)
      PROVE  AnswerOfRequest'
  <2>1. CASE toClient[c] = <<>>
    BY <1>2, <2>1 DEF Receive, AnswerOfRequest, SocketTypes
  <2>2. CASE toClient[c] # <<>>
    <3>1. toClient[c][1].kind = request[c] /\ toClient[c][1].to = c
        BY <1>2, <2>2 DEF Receive, UnderWay
    <3>2. Head(toClient[c]) = toClient[c][1]
        BY <2>2 DEF SocketTypes
    <3>3. shown' = [shown EXCEPT ![c] = {[request |-> request[c], answer |-> toClient[c][1]]}]
        BY <1>2, <2>2, <3>2 DEF Receive
    <3>4. QED
        BY <3>1, <3>3 DEF AnswerOfRequest, SocketTypes
  <2>3. QED
    BY <2>1, <2>2
<1>3. QED
    BY <1>1, <1>2 DEF Next, ServerStep, ClientStep, Signal, Connect, Send, Check,
       int_handler, user_handler, Listen, Accept, ServeQuit, Serve, Hangup, vars, clientVars

\* A step that adds no client to those to be counted, and counts nothing.
LEMMA NoneToCount ==
    ASSUME IsFiniteSet(ToCount), ToCount' \subseteq ToCount
    PROVE  /\ IsFiniteSet(ToCount') /\ Cardinality(ToCount') <= Cardinality(ToCount)
           /\ Cardinality(ToCount) \in Nat /\ Cardinality(ToCount') \in Nat
BY FS_Subset, FS_CardinalityType

\* The signals that are still to be counted, in every step.
LEMMA ToCountStep ==
    ASSUME SocketTypes, Connections, \A c \in Client : UnderWay(c), Counting, [Next]_vars
    PROVE  IsFiniteSet(ToCount') /\ counter' + Cardinality(ToCount') <= asked'
<1> DEFINE Waits(c) == client[c] \in {"start", "loop"} /\ message_to_send[c] = "COUNTING"
           Asks(c)  == "server" \in open[c] /\ toServer[c] = <<"Compteur">>
<1>0. /\ IsFiniteSet(ToCount) /\ counter + Cardinality(ToCount) <= asked
      /\ Cardinality(ToCount) \in Nat /\ counter \in Nat /\ asked \in Nat
    BY FS_CardinalityType DEF Counting, SocketTypes
<1>1. /\ \A c \in Client : c \in ToCount <=> Waits(c) \/ Asks(c)
      /\ \A c \in Client : c \in ToCount' <=> Waits(c)' \/ Asks(c)'
      /\ ToCount \subseteq Client /\ ToCount' \subseteq Client
    BY DEF ToCount
<1> HIDE DEF Waits, Asks
<1>2. ASSUME \A c \in Client : Waits(c)' \/ Asks(c)' => Waits(c) \/ Asks(c),
             UNCHANGED <<counter, asked>>
      PROVE  IsFiniteSet(ToCount') /\ counter' + Cardinality(ToCount') <= asked'
  <2>1. ToCount' \subseteq ToCount
    BY <1>1, <1>2
  <2>2. QED
    BY <1>0, <1>2, <2>1, NoneToCount
<1>3. CASE UNCHANGED vars
    BY <1>2, <1>3 DEF vars, serverVars, clientVars, netVars, Waits, Asks
<1>4. ASSUME NEW c \in Client, Connect(c)
      PROVE  \A d \in Client : Waits(d)' \/ Asks(d)' => Waits(d) \/ Asks(d)
  <2>1. toServer[c] = <<>> /\ toServer' = toServer
    BY <1>4 DEF Connect, UnderWay
  <2>2. \A d \in Client : Waits(d)' => Waits(d)
    BY <1>4 DEF Connect, Waits, SocketTypes
  <2>3. \A d \in Client : Asks(d)' => Asks(d)
    <3>1. \A d \in Client \ {c} : open'[d] = open[d]
        BY <1>4 DEF Connect, SocketTypes
    <3>2. toServer'[c] # <<"Compteur">>
        BY <2>1
    <3>3. QED
        BY <2>1, <3>1, <3>2 DEF Asks
  <2>4. QED
    BY <2>2, <2>3
<1>5. ASSUME NEW c \in Client, Send(c)
      PROVE  \A d \in Client : Waits(d)' \/ Asks(d)' => Waits(d) \/ Asks(d)
  <2>1. \A d \in Client : Waits(d)' => Waits(d)
    BY <1>5 DEF Send, Waits, SocketTypes
  <2>2. \A d \in Client \ {c} : Asks(d)' => Asks(d)
    BY <1>5 DEF Send, Asks, SocketTypes
  <2>3. Asks(c)' => Waits(c)
    <3>1. client[c] = "loop" /\ message_to_send[c] # "none"
          /\ ("server" \in open[c] => toServer[c] = <<>>)
        BY <1>5 DEF Send, UnderWay
    <3>2. "server" \in open'[c] => "server" \in open[c] /\ toServer'[c] = <<RequestOf(c)>>
        BY <1>5, <3>1 DEF Send, SocketTypes
    <3>3. Asks(c)' => RequestOf(c) = "Compteur"
        BY <3>2 DEF Asks
    <3>4. QED
        BY <3>1, <3>3, RequestType DEF Waits
  <2>4. QED
    BY <2>1, <2>2, <2>3
<1>6. ASSUME NEW c \in Client, Check(c)
      PROVE  \A d \in Client : Waits(d)' \/ Asks(d)' => Waits(d) \/ Asks(d)
  <2>1. \A d \in Client : Waits(d)' => Waits(d)
    BY <1>6 DEF Check, Waits, SocketTypes
  <2>2. \A d \in Client : Asks(d)' => Asks(d)
    <3>1. open' = open \/ open' = [open EXCEPT ![c] = @ \ {"client"}]
        BY <1>6 DEF Check
    <3>2. \A d \in Client : "server" \in open'[d] => "server" \in open[d]
        BY <3>1, CloseType
    <3>3. QED
        BY <1>6, <3>2 DEF Check, Asks
  <2>3. QED
    BY <2>1, <2>2
<1>7. ASSUME NEW c \in Client, Receive(c)
      PROVE  \A d \in Client : Waits(d)' \/ Asks(d)' => Waits(d) \/ Asks(d)
  <2>1. \A d \in Client : Waits(d)' => Waits(d)
    BY <1>7 DEF Receive, Waits, SocketTypes
  <2>2. \A d \in Client : Asks(d)' => Asks(d)
    BY <1>7 DEF Receive, Asks
  <2>3. QED
    BY <2>1, <2>2
<1>8. ASSUME NEW c \in Client, ClientStep(c)
      PROVE  IsFiniteSet(ToCount') /\ counter' + Cardinality(ToCount') <= asked'
  <2>1. UNCHANGED <<counter, asked>>
    BY <1>8 DEF ClientStep, Connect, Send, Check, Receive, serverVars
  <2>2. QED
    BY <1>2, <1>4, <1>5, <1>6, <1>7, <1>8, <2>1 DEF ClientStep
<1>9. ASSUME NEW c \in Client, Signal(c)
      PROVE  IsFiniteSet(ToCount') /\ counter' + Cardinality(ToCount') <= asked'
  <2>1. /\ UNCHANGED <<counter, client, open, toServer>>
        /\ \A d \in Client \ {c} : message_to_send'[d] = message_to_send[d]
        /\ \/ asked' = asked /\ message_to_send'[c] # "COUNTING"
           \/ asked' = asked + 1
    BY <1>9 DEF Signal, int_handler, user_handler, serverVars, netVars, SocketTypes
  <2>2. \A d \in Client \ {c} : Waits(d)' \/ Asks(d)' => Waits(d) \/ Asks(d)
    BY <2>1 DEF Waits, Asks
  <2>3. CASE asked' = asked /\ message_to_send'[c] # "COUNTING"
    <3>1. Waits(c)' \/ Asks(c)' => Waits(c) \/ Asks(c)
        BY <2>1, <2>3 DEF Waits, Asks
    <3>2. QED
        BY <1>2, <2>1, <2>2, <2>3, <3>1
  <2>4. CASE asked' = asked + 1
    <3>1. ToCount' \subseteq ToCount \cup {c}
        BY <1>1, <2>2
    <3>2. /\ IsFiniteSet(ToCount \cup {c})
          /\ Cardinality(ToCount \cup {c}) <= Cardinality(ToCount) + 1
          /\ Cardinality(ToCount \cup {c}) \in Nat
      <4>1. IsFiniteSet(ToCount \cup {c})
        BY <1>0, FS_AddElement
      <4>2. \/ Cardinality(ToCount \cup {c}) = Cardinality(ToCount)
            \/ Cardinality(ToCount \cup {c}) = Cardinality(ToCount) + 1
        BY <1>0, FS_AddElement
      <4>3. QED
        BY <1>0, <4>1, <4>2
    <3>3. /\ IsFiniteSet(ToCount') /\ Cardinality(ToCount') <= Cardinality(ToCount \cup {c})
          /\ Cardinality(ToCount') \in Nat
        BY <3>1, <3>2, FS_Subset, FS_CardinalityType
    <3>4. QED
        BY <1>0, <2>1, <2>4, <3>2, <3>3
  <2>5. QED
    BY <2>1, <2>3, <2>4
<1>10. CASE ServerStep /\ counter' = counter
  <2>1. /\ UNCHANGED <<client, message_to_send, asked>>
        /\ \A d \in Client : "server" \in open'[d] => "server" \in open[d]
    BY <1>10 DEF ServerStep, Listen, Accept, ServeQuit, Serve, Hangup, clientVars, netVars,
                 SocketTypes
  <2>2. \A d \in Client : toServer'[d] = toServer[d] \/ toServer'[d] # <<"Compteur">>
    <3>1. CASE Listen \/ Accept \/ Hangup
        BY <3>1 DEF Listen, Accept, Hangup, netVars
    <3>2. CASE ServeQuit \/ Serve
      <4>1. conn \in Client /\ toServer[conn] # <<>>
        BY <3>2, Reading DEF ServeQuit, Serve
      <4>2. "server" \in open[conn] /\ client[conn] # "start"
        BY <4>1, <3>2 DEF Connections, ServeQuit, Serve
      <4>4. Tail(toServer[conn]) = <<>>
        BY <4>1, <4>2, OneRequest
      <4>5. toServer' = [toServer EXCEPT ![conn] = <<>>]
        BY <3>2, <4>4 DEF ServeQuit, Serve
      <4>6. QED
        BY <4>1, <4>5 DEF SocketTypes
    <3>3. QED
        BY <1>10, <3>1, <3>2 DEF ServerStep
  <2>3. QED
    BY <1>2, <1>10, <2>1, <2>2 DEF Waits, Asks
<1>11. CASE Serve /\ counter' # counter
  <2>1. /\ conn \in Client /\ Head(toServer[conn]) = "Compteur" /\ counter' = counter + 1
        /\ toServer[conn] # <<>> /\ toServer' = [toServer EXCEPT ![conn] = Tail(@)]
        /\ UNCHANGED <<client, message_to_send, open, asked>>
    BY <1>11, Reading DEF Serve, clientVars
  <2>2. "server" \in open[conn] /\ client[conn] # "start"
    BY <2>1, <1>11 DEF Connections, Serve
  <2>3. client[conn] \in {"sent", "recv", "done"} /\ toServer[conn] = <<"Compteur">>
    BY <2>1, <2>2, OneRequest
  <2>4. toServer'[conn] = <<>> /\ \A d \in Client \ {conn} : toServer'[d] = toServer[d]
    BY <2>1, <2>3 DEF SocketTypes
  <2>5. conn \in ToCount /\ conn \notin ToCount'
    BY <1>1, <2>1, <2>2, <2>3, <2>4 DEF Waits, Asks
  <2>6. \A d \in Client \ {conn} : Waits(d)' \/ Asks(d)' => Waits(d) \/ Asks(d)
    BY <2>1, <2>4 DEF Waits, Asks
  <2>7. ToCount' \subseteq ToCount \ {conn}
    BY <1>1, <2>5, <2>6
  <2>8. /\ IsFiniteSet(ToCount \ {conn})
        /\ Cardinality(ToCount \ {conn}) = Cardinality(ToCount) - 1
        /\ Cardinality(ToCount \ {conn}) \in Nat
    BY <1>0, <2>5, FS_RemoveElement, FS_CardinalityType
  <2>9. /\ IsFiniteSet(ToCount') /\ Cardinality(ToCount') <= Cardinality(ToCount \ {conn})
        /\ Cardinality(ToCount') \in Nat
    BY <2>7, <2>8, FS_Subset, FS_CardinalityType
  <2>10. QED
    BY <1>0, <2>1, <2>8, <2>9
<1>12. CASE ServerStep /\ counter' # counter
    BY <1>11, <1>12 DEF ServerStep, Listen, Accept, ServeQuit, Hangup
<1>13. QED
    BY <1>3, <1>8, <1>9, <1>10, <1>12 DEF Next

\* The values of the counter that clients have been told or sent, in every step.
LEMMA HeldStep ==
    ASSUME SocketTypes, Connections, \A c \in Client : UnderWay(c), Counting, [Next]_vars
    PROVE  /\ \A c \in Client : Held(c)' \subseteq 1 .. counter'
           /\ \A c, d \in Client : c # d => Held(c)' \intersect Held(d)' = {}
<1> DEFINE Shows(c, n) == \E s \in shown[c] : s.answer.kind = "Compteur" /\ n = s.answer.n
           Gets(c, n)  == \E i \in 1 .. Len(toClient[c]) :
                              toClient[c][i].kind = "Compteur" /\ n = toClient[c][i].n
<1>0. /\ counter \in Nat /\ \A c \in Client : Held(c) \subseteq 1 .. counter
      /\ \A c, d \in Client : c # d => Held(c) \intersect Held(d) = {}
    BY DEF Counting, SocketTypes
<1>1. /\ \A c \in Client : \A n : n \in Held(c) <=> Shows(c, n) \/ Gets(c, n)
      /\ \A c \in Client : \A n : n \in Held(c)' <=> Shows(c, n)' \/ Gets(c, n)'
    BY DEF Held, ToldTo
<1>2. CASE UNCHANGED <<shown, toClient, counter>>
  <2>1. \A c \in Client : Held(c)' = Held(c)
    BY <1>2 DEF Held, ToldTo
  <2>2. QED
    BY <1>0, <1>2, <2>1
<1> HIDE DEF Shows, Gets
<1>3. ASSUME NEW c \in Client, Receive(c)
      PROVE  UNCHANGED counter /\ \A d \in Client : Held(d)' \subseteq Held(d)
  <2>1. UNCHANGED counter
    BY <1>3 DEF Receive, serverVars
  <2>2. ASSUME NEW d \in Client \ {c} PROVE Held(d)' = Held(d)
    <3>1. shown'[d] = shown[d] /\ toClient'[d] = toClient[d]
        BY <1>3 DEF Receive, SocketTypes
    <3>2. QED
        BY <3>1 DEF Held, ToldTo
  <2>3. CASE toClient[c] = <<>>
    <3>1. shown'[c] = {} /\ toClient'[c] = toClient[c]
        BY <1>3, <2>3 DEF Receive, SocketTypes
    <3>2. \A n : (Shows(c, n)' => FALSE) /\ (Gets(c, n)' => Gets(c, n))
        BY <3>1 DEF Shows, Gets
    <3>3. QED
        BY <1>1, <2>1, <2>2, <3>2
  <2>4. CASE toClient[c] # <<>>
    <3>1. toClient[c] \in Seq(Answers) /\ Len(toClient[c]) = 1
        BY <1>3, <2>4 DEF Receive, UnderWay, SocketTypes
    <3>2. /\ shown'[c] = {[request |-> request[c], answer |-> toClient[c][1]]}
          /\ Len(toClient'[c]) = 0
      <4>1. Head(toClient[c]) = toClient[c][1] /\ Len(Tail(toClient[c])) = 0
        BY <2>4, <3>1
      <4>2. /\ shown'[c] = {[request |-> request[c], answer |-> Head(toClient[c])]}
            /\ toClient'[c] = Tail(toClient[c])
        BY <1>3, <2>4 DEF Receive, SocketTypes
      <4>3. QED
        BY <4>1, <4>2
    <3>3. \A n : (Gets(c, n)' => FALSE) /\ (Shows(c, n)' => Gets(c, n))
        BY <3>1, <3>2 DEF Shows, Gets
    <3>4. QED
        BY <1>1, <2>1, <2>2, <3>3
  <2>5. QED
    BY <2>3, <2>4
<1>4. CASE Serve
  <2> DEFINE m == Head(toServer[conn])
  <2>1. /\ conn \in Client /\ toServer[conn] # <<>> /\ UNCHANGED shown
        /\ counter' = IF m = "Compteur" THEN counter + 1 ELSE counter
    BY <1>4, Reading DEF Serve, clientVars
  <2>2. m \in Requests /\ toClient[conn] \in Seq(Answers)
    BY <2>1 DEF SocketTypes
  <2>3. counter' \in Nat /\ counter <= counter' /\ (m = "Compteur" => counter' = counter + 1)
    BY <1>0, <2>1
  <2> DEFINE a == Answer(m, counter')
  <2>4. a \in Answers /\ a.kind = m /\ (m = "Compteur" => a.n = counter')
    BY <2>1, <2>2, <2>3, AnswerType
  <2>5. \/ toClient' = toClient
        \/ toClient' = [toClient EXCEPT ![conn] = Append(toClient[conn], a)]
    BY <1>4 DEF Serve, SocketTypes
  <2> HIDE DEF a, m
  <2>6. PICK k \in Client : k = conn
    BY <2>1
  <2>7. /\ toClient[k] \in Seq(Answers)
         /\ \/ toClient' = toClient
            \/ toClient' = [toClient EXCEPT ![k] = Append(toClient[k], a)]
    BY <2>2, <2>5, <2>6
  <2>8. ASSUME NEW d \in Client \ {k} PROVE Held(d)' = Held(d)
    <3>1. shown'[d] = shown[d] /\ toClient'[d] = toClient[d]
        BY <2>1, <2>7 DEF SocketTypes
    <3>2. QED
        BY <3>1 DEF Held, ToldTo
  <2>9. ASSUME NEW n, n \in Held(k)'
        PROVE  n \in Held(k) \/ (n = counter' /\ counter' = counter + 1)
    <3>1. CASE Shows(k, n)'
        BY <1>1, <2>1, <3>1 DEF Shows
    <3>2. CASE Gets(k, n)' /\ toClient' = toClient
        BY <1>1, <2>1, <3>2 DEF Gets
    <3>3. CASE Gets(k, n)' /\ toClient' = [toClient EXCEPT ![k] = Append(toClient[k], a)]
      <4>1. PICK i \in 1 .. Len(toClient'[k]) :
                toClient'[k][i].kind = "Compteur" /\ n = toClient'[k][i].n
        BY <3>3 DEF Gets
      <4>2. toClient'[k] = Append(toClient[k], a)
        BY <2>1, <3>3 DEF SocketTypes
      <4>3. \/ i \in 1 .. Len(toClient[k]) /\ toClient'[k][i] = toClient[k][i]
            \/ toClient'[k][i] = a
        BY <2>7, <2>4, <4>1, <4>2
      <4>4. CASE i \in 1 .. Len(toClient[k]) /\ toClient'[k][i] = toClient[k][i]
        <5>1. Gets(k, n)
            BY <4>1, <4>4 DEF Gets
        <5>2. QED
            BY <1>1, <2>1, <5>1
      <4>5. CASE toClient'[k][i] = a
        BY <2>3, <2>4, <4>1, <4>5
      <4>6. QED
        BY <4>3, <4>4, <4>5
    <3>4. QED
        BY <1>1, <2>7, <2>9, <3>1, <3>2, <3>3
  <2>10. Held(k) \subseteq 1 .. counter
    BY <1>0
  <2>11. \A n \in 1 .. counter : n \in 1 .. counter' /\ n # counter + 1
    BY <1>0, <2>3
  <2>12. counter' = counter + 1 => counter' \in 1 .. counter'
    BY <1>0
  <2>13. \A c \in Client : Held(c)' \subseteq 1 .. counter'
    <3>1. Held(k)' \subseteq 1 .. counter'
        BY <2>9, <2>10, <2>11, <2>12
    <3>2. \A c \in Client \ {k} : Held(c)' \subseteq 1 .. counter'
        BY <1>0, <2>8, <2>11
    <3>3. QED
        BY <3>1, <3>2
  <2>14. \A c \in Client \ {k} : Held(k)' \intersect Held(c)' = {}
    BY <1>0, <2>1, <2>8, <2>9, <2>11
  <2>15. ASSUME NEW c \in Client, NEW d \in Client, c # d
         PROVE  Held(c)' \intersect Held(d)' = {}
    <3>1. CASE c = k
        BY <2>14, <2>15, <3>1
    <3>2. CASE d = k
        BY <2>14, <2>15, <3>2
    <3>3. CASE c # k /\ d # k
        BY <1>0, <2>8, <2>15, <3>3
    <3>4. QED
        BY <3>1, <3>2, <3>3
  <2>16. QED
    BY <2>13, <2>15
<1>5. CASE \E c \in Client : Receive(c)
    BY <1>0, <1>3, <1>5
<1>6. QED
    BY <1>2, <1>4, <1>5 DEF Next, ServerStep, ClientStep, Signal, Connect, Send, Check,
       int_handler, user_handler, Listen, Accept, ServeQuit, Hangup, vars, clientVars,
       serverVars, netVars

\* The initial state satisfies the invariant.
LEMMA InitSocketsInv == Init => SocketsInv
<1> SUFFICES ASSUME Init PROVE SocketsInv
    OBVIOUS
<1>1. SocketTypes
  <2>1. conn \in Client \cup {"none"} /\ backlog \in Seq(Client) /\ counter \in Nat /\ asked \in Nat
    BY DEF Init
  <2>2. /\ client \in [Client -> {"start", "loop", "sent", "recv", "done"}]
        /\ message_to_send \in [Client -> {"none", "GREETING", "COUNTING", "QUITING"}]
        /\ alt \in [Client -> BOOLEAN]
    BY DEF Init
  <2>3. toServer \in [Client -> Seq(Requests)] /\ toClient \in [Client -> Seq(Answers)]
    BY DEF Init
  <2>4. /\ open \in [Client -> SUBSET {"client", "server"}]
        /\ request \in [Client -> Requests \cup {"none"}]
        /\ shown \in [Client -> SUBSET [request : Requests, answer : Answers]]
    BY DEF Init
  <2>5. QED
    BY <2>1, <2>2, <2>3, <2>4 DEF Init, SocketTypes
<1>2. Connections
    BY DEF Init, Connections
<1>3. \A c \in Client : UnderWay(c)
    BY DEF Init, UnderWay
<1>4. AnswerOfRequest
    BY DEF Init, AnswerOfRequest
<1>5. Counting
  <2>1. ToCount = {}
    BY DEF Init, ToCount
  <2>2. IsFiniteSet(ToCount) /\ counter + Cardinality(ToCount) <= asked
    BY <2>1, FS_EmptySet DEF Init
  <2>3. \A c \in Client : Held(c) = {}
    BY DEF Init, Held, ToldTo
  <2>4. QED
    BY <2>2, <2>3 DEF Counting
<1>6. QED
    BY <1>1, <1>2, <1>3, <1>4, <1>5 DEF SocketsInv

\* Every step preserves it.
LEMMA NextSocketsInv == SocketsInv /\ [Next]_vars => SocketsInv'
<1> SUFFICES ASSUME SocketsInv, [Next]_vars PROVE SocketsInv'
    OBVIOUS
<1>0. SocketTypes /\ Connections /\ (\A c \in Client : UnderWay(c)) /\ AnswerOfRequest /\ Counting
    BY DEF SocketsInv
<1>1. SocketTypes'
    BY <1>0, TypesStep
<1>2. Connections'
    BY <1>0, ConnectionsStep
<1>3. ASSUME NEW d \in Client PROVE UnderWay(d)'
  <2>1. CASE UNCHANGED vars
    BY <1>0, <2>1, UnderWayFrame DEF vars, clientVars, netVars
  <2>2. CASE Next
    BY <1>0, <2>2, UnderWayClientStep, UnderWayServerStep DEF Next
  <2>3. QED
    BY <2>1, <2>2
<1>4. AnswerOfRequest'
    BY <1>0, AnswerStep
<1>5. Counting'
  <2>1. IsFiniteSet(ToCount') /\ counter' + Cardinality(ToCount') <= asked'
    BY <1>0, ToCountStep
  <2>2. /\ \A c \in Client : Held(c)' \subseteq 1 .. counter'
        /\ \A c, d \in Client : c # d => Held(c)' \intersect Held(d)' = {}
    BY <1>0, HeldStep
  <2>3. QED
    BY <2>1, <2>2 DEF Counting
<1>6. QED
    BY <1>1, <1>2, <1>3, <1>4, <1>5 DEF SocketsInv

\* An answer a client shows is the answer to the request it wrote last and was
\* meant for it, whatever signals come between the two reads of message_to_send
\* and however many clients share the server.
THEOREM AnswersPaired == Spec => []AnswerOfRequest
<1>1. SocketsInv => AnswerOfRequest
    BY DEF SocketsInv
<1>2. QED
    BY InitSocketsInv, NextSocketsInv, <1>1, PTL DEF Spec

\* The server counts a signal once at most, and no two clients show the same
\* value of the counter, for any number of clients.
THEOREM SignalsCountedOnce == Spec => []CountedOnce
<1>1. SocketsInv => CountedOnce
  <2> SUFFICES ASSUME SocketsInv PROVE CountedOnce
    OBVIOUS
  <2>1. /\ counter \in Nat /\ asked \in Nat /\ Cardinality(ToCount) \in Nat
        /\ counter + Cardinality(ToCount) <= asked
    BY FS_CardinalityType DEF SocketsInv, SocketTypes, Counting
  <2>2. \A c \in Client : ToldTo(c) \subseteq Held(c)
    BY DEF Held
  <2>3. \A c \in Client : ToldTo(c) \subseteq 1 .. counter
    BY <2>2 DEF SocketsInv, Counting
  <2>4. \A c, d \in Client : c # d => ToldTo(c) \intersect ToldTo(d) = {}
    BY <2>2 DEF SocketsInv, Counting
  <2>5. counter <= asked
    BY <2>1
  <2>6. QED
    BY <2>3, <2>4, <2>5 DEF CountedOnce
<1>2. QED
    BY InitSocketsInv, NextSocketsInv, <1>1, PTL DEF Spec

-----------------------------------------------------------------------------
\* The clients in the queue, and those the server has to do with.
InQueue(c) == \E i \in 1 .. Len(backlog) : backlog[i] = c
Known(c) == conn = c \/ InQueue(c)

\* A step that closes ends only, and changes neither connection nor queue.
LEMMA AttendedFrame ==
    ASSUME Attended, UNCHANGED <<server, conn, backlog>>,
           \A d \in Client : "server" \in open'[d] => "server" \in open[d]
    PROVE  Attended'
BY DEF Attended

\* The first client of the queue is the one served, the others stay in it.
LEMMA AcceptKnows ==
    ASSUME SocketTypes, Connections, Accept, NEW c \in Client, Known(c)
    PROVE  Known(c)'
<1>1. /\ backlog \in Seq(Client) /\ backlog # <<>> /\ server = "accept"
      /\ conn' = Head(backlog) /\ backlog' = Tail(backlog)
    BY DEF Accept, SocketTypes
<1>2. InQueue(c)
    BY <1>1, SocketsAssumption DEF Connections, Known
<1>3. PICK i \in 1 .. Len(backlog) : backlog[i] = c
    BY <1>2 DEF InQueue
<1>4. CASE i = 1
    BY <1>1, <1>3, <1>4 DEF Known
<1>5. CASE i # 1
  <2>1. i - 1 \in 1 .. Len(Tail(backlog)) /\ Tail(backlog)[i - 1] = backlog[i]
    BY <1>1, <1>5
  <2>2. InQueue(c)'
    BY <1>1, <1>3, <2>1 DEF InQueue
  <2>3. QED
    BY <2>2 DEF Known
<1>6. QED
    BY <1>4, <1>5

\* A client that connects is in the queue, behind those that were there.
LEMMA ConnectAttended ==
    ASSUME SocketTypes, Attended, NEW c \in Client, Connect(c)
    PROVE  Attended'
<1>1. CASE server \in {"accept", "read"}
  <2>1. /\ backlog \in Seq(Client) /\ backlog' = Append(backlog, c)
        /\ open' = [open EXCEPT ![c] = {"client", "server"}]
        /\ UNCHANGED <<server, conn>>
    BY <1>1 DEF Connect, SocketTypes
  <2>2. /\ Len(backlog') = Len(backlog) + 1 /\ backlog'[Len(backlog) + 1] = c
        /\ \A i \in 1 .. Len(backlog) : backlog'[i] = backlog[i]
        /\ Len(backlog) \in Nat
    BY <2>1
  <2>3. \A d \in Client : InQueue(d) => InQueue(d)'
    BY <2>2 DEF InQueue
  <2>4. InQueue(c)'
    BY <2>2 DEF InQueue
  <2>5. \A d \in Client \ {c} : open'[d] = open[d]
    BY <2>1 DEF SocketTypes
  <2>6. \A d \in Client : "server" \in open'[d] => Known(d)'
    BY <2>1, <2>3, <2>4, <2>5 DEF Attended, Known, InQueue
  <2>7. QED
    BY <1>1, <2>1, <2>6 DEF Attended, Known, InQueue
<1>2. CASE server \notin {"accept", "read"}
  <2>1. UNCHANGED <<server, conn, backlog, open>>
    BY <1>2 DEF Connect
  <2>2. QED
    BY <2>1, AttendedFrame
<1>3. QED
    BY <1>1, <1>2

\* A server end is closed when its connection is over, or with all the others.
LEMMA AttendedStep ==
    ASSUME SocketTypes, Connections, Attended, [Next]_vars
    PROVE  Attended'
<1>1. CASE UNCHANGED vars
    BY <1>1, AttendedFrame DEF vars, serverVars, netVars
<1>2. ASSUME NEW c \in Client, ClientStep(c) \/ Signal(c) PROVE Attended'
  <2>1. CASE Connect(c)
    BY <2>1, ConnectAttended
  <2>2. CASE Send(c) \/ Check(c) \/ Receive(c) \/ Signal(c)
    <3>1. UNCHANGED <<server, conn, backlog>>
        BY <2>2 DEF Send, Check, Receive, Signal, int_handler, user_handler, serverVars
    <3>2. open' = open \/ open' = [open EXCEPT ![c] = @ \ {"client"}]
        BY <2>2 DEF Send, Check, Receive, Signal, int_handler, user_handler, netVars
    <3>3. \A d \in Client : "server" \in [open EXCEPT ![c] = @ \ {"client"}][d]
                              => "server" \in open[d]
        BY DEF SocketTypes
    <3>4. QED
        BY <3>1, <3>2, <3>3, AttendedFrame
  <2>3. QED
    BY <1>2, <2>1, <2>2 DEF ClientStep
<1>3. CASE Listen
  <2>1. server' # "done" /\ UNCHANGED <<conn, backlog, open>>
    BY <1>3 DEF Listen, netVars
  <2>2. QED
    BY <2>1 DEF Attended
<1>4. CASE Accept
  <2>1. server' # "done" /\ open' = open
    BY <1>4 DEF Accept, netVars
  <2>2. \A c \in Client : "server" \in open[c] => Known(c)
    BY DEF Attended, Known, InQueue
  <2>3. \A c \in Client : "server" \in open'[c] => Known(c)'
    BY <1>4, <2>1, <2>2, AcceptKnows
  <2>4. QED
    BY <2>1, <2>3 DEF Attended, Known, InQueue
<1>5. CASE ServeQuit
  <2>1. backlog' = <<>> /\ \A c \in Client : "server" \notin open'[c]
    BY <1>5 DEF ServeQuit
  <2>2. QED
    BY <2>1 DEF Attended
<1>6. CASE Serve
    BY <1>6, AttendedFrame DEF Serve
<1>7. CASE Hangup
  <2>1. /\ server' # "done" /\ backlog' = backlog
        /\ open' = [open EXCEPT ![conn] = @ \ {"server"}]
    BY <1>7 DEF Hangup
  <2>2. \A c \in Client : "server" \in open'[c] => c # conn /\ "server" \in open[c]
    BY <2>1 DEF SocketTypes
  <2>3. QED
    BY <2>1, <2>2 DEF Attended
<1>8. QED
    BY <1>1, <1>2, <1>3, <1>4, <1>5, <1>6, <1>7 DEF Next, ServerStep

\* No client that sleeps in recv is ever forgotten, for any number of clients
\* and whatever signals come (socket_client.c:137-139, socket_server.c:62-103).
THEOREM ClientsAttended == Spec => []NobodyForgotten
<1>1. Init => Attended
  <2> SUFFICES ASSUME Init PROVE Attended
    OBVIOUS
  <2>1. server = "start" /\ \A c \in Client : open[c] = {}
    BY DEF Init
  <2>2. QED
    BY <2>1 DEF Attended
<1>2. SocketsInv /\ Attended /\ [Next]_vars => Attended'
    BY AttendedStep DEF SocketsInv
<1>3. SocketsInv /\ Attended => NobodyForgotten
  <2> SUFFICES ASSUME SocketsInv, Attended, NEW c \in Client, client[c] = "recv",
                      toClient[c] = <<>>, "server" \in open[c]
               PROVE  /\ toServer[c] = <<request[c]>>
                      /\ \/ server = "read" /\ conn = c
                         \/ server # "done" /\ InQueue(c)
    BY DEF NobodyForgotten, InQueue
  <2>1. toServer[c] = <<request[c]>>
    <3>1. UnderWay(c) /\ ~(Len(toClient[c]) = 1)
        BY DEF SocketsInv
    <3>2. QED
        BY <3>1 DEF UnderWay
  <2>2. conn = c \/ InQueue(c)
    BY DEF Attended, InQueue
  <2>3. conn = c => server = "read"
    BY SocketsAssumption DEF SocketsInv, Connections
  <2>4. InQueue(c) => server # "done"
    BY DEF Attended, InQueue
  <2>5. QED
    BY <2>1, <2>2, <2>3, <2>4
<1>4. QED
    BY InitSocketsInv, NextSocketsInv, <1>1, <1>2, <1>3, PTL DEF Spec
=============================================================================
