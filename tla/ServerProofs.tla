----------------------------- MODULE ServerProofs -----------------------------
(***************************************************************************)
(* For every number of clients, size of the buffer and of the backlog, and *)
(* every way in which the bytes of a command arrive: a command that fits   *)
(* the buffer is run whole, unless its client dies, and once.              *)
(***************************************************************************)
EXTENDS Server, TLAPS

Distinct(s) == \A i, j \in DOMAIN s : s[i] = s[j] => i = j
Queued(c, s) == \E i \in DOMAIN s : s[i] = c
Served(c) == \E i \in DOMAIN ran : ran[i].client = c
Reading(c) == server \in {"read", "run"} /\ clientSockets[it] = c

\* Type invariant.
STypeOK ==
  /\ client \in [Clients -> {"start", "connected", "exited", "killed"}]
  /\ sent \in [Clients -> Nat]
  /\ unread \in [Clients -> Nat]
  /\ backlog \in Seq(Clients)
  /\ clientSockets \in Seq(Clients)
  /\ server \in {"select", "accept", "handleClients", "read", "run", "stopped"}
  /\ it \in Nat \ {0}
  /\ received \in Nat
  /\ ran \in Seq([client : Clients, bytes : Nat])

\* A connection is in the backlog, or accepted, or served, and only once.
Connections ==
  /\ Distinct(backlog) /\ Distinct(clientSockets)
  /\ \A c \in Clients :
       /\ ~(Queued(c, backlog) /\ Queued(c, clientSockets))
       /\ Served(c) => ~Queued(c, backlog) /\ ~Queued(c, clientSockets)
       /\ client[c] = "start" => ~Queued(c, backlog) /\ ~Queued(c, clientSockets) /\ ~Served(c)

\* No byte is lost: what is not read yet waits in the connection.
Conserved ==
  \A c \in Clients :
    /\ sent[c] <= CommandLength[c]
    /\ client[c] = "exited" => sent[c] = CommandLength[c]
    /\ Reading(c) => received + unread[c] = sent[c]
    /\ ~Reading(c) /\ ~Served(c) => unread[c] = sent[c]

\* What is run is the command, and it is the command of an accepted connection.
WholeAtRun ==
  /\ server \in {"read", "run"} => it \in DOMAIN clientSockets
  /\ server = "run" => LET c == clientSockets[it]
                       IN client[c] # "killed" => received = CommandLength[c]
  /\ server = "accept" => backlog # <<>>

SInv == STypeOK /\ Connections /\ Conserved /\ WholeAtRun /\ RunsWholeCommands
-----------------------------------------------------------------------------
\* What is in a sequence over a set is in the set.
LEMMA EntryInSeq ==
  ASSUME NEW S, NEW s \in Seq(S), NEW i \in DOMAIN s PROVE s[i] \in S
  OBVIOUS

\* What appending one entry does to a sequence.
LEMMA AppendOne ==
  ASSUME NEW S, NEW s \in Seq(S), NEW e \in S
  PROVE  /\ Append(s, e) \in Seq(S)
         /\ DOMAIN Append(s, e) = 1 .. Len(s) + 1 /\ Append(s, e)[Len(s) + 1] = e
         /\ \A i \in DOMAIN s : i \in DOMAIN Append(s, e) /\ Append(s, e)[i] = s[i]
         /\ \A i \in DOMAIN Append(s, e) : i \in DOMAIN s \/ i = Len(s) + 1
OBVIOUS

\* The vector without one of its entries.
LEMMA RemoveAtFacts ==
  ASSUME NEW S, NEW s \in Seq(S), NEW i \in DOMAIN s
  PROVE  /\ RemoveAt(s, i) \in Seq(S)
         /\ Len(RemoveAt(s, i)) = Len(s) - 1
         /\ \A j \in 1 .. Len(s) - 1 : RemoveAt(s, i)[j] = IF j < i THEN s[j] ELSE s[j + 1]
<1> DEFINE a == SubSeq(s, 1, i - 1)
           b == SubSeq(s, i + 1, Len(s))
<1>1. i \in Nat /\ 1 <= i /\ i <= Len(s) /\ Len(s) \in Nat
  OBVIOUS
<1>2. a \in Seq(S) /\ Len(a) = i - 1 /\ \A j \in 1 .. i - 1 : a[j] = s[j]
  BY <1>1
<1>3. b \in Seq(S) /\ Len(b) = Len(s) - i /\ \A j \in 1 .. Len(s) - i : b[j] = s[i + j]
  BY <1>1
<1>4. RemoveAt(s, i) = a \o b
  BY DEF RemoveAt
<1> HIDE DEF a, b
<1>5. a \o b \in Seq(S) /\ Len(a \o b) = Len(s) - 1
  BY <1>1, <1>2, <1>3
<1>6. ASSUME NEW j \in 1 .. Len(s) - 1
      PROVE  (a \o b)[j] = IF j < i THEN s[j] ELSE s[j + 1]
  BY <1>1, <1>2, <1>3
<1> QED BY <1>4, <1>5, <1>6

\* What the three changes of a queue do to the clients in it.
LEMMA AppendQueue ==
  ASSUME NEW s \in Seq(Clients), NEW d \in Clients, Distinct(s), ~Queued(d, s)
  PROVE  /\ Append(s, d) \in Seq(Clients) /\ Distinct(Append(s, d))
         /\ \A c \in Clients : Queued(c, Append(s, d)) <=> Queued(c, s) \/ c = d
<1> DEFINE q == Append(s, d)
<1>1. q \in Seq(Clients) /\ DOMAIN q = 1 .. Len(s) + 1 /\ q[Len(s) + 1] = d
  OBVIOUS
<1>2. \A i \in DOMAIN s : i \in DOMAIN q /\ q[i] = s[i]
  OBVIOUS
<1>3. \A i \in DOMAIN q : i \in DOMAIN s \/ i = Len(s) + 1
  OBVIOUS
<1> HIDE DEF q
<1>4. Distinct(q)
  BY <1>1, <1>2, <1>3 DEF Distinct, Queued
<1>5. ASSUME NEW c \in Clients PROVE Queued(c, q) <=> Queued(c, s) \/ c = d
  BY <1>1, <1>2, <1>3 DEF Queued
<1> QED BY <1>1, <1>4, <1>5 DEF q

\* accept takes the first client out of the backlog.
LEMMA TailQueue ==
  ASSUME NEW s \in Seq(Clients), Distinct(s), s # <<>>
  PROVE  /\ Tail(s) \in Seq(Clients) /\ Distinct(Tail(s))
         /\ Head(s) \in Clients /\ Queued(Head(s), s)
         /\ \A c \in Clients : Queued(c, Tail(s)) <=> Queued(c, s) /\ c # Head(s)
<1> DEFINE q == Tail(s)
<1>1. /\ q \in Seq(Clients) /\ DOMAIN q = 1 .. Len(s) - 1
      /\ \A i \in DOMAIN q : i + 1 \in DOMAIN s /\ q[i] = s[i + 1]
  OBVIOUS
<1>2. \A i \in DOMAIN s : i = 1 \/ (i - 1 \in DOMAIN q /\ q[i - 1] = s[i])
  OBVIOUS
<1>3. Head(s) = s[1] /\ 1 \in DOMAIN s /\ \A i \in DOMAIN q : i \in Nat \ {0}
  OBVIOUS
<1> HIDE DEF q
<1>4. Distinct(q)
  BY <1>1, <1>3 DEF Distinct
<1>5. ASSUME NEW c \in Clients PROVE Queued(c, q) <=> Queued(c, s) /\ c # s[1]
  <2>1. ASSUME Queued(c, q) PROVE Queued(c, s) /\ c # s[1]
    BY <2>1, <1>1, <1>3 DEF Queued, Distinct
  <2>2. ASSUME Queued(c, s), c # s[1] PROVE Queued(c, q)
    BY <2>2, <1>1, <1>2 DEF Queued
  <2> QED BY <2>1, <2>2
<1> QED BY <1>1, <1>3, <1>4, <1>5 DEF q, Queued

\* A client that was served leaves clientSockets.
LEMMA RemoveQueue ==
  ASSUME NEW s \in Seq(Clients), Distinct(s), NEW k \in DOMAIN s
  PROVE  /\ RemoveAt(s, k) \in Seq(Clients) /\ Distinct(RemoveAt(s, k))
         /\ \A c \in Clients : Queued(c, RemoveAt(s, k)) <=> Queued(c, s) /\ c # s[k]
<1> DEFINE q == RemoveAt(s, k)
           from(j) == IF j < k THEN j ELSE j + 1
<1>1. /\ q \in Seq(Clients) /\ DOMAIN q = 1 .. Len(s) - 1
      /\ \A j \in 1 .. Len(s) - 1 : q[j] = s[from(j)]
  <2>1. /\ q \in Seq(Clients) /\ Len(q) = Len(s) - 1
        /\ \A j \in 1 .. Len(s) - 1 : q[j] = IF j < k THEN s[j] ELSE s[j + 1]
    BY RemoveAtFacts
  <2> HIDE DEF q
  <2>2. DOMAIN q = 1 .. Len(s) - 1
    BY <2>1
  <2> QED BY <2>1, <2>2
<1>2. /\ k \in Nat
      /\ \A j \in DOMAIN q : from(j) \in DOMAIN s /\ from(j) # k
      /\ \A i, j \in DOMAIN q : from(i) = from(j) => i = j
  BY <1>1
<1>3. \A i \in DOMAIN s : i = k \/ \E j \in DOMAIN q : from(j) = i
  <2> TAKE i \in DOMAIN s
  <2>1. CASE i < k
    BY <2>1, <1>1
  <2>2. CASE i > k
    <3>1. i - 1 \in DOMAIN q /\ from(i - 1) = i
      BY <2>2, <1>1
    <3> QED BY <3>1
  <2> QED BY <2>1, <2>2
<1> HIDE DEF q, from
<1>4. Distinct(q)
  <2> SUFFICES ASSUME NEW i \in DOMAIN q, NEW j \in DOMAIN q, q[i] = q[j] PROVE i = j
    BY DEF Distinct
  <2>1. s[from(i)] = s[from(j)]
    BY <1>1
  <2> QED BY <2>1, <1>2 DEF Distinct
<1>5. ASSUME NEW c \in Clients PROVE Queued(c, q) <=> Queued(c, s) /\ c # s[k]
  <2>1. ASSUME Queued(c, q) PROVE Queued(c, s) /\ c # s[k]
    BY <2>1, <1>1, <1>2 DEF Queued, Distinct
  <2>2. ASSUME Queued(c, s), c # s[k] PROVE Queued(c, q)
    BY <2>2, <1>1, <1>3 DEF Queued
  <2> QED BY <2>1, <2>2
<1> QED BY <1>1, <1>4, <1>5 DEF q
-----------------------------------------------------------------------------
\* Before any client connects.
LEMMA SInitial == Init => SInv
<1> SUFFICES ASSUME Init PROVE SInv
  OBVIOUS
<1>1. STypeOK
  BY DEF Init, STypeOK
<1>2. Connections /\ WholeAtRun /\ RunsWholeCommands
  BY DEF Init, Connections, WholeAtRun, RunsWholeCommands, Distinct, Queued, Served
<1>3. Conserved
  BY CommandsFit DEF Init, Conserved, Reading, Served
<1> QED BY <1>1, <1>2, <1>3 DEF SInv
\* A step that changes nothing.
LEMMA SStutter ==
  ASSUME SInv, UNCHANGED vars PROVE SInv'
<1> USE DEF vars, kernel, loopVars, readVars
<1>1. STypeOK' /\ Connections'
  BY DEF SInv, STypeOK, Connections, Queued, Served
<1>2. Conserved' /\ WholeAtRun' /\ RunsWholeCommands'
  BY DEF SInv, Conserved, WholeAtRun, RunsWholeCommands, Reading, Served
<1> QED BY <1>1, <1>2 DEF SInv

\* A client that connects, writes, exits or dies.
LEMMA ClientKeeps ==
  ASSUME SInv, NEW c \in Clients, clientStep(c) \/ kill(c) PROVE SInv'
<1> USE DEF serverVars, loopVars, readVars, clientStep
<1>1. STypeOK'
  <2>1. CASE connect(c)
    <3>1. Append(backlog, c) \in Seq(Clients)
      BY DEF SInv, STypeOK
    <3> QED BY <2>1, <3>1 DEF SInv, STypeOK, connect
  <2>2. CASE writeDataToSocket(c)
    BY <2>2, CommandsFit DEF SInv, STypeOK, writeDataToSocket
  <2>3. CASE exit(c) \/ kill(c)
    BY <2>3 DEF SInv, STypeOK, exit, kill
  <2> QED BY <2>1, <2>2, <2>3
<1>2. Connections'
  <2>1. CASE connect(c)
    <3>1. ~Queued(c, backlog) /\ ~Queued(c, clientSockets) /\ ~Served(c)
      BY <2>1 DEF SInv, Connections, connect
    <3>2. /\ Distinct(backlog')
          /\ \A d \in Clients : Queued(d, backlog') <=> Queued(d, backlog) \/ d = c
      BY <2>1, <3>1, AppendQueue DEF SInv, STypeOK, Connections, connect
    <3>3. UNCHANGED <<clientSockets, ran>> /\ client' = [client EXCEPT ![c] = "connected"]
      BY <2>1 DEF connect
    <3> QED BY <3>1, <3>2, <3>3 DEF SInv, STypeOK, Connections, Served
  <2>2. CASE ~connect(c)
    <3>1. UNCHANGED <<backlog, clientSockets, ran>>
      BY <2>2 DEF writeDataToSocket, exit, kill
    <3>2. \A d \in Clients : client'[d] = "start" => client[d] = "start"
      BY <2>2 DEF SInv, STypeOK, writeDataToSocket, exit, kill
    <3> QED BY <3>1, <3>2 DEF SInv, Connections, Queued, Served
  <2> QED BY <2>1, <2>2
<1>3. UNCHANGED <<server, clientSockets, it, received, ran>>
  BY DEF connect, writeDataToSocket, exit, kill
<1>4. \A d \in Clients : (Reading(d)' <=> Reading(d)) /\ (Served(d)' <=> Served(d))
  BY <1>3 DEF Reading, Served
<1>5. Conserved'
  <2>1. CASE connect(c)
    BY <2>1, <1>3, <1>4 DEF SInv, STypeOK, Conserved, connect
  <2>2. CASE writeDataToSocket(c)
    <3>1. PICK res \in 1 .. CommandLength[c] - sent[c] :
            /\ sent' = [sent EXCEPT ![c] = @ + res]
            /\ unread' = [unread EXCEPT ![c] = @ + res]
      BY <2>2 DEF writeDataToSocket
    <3>2. UNCHANGED client /\ client[c] = "connected" /\ CommandLength[c] \in Nat
      BY <2>2, CommandsFit DEF writeDataToSocket
    <3>3. \A d \in Clients : d # c => sent'[d] = sent[d] /\ unread'[d] = unread[d]
      BY <3>1 DEF SInv, STypeOK
    <3>4. sent'[c] = sent[c] + res /\ unread'[c] = unread[c] + res /\ sent'[c] <= CommandLength[c]
      BY <3>1, <3>2 DEF SInv, STypeOK
    <3> QED BY <1>3, <1>4, <3>1, <3>2, <3>3, <3>4 DEF SInv, STypeOK, Conserved
  <2>3. CASE exit(c) \/ kill(c)
    BY <2>3, <1>3, <1>4 DEF SInv, STypeOK, Conserved, exit, kill
  <2> QED BY <2>1, <2>2, <2>3
<1>6. \A d \in Clients : client'[d] # "killed" => client[d] # "killed"
  BY DEF SInv, STypeOK, connect, writeDataToSocket, exit, kill
<1>7. WholeAtRun'
  <2>1. server \in {"read", "run"} => clientSockets[it] \in Clients
    BY DEF SInv, STypeOK, WholeAtRun
  <2>2. server = "accept" => backlog' # <<>>
    BY DEF SInv, STypeOK, WholeAtRun, connect, writeDataToSocket, exit, kill
  <2> QED BY <1>3, <1>6, <2>1, <2>2 DEF SInv, WholeAtRun
<1>8. RunsWholeCommands'
  <2>1. \A i \in DOMAIN ran : ran[i].client \in Clients
    <3>1. \A i \in DOMAIN ran : ran[i] \in [client : Clients, bytes : Nat]
      BY EntryInSeq DEF SInv, STypeOK
    <3> QED BY <3>1
  <2> QED BY <1>3, <1>6, <2>1 DEF SInv, RunsWholeCommands
<1> QED BY <1>1, <1>2, <1>5, <1>7, <1>8 DEF SInv

\* Steps that leave the connections alone: quit, select, and a turn of the loop
\* of handleClients.
LEMMA LoopKeeps ==
  ASSUME SInv, typeQuit \/ select \/ handleClients PROVE SInv'
<1> USE DEF serverVars, loopVars, readVars, kernel
<1>1. UNCHANGED <<client, sent, unread, backlog, clientSockets, ran>>
  BY DEF typeQuit, select, handleClients
<1>2. /\ server' \in {"select", "accept", "handleClients", "read", "run", "stopped"}
      /\ it' \in Nat \ {0} /\ received' \in Nat
  BY DEF SInv, STypeOK, typeQuit, select, handleClients, nextRound
<1>3. STypeOK'
  BY <1>1, <1>2 DEF SInv, STypeOK
<1>4. Connections'
  BY <1>1 DEF SInv, Connections, Queued, Served
<1>5. CASE typeQuit
  BY <1>1, <1>3, <1>4, <1>5
     DEF SInv, typeQuit, Conserved, WholeAtRun, RunsWholeCommands, Reading, Served
<1>6. CASE select
  <2>1. server = "select" /\ server' \in {"accept", "handleClients"}
    BY <1>6 DEF select
  <2>2. server' = "accept" => backlog # <<>>
    BY <1>6, ClientsAssumption DEF SInv, STypeOK, select, readable, watched, ToSet, Stdin, Listener
  <2>3. Conserved'
    BY <1>1, <2>1 DEF SInv, Conserved, Reading, Served
  <2>4. WholeAtRun' /\ RunsWholeCommands'
    BY <1>1, <2>1, <2>2 DEF SInv, WholeAtRun, RunsWholeCommands
  <2> QED BY <1>3, <1>4, <2>3, <2>4 DEF SInv
<1>7. CASE handleClients
  <2>1. server = "handleClients" /\ server' \in {"select", "stopped", "handleClients", "read"}
    BY <1>7 DEF handleClients, nextRound
  <2>2. server' = "read" => received' = 0 /\ it' = it /\ it \in DOMAIN clientSockets
    BY <1>7, <2>1 DEF SInv, STypeOK, handleClients, nextRound
  <2>3. Conserved'
    <3> SUFFICES ASSUME NEW c \in Clients
                 PROVE  /\ Reading(c)' => received' + unread[c] = sent[c]
                        /\ ~Reading(c)' /\ ~Served(c) => unread[c] = sent[c]
      BY <1>1 DEF SInv, Conserved, Served
    <3>1. ~Reading(c)
      BY <2>1 DEF Reading
    <3>2. Reading(c)' => ~Served(c)
      BY <1>1, <2>1, <2>2 DEF SInv, Connections, Reading, Queued
    <3> QED BY <2>1, <2>2, <3>1, <3>2 DEF SInv, STypeOK, Conserved, Reading
  <2>4. WholeAtRun' /\ RunsWholeCommands'
    BY <1>1, <2>1, <2>2 DEF SInv, WholeAtRun, RunsWholeCommands
  <2> QED BY <1>3, <1>4, <2>3, <2>4 DEF SInv
<1> QED BY <1>5, <1>6, <1>7

\* The accepted client goes from the backlog to clientSockets.
LEMMA AcceptKeeps ==
  ASSUME SInv, acceptClient PROVE SInv'
<1> USE DEF readVars
<1> DEFINE c == Head(backlog)
<1>1. /\ server = "accept" /\ server' \in {"select", "stopped"}
      /\ backlog # <<>> /\ backlog' = Tail(backlog) /\ clientSockets' = Append(clientSockets, c)
      /\ UNCHANGED <<client, sent, unread, it, received, ran>>
  BY DEF SInv, WholeAtRun, acceptClient, nextRound
<1>2. /\ c \in Clients /\ Queued(c, backlog)
      /\ backlog' \in Seq(Clients) /\ Distinct(backlog')
      /\ \A d \in Clients : Queued(d, backlog') <=> Queued(d, backlog) /\ d # c
  BY <1>1, TailQueue DEF SInv, STypeOK, Connections
<1> HIDE DEF c
<1>3. ~Queued(c, clientSockets) /\ ~Served(c) /\ client[c] # "start"
  BY <1>2 DEF SInv, Connections
<1>4. /\ clientSockets' \in Seq(Clients) /\ Distinct(clientSockets')
      /\ \A d \in Clients : Queued(d, clientSockets') <=> Queued(d, clientSockets) \/ d = c
  BY <1>1, <1>2, <1>3, AppendQueue DEF SInv, STypeOK, Connections
<1>5. STypeOK'
  BY <1>1, <1>2, <1>4 DEF SInv, STypeOK
<1>6. Connections'
  BY <1>1, <1>2, <1>3, <1>4 DEF SInv, Connections, Served
<1>7. Conserved'
  BY <1>1 DEF SInv, Conserved, Reading, Served
<1>8. WholeAtRun' /\ RunsWholeCommands'
  BY <1>1 DEF SInv, WholeAtRun, RunsWholeCommands
<1> QED BY <1>5, <1>6, <1>7, <1>8 DEF SInv

\* A read takes from what was sent and not yet read, up to the full buffer.
LEMMA ReadKeeps ==
  ASSUME SInv, readDataFromSocket PROVE SInv'
<1> USE DEF loopVars
<1> DEFINE c == clientSockets[it]
<1>1. /\ server = "read" /\ server' \in {"read", "run"}
      /\ UNCHANGED <<client, sent, backlog, clientSockets, it, ran>>
  BY DEF readDataFromSocket
<1>2. it \in DOMAIN clientSockets /\ c \in Clients
  BY <1>1 DEF SInv, STypeOK, WholeAtRun
<1>3. \/ /\ server' = "read"
         /\ \E res \in 1 .. unread[c] : /\ received' = received + res
                                        /\ unread' = [unread EXCEPT ![c] = @ - res]
      \/ /\ server' = "run" /\ UNCHANGED <<received, unread>>
         /\ (unread[c] = 0 /\ ended(c)) \/ ~moreToRead
  BY <1>1 DEF readDataFromSocket
<1> HIDE DEF c
<1>4. \A d \in Clients : d # c => unread'[d] = unread[d]
  BY <1>3 DEF SInv, STypeOK
<1>5. /\ received' \in Nat /\ unread' \in [Clients -> Nat]
      /\ received' + unread'[c] = received + unread[c]
  <2>1. received \in Nat /\ unread \in [Clients -> Nat] /\ unread[c] \in Nat
    BY <1>2 DEF SInv, STypeOK
  <2>2. ASSUME NEW res \in 1 .. unread[c], received' = received + res,
               unread' = [unread EXCEPT ![c] = @ - res]
        PROVE  received' \in Nat /\ unread' \in [Clients -> Nat] /\ unread'[c] = unread[c] - res
    <3>1. unread[c] - res \in Nat
      BY <2>1, <2>2
    <3> QED BY <1>2, <2>1, <2>2, <3>1
  <2> QED BY <1>3, <2>1, <2>2
<1>6. STypeOK'
  BY <1>1, <1>5 DEF SInv, STypeOK
<1>7. Connections' /\ RunsWholeCommands'
  BY <1>1 DEF SInv, Connections, RunsWholeCommands, Queued, Served
<1>8. \A d \in Clients : Reading(d)' <=> Reading(d)
  BY <1>1 DEF Reading
<1>9. \A d \in Clients : Reading(d) <=> d = c
  BY <1>1 DEF Reading, c
<1>10. Conserved'
  BY <1>1, <1>2, <1>4, <1>5, <1>8, <1>9 DEF SInv, Conserved, Served
<1>11. WholeAtRun'
  <2>1. ASSUME server' = "run", client[c] # "killed" PROVE received = CommandLength[c]
    <3>1. /\ received + unread[c] = sent[c] /\ sent[c] <= CommandLength[c]
          /\ client[c] = "exited" => sent[c] = CommandLength[c]
      BY <1>2, <1>9 DEF SInv, Conserved
    <3>2. MAX_BUF \in Nat /\ CommandLength[c] \in 1 .. MAX_BUF - 1
      BY <1>2, CommandsFit
    <3>3. received \in Nat /\ unread[c] \in Nat /\ sent[c] \in Nat
      BY <1>2 DEF SInv, STypeOK
    <3>4. CASE unread[c] = 0 /\ ended(c)
      BY <2>1, <3>1, <3>3, <3>4 DEF ended
    <3>5. CASE ~moreToRead
      <4>1. MAX_BUF - received - 1 <= 0
        BY <3>2, <3>3, <3>5 DEF moreToRead
      <4>2. CommandLength[c] <= MAX_BUF - 1 /\ CommandLength[c] \in Nat
        BY <3>2
      <4> QED BY <3>1, <3>2, <3>3, <4>1, <4>2
    <3> QED BY <1>3, <2>1, <3>4, <3>5
  <2>2. server' = "run" => UNCHANGED received
    BY <1>3
  <2> QED BY <1>1, <1>2, <2>1, <2>2 DEF WholeAtRun, c
<1> QED BY <1>6, <1>7, <1>10, <1>11 DEF SInv

\* The command is run and its socket closed.
LEMMA RunKeeps ==
  ASSUME SInv, run PROVE SInv'
<1> USE DEF kernel
<1> DEFINE c == clientSockets[it]
           entry == [client |-> c, bytes |-> received]
<1>1. /\ server = "run" /\ server' = "handleClients"
      /\ ran' = Append(ran, entry) /\ clientSockets' = RemoveAt(clientSockets, it)
      /\ UNCHANGED <<client, sent, unread, backlog, it, received>>
  BY DEF run
<1>2. it \in DOMAIN clientSockets /\ c \in Clients /\ Queued(c, clientSockets)
  BY <1>1 DEF SInv, STypeOK, WholeAtRun, Queued
<1>3. client[c] # "killed" => received = CommandLength[c]
  BY <1>1 DEF SInv, WholeAtRun
<1>4. /\ clientSockets' \in Seq(Clients) /\ Distinct(clientSockets')
      /\ \A d \in Clients : Queued(d, clientSockets') <=> Queued(d, clientSockets) /\ d # c
  BY <1>1, <1>2, RemoveQueue DEF SInv, STypeOK, Connections
<1> HIDE DEF c
<1>5. entry \in [client : Clients, bytes : Nat] /\ entry.client = c /\ entry.bytes = received
  BY <1>2 DEF SInv, STypeOK
<1> HIDE DEF entry
<1>6. /\ ran' \in Seq([client : Clients, bytes : Nat])
      /\ DOMAIN ran' = 1 .. Len(ran) + 1 /\ ran'[Len(ran) + 1] = entry
      /\ \A i \in DOMAIN ran : i \in DOMAIN ran' /\ ran'[i] = ran[i]
      /\ \A i \in DOMAIN ran' : i \in DOMAIN ran \/ i = Len(ran) + 1
  <2>1. ran \in Seq([client : Clients, bytes : Nat]) /\ ran' = Append(ran, entry)
    BY <1>1 DEF SInv, STypeOK
  <2> QED
    BY <1>5, <2>1, AppendOne
<1>7. \A d \in Clients : Served(d)' <=> Served(d) \/ d = c
  <2> TAKE d \in Clients
  <2>1. ASSUME Served(d) PROVE Served(d)'
    <3>1. PICK i \in DOMAIN ran : ran[i].client = d
      BY <2>1 DEF Served
    <3>2. i \in DOMAIN ran' /\ ran'[i].client = d
      BY <1>6, <3>1, Zenon
    <3> QED
      BY <3>2, Zenon DEF Served
  <2>2. ASSUME d = c PROVE Served(d)'
    <3>1. Len(ran) \in Nat
      BY DEF SInv, STypeOK
    <3>2. Len(ran) + 1 \in 1 .. Len(ran) + 1
      BY <3>1
    <3>3. Len(ran) + 1 \in DOMAIN ran' /\ ran'[Len(ran) + 1].client = d
      BY <1>5, <1>6, <2>2, <3>2, Zenon
    <3> QED
      BY <3>3, Zenon DEF Served
  <2>3. ASSUME Served(d)', d # c PROVE Served(d)
    <3>1. PICK i \in DOMAIN ran' : ran'[i].client = d
      BY <2>3, Zenon DEF Served
    <3>2. i \in DOMAIN ran
      BY <1>5, <1>6, <2>3, <3>1, Zenon
    <3>3. ran[i].client = d
      BY <1>6, <3>1, <3>2, Zenon
    <3> QED
      BY <3>2, <3>3 DEF Served
  <2> QED
    BY <2>1, <2>2, <2>3
<1>8. ~Served(c) /\ ~Queued(c, backlog) /\ client[c] # "start"
  BY <1>2 DEF SInv, Connections
<1>9. STypeOK'
  BY <1>1, <1>4, <1>6 DEF SInv, STypeOK
<1>10. Connections'
  BY <1>1, <1>4, <1>7, <1>8 DEF SInv, Connections
<1>11. Conserved'
  <2>1. \A d \in Clients : ~Reading(d)'
    BY <1>1 DEF Reading
  <2>2. \A d \in Clients : Reading(d) => d = c
    BY DEF Reading, c
  <2> QED BY <1>1, <1>7, <2>1, <2>2 DEF SInv, Conserved
<1>12. WholeAtRun'
  BY <1>1 DEF WholeAtRun
<1>13. RunsWholeCommands'
  <2>1. \A i \in DOMAIN ran : ran[i].client # c
    BY <1>8 DEF Served
  <2> QED BY <1>1, <1>3, <1>5, <1>6, <2>1 DEF SInv, RunsWholeCommands
<1> QED BY <1>9, <1>10, <1>11, <1>12, <1>13 DEF SInv

\* server.h and client.h: the inductive invariant.
THEOREM ServerInvariant == Spec => []SInv
<1>1. ASSUME SInv, [Next]_vars PROVE SInv'
  BY <1>1, SStutter, ClientKeeps, LoopKeeps, AcceptKeeps, ReadKeeps, RunKeeps
     DEF Next, serverStep
<1> QED BY <1>1, SInitial, PTL DEF Spec

\* However its bytes arrive, a command that fits the buffer is run whole unless
\* its client dies, and no client's command is run twice.
THEOREM CommandsRunWholeOnce == Spec => []RunsWholeCommands
  BY ServerInvariant, PTL DEF SInv
=============================================================================
