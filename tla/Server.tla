------------------------------- MODULE Server -------------------------------
(***************************************************************************)
(* The command server of Project-Ex5 (server.h, socket.h) and its clients  *)
(* (client.h). The server is one thread around select; each client is a    *)
(* process of its own that connects, writes its command and exits.         *)
(*                                                                         *)
(* A command is a number of bytes, which arrive in pieces. The model keeps *)
(* to commands that fit into the buffer with their terminator: a longer    *)
(* one is not stopped by readDataFromSocket, which reads len bytes and not *)
(* len - 1. Calls that fail end the process (panic) and are left out, but  *)
(* for a client that dies, which the server sees as an early end.          *)
(*                                                                         *)
(* External: the kernel's queue of connections and its socket buffers.     *)
(***************************************************************************)
EXTENDS Naturals, Sequences, SequencesExt

CONSTANTS
  Clients,
  MAX_BUF,            \* the size of cmdToRun
  CommandLength,      \* client -> the bytes of its command
  DEFAULT_BACKLOG

ASSUME CommandsFit == MAX_BUF \in Nat /\ CommandLength \in [Clients -> 1 .. MAX_BUF - 1]

\* What select watches besides the clients.
Stdin == "stdin"
Listener == "listener"

ASSUME ClientsAssumption == Stdin \notin Clients /\ Listener \notin Clients

VARIABLES
  client,         \* client -> "start", "connected", "exited" or "killed"
  sent,           \* client -> the bytes it has written
  backlog,        \* connections that the server has not accepted
  clientSockets,  \* connections accepted and not yet handled, in order
  unread,         \* client -> bytes that wait in its connection
  quit,           \* whether "quit" waits on the standard input
  running,
  readfdSet,      \* what select said was ready
  server,         \* where the server is
  it,             \* the position of handleClients in clientSockets
  received,       \* the bytes that readDataFromSocket has got
  ran             \* history: the commands run: the client, and the bytes of it

kernel == <<client, sent, backlog, unread, quit>>
loopVars == <<clientSockets, running, readfdSet>>
readVars == <<received, ran>>
vars == <<kernel, loopVars, server, it, readVars>>

Init ==
  /\ client = [c \in Clients |-> "start"]
  /\ sent = [c \in Clients |-> 0]
  /\ backlog = <<>>
  /\ clientSockets = <<>>
  /\ unread = [c \in Clients |-> 0]
  /\ quit = FALSE
  /\ running = TRUE
  /\ readfdSet = {}
  /\ server = "select"
  /\ it = 1
  /\ received = 0
  /\ ran = <<>>

ended(c) == client[c] \in {"exited", "killed"}
-----------------------------------------------------------------------------
(* The clients and the user *)

serverVars == <<loopVars, server, it, readVars>>

connect(c) ==
  /\ client[c] = "start" /\ server # "stopped" /\ Len(backlog) < DEFAULT_BACKLOG
  /\ client' = [client EXCEPT ![c] = "connected"]
  /\ backlog' = Append(backlog, c)
  /\ UNCHANGED <<sent, unread, quit, serverVars>>

\* writeDataToSocket: a write may take any part of what is left.
writeDataToSocket(c) ==
  /\ client[c] = "connected"
  /\ \E res \in 1 .. CommandLength[c] - sent[c] :
       /\ sent' = [sent EXCEPT ![c] = @ + res]
       /\ unread' = [unread EXCEPT ![c] = @ + res]
  /\ UNCHANGED <<client, backlog, quit, serverVars>>

exit(c) ==
  /\ client[c] = "connected" /\ sent[c] = CommandLength[c]
  /\ client' = [client EXCEPT ![c] = "exited"]
  /\ UNCHANGED <<sent, backlog, unread, quit, serverVars>>

\* The client's process dies before it has written everything.
kill(c) ==
  /\ client[c] = "connected" /\ sent[c] < CommandLength[c]
  /\ client' = [client EXCEPT ![c] = "killed"]
  /\ UNCHANGED <<sent, backlog, unread, quit, serverVars>>

typeQuit ==
  /\ ~quit /\ server # "stopped"
  /\ quit' = TRUE
  /\ UNCHANGED <<client, sent, backlog, unread, serverVars>>

clientStep(c) == connect(c) \/ writeDataToSocket(c) \/ exit(c)
-----------------------------------------------------------------------------
(* The server *)

\* Mistake: the descriptors are not set again after select has cleared them.
watchedOnlyListener == {}
watched == ToSet(clientSockets)

readable ==
  (IF quit THEN {Stdin} ELSE {})
    \union (IF backlog # <<>> THEN {Listener} ELSE {})
    \union {c \in watched : unread[c] > 0 \/ ended(c)}

nextRound == IF running' THEN "select" ELSE "stopped"

\* updateSelectParams, select, and the line from the standard input, where every
\* line other than "quit" is left out: it changes nothing.
select ==
  /\ server = "select" /\ readable # {}
  /\ readfdSet' = readable
  /\ running' = (Stdin \notin readable)
  /\ quit' = (quit /\ Stdin \notin readable)
  /\ server' = IF Listener \in readable THEN "accept" ELSE "handleClients"
  /\ it' = 1
  /\ UNCHANGED <<client, sent, backlog, unread, clientSockets, readVars>>

acceptClient ==
  /\ server = "accept"
  /\ clientSockets' = Append(clientSockets, Head(backlog))
  /\ backlog' = Tail(backlog)
  /\ UNCHANGED running
  /\ server' = nextRound
  /\ UNCHANGED <<client, sent, unread, quit, readfdSet, it, readVars>>

handleClients ==
  /\ server = "handleClients"
  /\ UNCHANGED running
  /\ \/ /\ it > Len(clientSockets) /\ server' = nextRound
        /\ UNCHANGED <<it, received>>
     \/ /\ it <= Len(clientSockets) /\ clientSockets[it] \notin readfdSet
        /\ it' = it + 1
        /\ UNCHANGED <<server, received>>
     \/ /\ it <= Len(clientSockets) /\ clientSockets[it] \in readfdSet
        /\ server' = "read" /\ received' = 0
        /\ UNCHANGED it
  /\ UNCHANGED <<kernel, clientSockets, readfdSet, ran>>

\* Mistake: one read is taken for the whole command.
moreToReadOnce == received = 0
moreToRead == MAX_BUF - received - 1 > 0

\* readDataFromSocket: each read waits until there are bytes, or no more to come.
readDataFromSocket ==
  /\ server = "read"
  /\ LET c == clientSockets[it]
     IN \/ /\ moreToRead /\ unread[c] > 0
           /\ \E res \in 1 .. unread[c] :
                /\ res <= MAX_BUF - received
                /\ received' = received + res
                /\ unread' = [unread EXCEPT ![c] = @ - res]
           /\ UNCHANGED server
        \/ /\ moreToRead /\ unread[c] = 0 /\ ended(c)
           /\ server' = "run"
           /\ UNCHANGED <<received, unread>>
        \/ ~moreToRead /\ server' = "run" /\ UNCHANGED <<received, unread>>
  /\ UNCHANGED <<client, sent, backlog, quit, loopVars, it, ran>>

\* system(), the end of handleClient, and the erase that closes the socket. A
\* client that sent nothing leaves the buffer as it was, and it is run.
run ==
  /\ server = "run"
  /\ ran' = Append(ran, [client |-> clientSockets[it], bytes |-> received])
  /\ clientSockets' = RemoveAt(clientSockets, it)
  /\ server' = "handleClients"
  /\ UNCHANGED <<kernel, running, readfdSet, it, received>>

serverStep == select \/ acceptClient \/ handleClients \/ readDataFromSocket \/ run

Next ==
  \/ serverStep
  \/ \E c \in Clients : clientStep(c) \/ kill(c)
  \/ typeQuit

Spec == Init /\ [][Next]_vars

\* The kernel runs the server and the clients; nobody has to die or to quit.
FairSpec == Spec /\ WF_vars(serverStep) /\ \A c \in Clients : WF_vars(clientStep(c))
-----------------------------------------------------------------------------
(* Properties *)

\* However a command is cut on its way, it is run whole, unless its client died;
\* and once, although select reports a connection again and again.
RunsWholeCommands ==
  /\ \A i \in DOMAIN ran :
       client[ran[i].client] # "killed" => ran[i].bytes = CommandLength[ran[i].client]
  /\ \A i, j \in DOMAIN ran : ran[i].client = ran[j].client => i = j

\* Every client that has connected is served unless the user quits: the select
\* loop forgets none, and a client that is slow or dies does not stop it.
EveryClientServed ==
  \A c \in Clients :
    client[c] # "start" ~> server = "stopped" \/ \E i \in DOMAIN ran : ran[i].client = c
=============================================================================
