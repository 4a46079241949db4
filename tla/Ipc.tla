-------------------------------- MODULE Ipc --------------------------------
(***************************************************************************)
(* The daemon's request path and its shutdown: IPCServer (src/src/ipc/    *)
(* ipc_server.cpp) with its accept thread and one handler thread per      *)
(* connection, the IPCClient of the CLI (src/src/ipc/ipc_client.cpp), the *)
(* CLI commands that use one connection ("myqueue submit -ws", a batch of *)
(* SUBMITs, "myqueue delete <id>", one DELETE_TASK, and "myqueue stop",   *)
(* one SHUTDOWN), and the main thread's                                   *)
(* Server::run / Server::stop (src/src/core/server.cpp).                  *)
(*                                                                         *)
(* A connection is a pair of byte streams; every frame (length header and *)
(* JSON body) is written and read whole, so a stream is a sequence of     *)
(* frames, built and decoded as module Protocol says.  What the handler   *)
(* does to the task store is modelled in MyQueue; here it is one step     *)
(* whose outcome is any the store could give.                             *)
(***************************************************************************)
EXTENDS Naturals, Sequences, FiniteSets, Protocol

CONSTANTS
  Submitters,   \* CLI processes running a batch submit
  Stoppers,     \* CLI processes running "myqueue stop"
  Deleters,     \* CLI processes running "myqueue delete <id>"
  Batch         \* bound: directories in a batch submit

Conns == Submitters \cup Stoppers \cup Deleters

VARIABLES
  running,      \* IPCServer::running_
  listening,    \* server_fd_ is open: connect() succeeds
  shutdownReq,  \* Server::shutdown_requested_
  main,         \* pc of the main thread in Server::run / Server::stop
  acc,          \* accept thread: [pc, conn]
  backlog,      \* connections the kernel completed, not yet accepted
  handler,      \* handler[k]: pc of the thread serving connection k
  cur,          \* cur[k]: the request (type, payload) that thread serves
  c2s, s2c,     \* the two streams of each connection
  cl,           \* cl[k]: [pc, n] of CLI process k, n = requests sent
  got           \* got[k]: what each of k's requests returned (0: failed)

vars == <<running, listening, shutdownReq, main, acc, backlog, handler, cur,
          c2s, s2c, cl, got>>

\* The requests a CLI process sends on its connection: one per directory
\* of a batch submit, one for "myqueue stop" and "myqueue delete".
Sends(k) == IF k \in Submitters THEN Batch ELSE 1

\* The IPCClient call k's command makes, by the message type it sends:
\* "myqueue delete all" calls deleteAll(), "myqueue delete <id>"
\* deleteTasks().
Calls(k) ==
  CASE k \in Stoppers -> {MsgType.SHUTDOWN}
    [] k \in Deleters -> {MsgType.DELETE_TASK, MsgType.DELETE_ALL}
    [] OTHER         -> {MsgType.SUBMIT}

ReqType(k) == cl[k].call

\* SubmitRequest::toJson for the n-th directory of the batch (ncpu, ngpu,
\* the core and GPU lists and log_file do not change the answer here).
SubmitPayload(n) ==
  JObj("script_path" :> JStr("job.sh") @@ "workdir" :> JNum(n))

\* DeleteRequest::toJson of the ids parsed from the command line.
DeletePayload == JObj("task_ids" :> JArr(<<JNum(1)>>))

\* The payload of the n-th request of a call: deleteAll() and shutdown()
\* send "{}".
Payload(t, n) ==
  CASE t = MsgType.SUBMIT      -> SubmitPayload(n)
    [] t = MsgType.DELETE_TASK -> DeletePayload
    [] OTHER                 -> EmptyObj

\* What the IPCClient call returns for an answer it read, and when
\* sendRequest fails.
Decode(k, m) ==
  CASE ReqType(k) = MsgType.SUBMIT      -> SubmitResult(m.type, m.payload)
    [] ReqType(k) = MsgType.DELETE_TASK -> DeleteResults(m.type, m.payload)
    [] ReqType(k) = MsgType.DELETE_ALL  -> DeleteAllResult(m.type, m.payload)
    [] OTHER                          -> ShutdownResult(m.type)

\* Mutation: shutdown() returns true once the request is written, without
\* looking at the answer.
FailedStopSent(k) ==
  CASE ReqType(k) = MsgType.SUBMIT      -> NoId
    [] ReqType(k) = MsgType.DELETE_TASK -> <<>>
    [] ReqType(k) = MsgType.DELETE_ALL  -> NoCounts
    [] OTHER                          -> TRUE

Failed(k) ==
  CASE ReqType(k) = MsgType.SUBMIT      -> NoId
    [] ReqType(k) = MsgType.DELETE_TASK -> <<>>
    [] ReqType(k) = MsgType.DELETE_ALL  -> NoCounts
    [] OTHER                          -> FALSE

\* Before its first request a handler thread serves nothing.
NoRequest == [type |-> 0, payload |-> EmptyObj]

\* The server's end of k is gone: its thread closed it, or the listening
\* socket was closed with k still in the backlog.
ServerClosed(k) == handler[k] = "closed"

\* IPCServer::start: bind, listen, running_ = true, accept thread started.
Init ==
  /\ running = TRUE
  /\ listening = TRUE
  /\ shutdownReq = FALSE
  /\ main = "run"
  /\ acc = [pc |-> "poll", conn |-> CHOOSE k \in Conns : TRUE]
  /\ backlog = {}
  /\ handler = [k \in Conns |-> "none"]
  /\ cur = [k \in Conns |-> NoRequest]
  /\ c2s = [k \in Conns |-> <<>>]
  /\ s2c = [k \in Conns |-> <<>>]
  /\ \E call \in [Conns -> UNION {Calls(k) : k \in Conns}] :
       /\ \A k \in Conns : call[k] \in Calls(k)
       /\ cl = [k \in Conns |-> [pc |-> "connect", n |-> 0, call |-> call[k]]]
  /\ got = [k \in Conns |-> <<>>]

-----------------------------------------------------------------------------
(* The CLI (IPCClient and the command around it).                         *)

\* IPCClient::connect: succeeds while the socket listens, before any
\* accept(); otherwise "Server is not running".
ClientConnect(k) ==
  /\ cl[k].pc = "connect"
  /\ IF listening
     THEN /\ backlog' = backlog \cup {k}
          /\ cl' = [cl EXCEPT ![k].pc = "send"]
     ELSE /\ cl' = [cl EXCEPT ![k].pc = "done"]
          /\ UNCHANGED backlog
  /\ UNCHANGED <<running, listening, shutdownReq, main, acc, handler, cur,
                 c2s, s2c, got>>

\* IPCClient::writeMessage: the frame goes into the socket buffer.  To a
\* peer that has closed, write() raises SIGPIPE, which the CLI does not
\* ignore: the process dies.
ClientSend(k) ==
  /\ cl[k].pc = "send"
  /\ IF ServerClosed(k)
     THEN /\ cl' = [cl EXCEPT ![k].pc = "done"]
          /\ UNCHANGED c2s
     ELSE /\ c2s' = [c2s EXCEPT ![k] =
                    Append(@, WriteMessage(ReqType(k), Payload(ReqType(k), cl[k].n + 1)))]
          /\ cl' = [cl EXCEPT ![k].pc = "recv", ![k].n = @ + 1]
  /\ UNCHANGED <<running, listening, shutdownReq, main, acc, backlog, handler,
                 cur, s2c, got>>

\* Mutation: the command loop runs once too often (n <= Sends(k)).
ClientNextOffByOne(k, result) ==
  /\ got' = [got EXCEPT ![k] = Append(@, result)]
  /\ cl' = [cl EXCEPT ![k].pc = IF cl[k].n <= Sends(k) THEN "send" ELSE "done"]

\* The command records the result of its request and goes on with the
\* next one on the same connection; after the last it exits, closing it.
ClientNext(k, result) ==
  /\ got' = [got EXCEPT ![k] = Append(@, result)]
  /\ cl' = [cl EXCEPT ![k].pc = IF cl[k].n < Sends(k) THEN "send" ELSE "done"]

\* IPCClient::readMessage takes the next frame on the stream as the
\* answer to the request just sent, and the call decodes it.
ClientRecv(k) ==
  /\ cl[k].pc = "recv"
  /\ s2c[k] # <<>>
  /\ ClientNext(k, IF ReadOk(Head(s2c[k]))
                   THEN Decode(k, ReadMessage(Head(s2c[k])))
                   ELSE Failed(k))
  /\ s2c' = [s2c EXCEPT ![k] = Tail(@)]
  /\ UNCHANGED <<running, listening, shutdownReq, main, acc, backlog, handler,
                 cur, c2s>>

\* readExact fails: end of stream once the server closed its end, or
\* SO_RCVTIMEO (30 s) expires first, however late the answer will be.
\* sendRequest returns false and leaves the connection open.
ClientReadFails(k) ==
  /\ cl[k].pc = "recv"
  /\ s2c[k] = <<>>
  /\ ClientNext(k, Failed(k))
  /\ UNCHANGED <<running, listening, shutdownReq, main, acc, backlog, handler,
                 cur, c2s, s2c>>

-----------------------------------------------------------------------------
(* IPCServer: the accept thread and the handler threads.                   *)

\* acceptLoop: while (running_) poll(100 ms) and accept one connection.
AcceptPoll ==
  /\ acc.pc = "poll"
  /\ IF running
     THEN \E k \in backlog :
            /\ acc' = [pc |-> "spawn", conn |-> k]
            /\ backlog' = backlog \ {k}
     ELSE /\ acc' = [acc EXCEPT !.pc = "exited"]
          /\ UNCHANGED backlog
  /\ UNCHANGED <<running, listening, shutdownReq, main, handler, cur, c2s,
                 s2c, cl, got>>

\* Under clients_mutex_, start handleClient(client_fd) in a new thread.
AcceptSpawn ==
  /\ acc.pc = "spawn"
  /\ handler' = [handler EXCEPT ![acc.conn] = "loop"]
  /\ acc' = [acc EXCEPT !.pc = "poll"]
  /\ UNCHANGED <<running, listening, shutdownReq, main, backlog, cur, c2s,
                 s2c, cl, got>>

\* handleClient: while (running_) ...; on leaving the loop, close(fd).
HandlerLoop(k) ==
  /\ handler[k] = "loop"
  /\ handler' = [handler EXCEPT ![k] = IF running THEN "read" ELSE "closed"]
  /\ UNCHANGED <<running, listening, shutdownReq, main, acc, backlog, cur,
                 c2s, s2c, cl, got>>

\* readMessage takes a whole frame; one it cannot decode ends the loop.
HandlerRead(k) ==
  /\ handler[k] = "read"
  /\ c2s[k] # <<>>
  /\ IF ReadOk(Head(c2s[k]))
     THEN /\ cur' = [cur EXCEPT ![k] = ReadMessage(Head(c2s[k]))]
          /\ handler' = [handler EXCEPT ![k] = "serve"]
     ELSE /\ handler' = [handler EXCEPT ![k] = "closed"]
          /\ UNCHANGED cur
  /\ c2s' = [c2s EXCEPT ![k] = Tail(@)]
  /\ UNCHANGED <<running, listening, shutdownReq, main, acc, backlog, s2c,
                 cl, got>>

\* Mutation: the handler's socket has no receive timeout; only data or the
\* client's close ends a read.
ServerReadFailsNoTimeout(k) ==
  /\ handler[k] = "read"
  /\ c2s[k] = <<>>
  /\ cl[k].pc = "done"
  /\ handler' = [handler EXCEPT ![k] = "closed"]
  /\ UNCHANGED <<running, listening, shutdownReq, main, acc, backlog, cur,
                 c2s, s2c, cl, got>>

\* readExact fails: the client closed (read returns 0), or nothing came
\* within the 30 s SO_RCVTIMEO set at the top of handleClient.  The loop
\* breaks and the connection is closed.
ServerReadFails(k) ==
  /\ handler[k] = "read"
  /\ c2s[k] = <<>>
  /\ handler' = [handler EXCEPT ![k] = "closed"]
  /\ UNCHANGED <<running, listening, shutdownReq, main, acc, backlog, cur,
                 c2s, s2c, cl, got>>

\* Server::handleRequest switches on the message type; only SHUTDOWN
\* reaches handleShutdown, which sets shutdown_requested_ for Server::run
\* to see, and only SHUTDOWN ends the handler's loop after the answer.
IsShutdown(k) == cur[k].type = MsgType.SHUTDOWN

\* handler_(type, payload), i.e. Server::handleRequest, which for a SHUTDOWN
\* sets shutdown_requested_ (IsShutdown).  Then writeMessage, which fails
\* once the client has closed (EPIPE; the daemon ignores SIGPIPE).  A
\* failed write or a SHUTDOWN request ends the loop.
HandlerServe(k) ==
  /\ handler[k] = "serve"
  /\ shutdownReq' = (shutdownReq \/ IsShutdown(k))
  /\ \E resp \in HandleRequest(cur[k].type, cur[k].payload) :
       IF cl[k].pc = "done"
       THEN UNCHANGED s2c
       ELSE s2c' = [s2c EXCEPT ![k] = Append(@, WriteMessage(MsgType.OK, resp))]
  /\ handler' = [handler EXCEPT ![k] =
                   IF cl[k].pc = "done" \/ IsShutdown(k) THEN "closed"
                   ELSE "loop"]
  /\ UNCHANGED <<running, listening, main, acc, backlog, cur, c2s, cl, got>>

-----------------------------------------------------------------------------
(* The main thread.                                                        *)

\* Server::run: sleep in 100 ms steps while running_ and not
\* shutdown_requested_, then stop().
MainRun ==
  /\ main = "run"
  /\ shutdownReq
  /\ main' = "stop"
  /\ UNCHANGED <<running, listening, shutdownReq, acc, backlog, handler, cur,
                 c2s, s2c, cl, got>>

\* SIGTERM or SIGINT taken on the main thread: signalHandler calls stop()
\* from the sleep of the run loop, which sets shutdown_requested_ first.
\* Once that flag is set, a signal does what the loop does next anyway.
Signal ==
  /\ main = "run"
  /\ ~shutdownReq
  /\ main' = "stop"
  /\ shutdownReq' = TRUE
  /\ UNCHANGED <<running, listening, acc, backlog, handler, cur, c2s, s2c,
                 cl, got>>

\* Mutation: IPCServer::stop does not join the accept thread.
IpcStopNoAcceptJoin ==
  /\ main = "stop"
  /\ running' = FALSE
  /\ listening' = FALSE
  /\ backlog' = {}
  /\ handler' = [k \in Conns |-> IF k \in backlog THEN "closed" ELSE handler[k]]
  /\ main' = "join_clients"
  /\ UNCHANGED <<shutdownReq, acc, cur, c2s, s2c, cl, got>>

\* IPCServer::stop clears running_ and shuts down and closes the listening
\* socket, which resets the connections still in its backlog.
IpcStop ==
  /\ main = "stop"
  /\ running' = FALSE
  /\ listening' = FALSE
  /\ backlog' = {}
  /\ handler' = [k \in Conns |-> IF k \in backlog THEN "closed" ELSE handler[k]]
  /\ main' = "join_accept"
  /\ UNCHANGED <<shutdownReq, acc, cur, c2s, s2c, cl, got>>

\* accept_thread_.join().
JoinAccept ==
  /\ main = "join_accept"
  /\ acc.pc = "exited"
  /\ main' = "join_clients"
  /\ UNCHANGED <<running, listening, shutdownReq, acc, backlog, handler, cur,
                 c2s, s2c, cl, got>>

\* Under clients_mutex_ join every client thread, clear the list and
\* unlink the socket; then Scheduler::stop and the final TaskQueue::save,
\* and run() returns.
JoinClients ==
  /\ main = "join_clients"
  /\ \A k \in Conns : handler[k] \in {"none", "closed"}
  /\ main' = "exited"
  /\ UNCHANGED <<running, listening, shutdownReq, acc, backlog, handler, cur,
                 c2s, s2c, cl, got>>

-----------------------------------------------------------------------------
ClientStep(k) ==
  \/ ClientConnect(k) \/ ClientSend(k) \/ ClientRecv(k) \/ ClientReadFails(k)

HandlerStep(k) ==
  \/ HandlerLoop(k) \/ HandlerRead(k) \/ ServerReadFails(k) \/ HandlerServe(k)

MainStep == MainRun \/ IpcStop \/ JoinAccept \/ JoinClients

Next ==
  \/ MainStep \/ Signal
  \/ AcceptPoll \/ AcceptSpawn
  \/ \E k \in Conns : HandlerStep(k) \/ ClientStep(k)

\* The daemon's threads are scheduled fairly, and the kernel's receive
\* timer fires on a read that waits long enough.  A CLI process gets no
\* fairness: it may be stopped or hang with its connection open.
Fairness ==
  /\ WF_vars(MainStep)
  /\ WF_vars(AcceptPoll \/ AcceptSpawn)
  /\ \A k \in Conns : WF_vars(HandlerStep(k))

Spec == Init /\ [][Next]_vars /\ Fairness

-----------------------------------------------------------------------------
\* The frames the CLI processes write, and the answers to them.
Requests ==
  {WriteMessage(t, Payload(t, n)) : t \in UNION {Calls(k) : k \in Conns}, n \in 1 .. Batch}
Answers ==
  {WriteMessage(MsgType.OK, r) :
     r \in UNION {HandleRequest(ReadMessage(f).type, ReadMessage(f).payload) :
                   f \in Requests}}

TypeOK ==
  /\ running \in BOOLEAN /\ listening \in BOOLEAN /\ shutdownReq \in BOOLEAN
  /\ main \in {"run", "stop", "join_accept", "join_clients", "exited"}
  /\ acc \in [pc : {"poll", "spawn", "exited"}, conn : Conns]
  /\ backlog \subseteq Conns
  /\ handler \in [Conns -> {"none", "loop", "read", "serve", "closed"}]
  /\ cur \in [Conns -> {NoRequest} \cup {ReadMessage(f) : f \in Requests}]
  /\ c2s \in [Conns -> Seq(Requests)]
  /\ s2c \in [Conns -> Seq(Answers)]
  /\ cl \in [Conns -> [pc : {"connect", "send", "recv", "done"}, n : 0 .. Batch,
                       call : UNION {Calls(k) : k \in Conns}]]
  /\ \A k \in Submitters : got[k] \in Seq(0 .. Batch)
  /\ \A k \in Deleters :
       got[k] \in Seq(IF ReqType(k) = MsgType.DELETE_ALL THEN {NoCounts} \cup [1 .. 4 -> 0 .. 1]
                     ELSE Seq(BOOLEAN))
  /\ \A k \in Stoppers : got[k] \in Seq(BOOLEAN)

\* IPCServer::stop joins the accept thread before the client threads, so
\* when Server::stop goes on to stop the scheduler and save the store no
\* thread is left that could still accept a connection or serve a
\* request against a store that is being torn down.
NoHandlerOutlivesStop ==
  main = "exited" =>
    /\ acc.pc = "exited"
    /\ \A k \in Conns : handler[k] \in {"none", "closed"}

\* A shutdown, asked for by "myqueue stop" or by a signal, ends with
\* Server::run returning, even when a CLI process hangs with its
\* connection open: its handler's read times out.
StopCompletes == shutdownReq ~> (main = "exited")

\* Every answer the CLI takes for a request is the server's answer to that
\* request (spec section 7: one response per request).
ResponseMatchesRequest ==
  \A k \in Submitters : \A i \in DOMAIN got[k] : got[k][i] \in {NoId, i}

\* "myqueue stop" reports the shutdown as sent (IPCClient::shutdown
\* returns true) only when the daemon has taken it: shutdown_requested_ is
\* set, so Server::run will stop.  The CLI's read may time out before the
\* answer comes, and the answer may come after the handler set the flag;
\* the report must never run ahead of the daemon.
StopAcknowledgedMeansStopping ==
  \A k \in Stoppers : (\E i \in DOMAIN got[k] : got[k][i]) => shutdownReq

=============================================================================
