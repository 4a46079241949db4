------------------------------ MODULE Protocol ------------------------------
(***************************************************************************)
(* The messages on the daemon's socket: the message types of              *)
(* src/include/myqueue/protocol.h with their names (src/src/ipc/          *)
(* protocol.cpp), the frame both ends build and take apart in             *)
(* writeMessage/readMessage (src/src/ipc/ipc_server.cpp, ipc_client.cpp), *)
(* the JSON answers of the Server handlers the CLI commands reach, and    *)
(* the client-side decoders of protocol.cpp that turn an answer into what *)
(* an IPCClient call returns.                                             *)
(*                                                                         *)
(* A JSON value is a tagged record, as nlohmann::json is a tagged union:  *)
(* the tag is what contains(), is_string() and get<T>() look at.  A frame *)
(* is written and read whole; its 4-byte length header is left out, as no *)
(* message of the modelled commands comes near MAX_MESSAGE_SIZE.          *)
(***************************************************************************)
EXTENDS Naturals, Sequences, TLC

\* enum class MsgType : uint8_t.
MsgType ==
  [SUBMIT |-> 1, QUERY_QUEUE |-> 2, DELETE_TASK |-> 3, SHUTDOWN |-> 4,
   DELETE_ALL |-> 5, QUERY_QUEUE_ALL |-> 6, GET_TASK_INFO |-> 7,
   GET_TASK_LOG |-> 8, OK |-> 100, ERROR |-> 101]

\* msgTypeToString: the enumerator's name, "UNKNOWN" for any other value.
MsgTypeToString(t) ==
  IF \E s \in DOMAIN MsgType : MsgType[s] = t
  THEN CHOOSE s \in DOMAIN MsgType : MsgType[s] = t
  ELSE "UNKNOWN"

\* msgTypeFromString is defined on the names only; any other string
\* throws std::invalid_argument.
KnownType(s) == s \in DOMAIN MsgType
MsgTypeFromString(s) == MsgType[s]

JBool(b) == [tag |-> "boolean", val |-> b]
JNum(n)  == [tag |-> "number", val |-> n]
JStr(s)  == [tag |-> "string", val |-> s]
JArr(s)  == [tag |-> "array", val |-> s]
JObj(f)  == [tag |-> "object", val |-> f]
EmptyObj == JObj(<<>>)

\* json::contains: false on anything but an object.
Contains(j, key) == j.tag = "object" /\ key \in DOMAIN j.val

-----------------------------------------------------------------------------
(* Framing, the same at both ends.                                         *)

\* writeMessage: {"type": msgTypeToString(type), "payload": payload}; the
\* payload string is parsed back into JSON, so an object stays an object.
WriteMessage(type, payload) ==
  JObj("type" :> JStr(MsgTypeToString(type)) @@ "payload" :> payload)

\* readMessage succeeds on a frame with a "type" string naming a message
\* type: a missing type, a type that is not a string (get<std::string>
\* throws) or an unknown name makes it return false.
ReadOk(frame) ==
  /\ Contains(frame, "type")
  /\ frame.val["type"].tag = "string"
  /\ KnownType(frame.val["type"].val)

\* What readMessage stores in type and payload; a missing payload is "{}".
ReadMessage(frame) ==
  [type    |-> MsgTypeFromString(frame.val["type"].val),
   payload |-> IF Contains(frame, "payload") THEN frame.val["payload"]
               ELSE EmptyObj]

-----------------------------------------------------------------------------
(* The Server handlers that answer the modelled requests.  Every handler   *)
(* catches its own exceptions and answers with a JSON object, so           *)
(* handleClient always sends the answer as an OK frame.                    *)

\* handleSubmit: a request without script_path or workdir fails to parse;
\* a script or workdir that stat() does not find (exists = FALSE) is
\* refused; otherwise queue_->submit assigns the id, which the model names
\* by the request's workdir, distinct within a batch.
HandleSubmit(p, exists) ==
  IF Contains(p, "script_path") /\ Contains(p, "workdir") /\ exists
  THEN JObj("success" :> JBool(TRUE) @@ "task_id" :> JNum(p.val["workdir"].val))
  ELSE JObj("success" :> JBool(FALSE) @@ "error" :> JStr("refused"))

\* handleDelete: one result object {"id", "success"} per requested id,
\* success being the outcome of the terminate or deleteTask on the store
\* (ok[i]), and "error" next to a failure.
HandleDelete(p, ok) ==
  LET ids == p.val["task_ids"].val
      Result(i) ==
        IF ok[i] THEN JObj("id" :> ids[i] @@ "success" :> JBool(TRUE))
        ELSE JObj("id" :> ids[i] @@ "success" :> JBool(FALSE)
                  @@ "error" :> JStr("failed"))
  IN JObj("success" :> JBool(TRUE)
          @@ "results" :> JArr([i \in DOMAIN ids |-> Result(i)]))

\* handleShutdown answers success (and sets shutdown_requested_).
HandleShutdown ==
  JObj("success" :> JBool(TRUE) @@ "message" :> JStr("Server shutting down"))

\* The four counters of DeleteAllResponse.
DeleteAllFields ==
  <<"deleted_count", "running_terminated", "pending_deleted",
    "completed_deleted">>

\* handleDeleteAll answers DeleteAllResponse::toJson of its counters: per
\* kind, the tasks whose terminate or deleteTask succeeded, and their sum.
\* The counts range over a store of at most one task.
HandleDeleteAll(r, pd, cd) ==
  JObj(DeleteAllFields[1] :> JNum(r + pd + cd) @@ DeleteAllFields[2] :> JNum(r)
       @@ DeleteAllFields[3] :> JNum(pd) @@ DeleteAllFields[4] :> JNum(cd))

\* Server::handleRequest: the answers the handler may give to a request,
\* over what the store and the file system hold.  A DELETE_TASK request
\* without task_ids fails to parse.
HandleRequest(type, p) ==
  CASE type = MsgType.SUBMIT ->
         {HandleSubmit(p, exists) : exists \in BOOLEAN}
    [] type = MsgType.DELETE_TASK /\ Contains(p, "task_ids") ->
         {HandleDelete(p, ok) : ok \in [DOMAIN p.val["task_ids"].val -> BOOLEAN]}
    [] type = MsgType.DELETE_TASK ->
         {JObj("success" :> JBool(FALSE) @@ "error" :> JStr("parse"))}
    [] type = MsgType.SHUTDOWN -> {HandleShutdown}
    [] type = MsgType.DELETE_ALL ->
         {HandleDeleteAll(c[1], c[2], c[3]) :
            c \in {c \in (0 .. 1) \X (0 .. 1) \X (0 .. 1) : c[1] + c[2] + c[3] <= 1}}
    [] OTHER -> {JObj("success" :> JBool(FALSE)
                      @@ "error" :> JStr("Unknown message type"))}

-----------------------------------------------------------------------------
(* The IPCClient calls: what each returns once sendRequest has a frame.    *)

\* std::nullopt of submit().
NoId == 0

\* SubmitResponse::fromJson: "task_id" is required and get<uint64_t>
\* throws on a value that is not a number; a throw is a failure here.
SubmitResponseFromJson(p) ==
  IF Contains(p, "task_id") /\ p.val["task_id"].tag = "number"
  THEN p.val["task_id"].val
  ELSE NoId

\* IPCClient::submit: an ERROR frame, or an answer SubmitResponse cannot
\* parse, gives std::nullopt.
SubmitResult(rtype, p) ==
  IF rtype = MsgType.ERROR THEN NoId ELSE SubmitResponseFromJson(p)

\* DeleteResponse::fromJson: "results" is required and is taken with
\* get<std::vector<bool>>(), which throws unless it is an array of
\* booleans.
DeleteResponseParses(p) ==
  /\ Contains(p, "results")
  /\ p.val["results"].tag = "array"
  /\ \A i \in DOMAIN p.val["results"].val :
       p.val["results"].val[i].tag = "boolean"

\* The vector<bool> it returns when it parses.
DeleteResponseFromJson(p) ==
  [i \in DOMAIN p.val["results"].val |-> p.val["results"].val[i].val]

\* IPCClient::deleteTasks: an ERROR frame or a DeleteResponse that does
\* not parse gives an empty vector.
DeleteResults(rtype, p) ==
  IF rtype = MsgType.ERROR \/ ~DeleteResponseParses(p) THEN <<>>
  ELSE DeleteResponseFromJson(p)

\* DeleteAllResponse::fromJson reads each counter with j.value(key, 0):
\* an absent counter is 0, a present one that is not a number throws.
DeleteAllResponseParses(p) ==
  /\ p.tag = "object"
  /\ \A i \in DOMAIN DeleteAllFields :
       Contains(p, DeleteAllFields[i]) => p.val[DeleteAllFields[i]].tag = "number"

DeleteAllResponseFromJson(p) ==
  [i \in DOMAIN DeleteAllFields |->
     IF Contains(p, DeleteAllFields[i]) THEN p.val[DeleteAllFields[i]].val ELSE 0]

\* std::nullopt of deleteAll().
NoCounts == <<>>

\* IPCClient::deleteAll: an ERROR frame or an answer that does not parse
\* gives std::nullopt, otherwise the four counters.
DeleteAllResult(rtype, p) ==
  IF rtype = MsgType.ERROR \/ ~DeleteAllResponseParses(p) THEN NoCounts
  ELSE DeleteAllResponseFromJson(p)

\* IPCClient::shutdown: true iff the answer is an OK frame.
ShutdownResult(rtype) == rtype = MsgType.OK

=============================================================================
