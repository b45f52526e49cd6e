----------------------------- MODULE HttpServer -----------------------------
(***************************************************************************)
(* src/cli/shell.cpp, src/src/httpd_main.cpp and src/src/http: the life of *)
(* one database file.  A shell runs statements on it; then the HTTP server *)
(* opens it, replays the schema file and serves SELECTs, one connection at *)
(* a time, until another thread or a signal handler calls Stop; then a     *)
(* shell opens it again.                                                   *)
(*                                                                         *)
(* A request is what ParseRequestLine and GetQueryParam make of the bytes  *)
(* of a client, sent in full, cut off by its hanging up, or past 64 KiB.   *)
(***************************************************************************)
EXTENDS SQLDatabase

CONSTANTS
  Client,
  Nobody,       \* no client
  Statements,   \* what is typed in the shell
  SchemaLines,  \* the statements of the schema file
  Requests      \* what each client may send

\* A CREATE TABLE brings its schema along; the parser makes a list of literals
\* of the VALUES of an INSERT.
ASSUME StatementsAssumption ==
  /\ SchemaLines \in Seq(Range(SchemaLines))
  /\ \A s \in Statements \cup Range(SchemaLines) :
       /\ s.kind = "CREATE" => s.table \in Name
       /\ s.kind = "INSERT" => s.values \in Seq(Value)

VARIABLES
  phase,    \* which program has the file open, and how far it is
  line,     \* the next line of RunSchemaFile
  running,  \* running_
  at,       \* where HttpServer::Run is
  backlog,  \* the connections that wait for accept
  fd,       \* client_fd: the connection being handled, if any
  peer,     \* what each client has done
  sent,     \* the request each client has sent
  reply     \* the response each client was written

httpvars == <<phase, line, running, at, backlog, fd, peer, sent, reply>>
vars == <<dbvars, httpvars>>

NoRequest == [method |-> "none"]
NoReply == [status |-> 0]
Request(method, path, sql) == [method |-> method, path |-> path, sql |-> sql]

NewProcess(p) ==
  /\ phase' = p /\ line' = 1 /\ running' = TRUE /\ at' = "while"
  /\ backlog' = <<>> /\ fd' = Nobody
  /\ peer' = [c \in Client |-> "away"]
  /\ sent' = [c \in Client |-> NoRequest]
  /\ reply' = [c \in Client |-> NoReply]

Init ==
  /\ DatabaseInit
  /\ phase = "shell" /\ line = 1 /\ running = TRUE /\ at = "while"
  /\ backlog = <<>> /\ fd = Nobody
  /\ peer = [c \in Client |-> "away"]
  /\ sent = [c \in Client |-> NoRequest]
  /\ reply = [c \in Client |-> NoReply]
-----------------------------------------------------------------------------
(* The programs around the server. *)

\* The shell's command "sql", and what it prints of the result.
ShellSql ==
  /\ phase = "shell" /\ stmt = NoStmt
  /\ \E s \in Statements : Execute(s)
  /\ UNCHANGED httpvars

PrintQueryResult ==
  /\ phase = "shell" /\ stmt # NoStmt /\ ~deleting
  /\ stmt' = NoStmt /\ result' = QueryResult(<<>>, 0)
  /\ UNCHANGED <<tables, next_table_id, store, deleting, to_delete, httpvars>>

\* The shell ends; the server's main opens the file.
StartServer == phase = "shell" /\ stmt = NoStmt /\ Restart /\ NewProcess("schema")

\* The shell prints an error and goes on; main returns.
ExitOnError ==
  phase' = IF phase = "schema" /\ result'.error THEN "exited" ELSE phase

\* RunSchemaFile, line by line.
RunSchemaFile ==
  /\ phase = "schema" /\ line <= Len(SchemaLines)
  /\ Execute(SchemaLines[line])
  /\ line' = line + 1
  /\ ExitOnError
  /\ UNCHANGED <<running, at, backlog, fd, peer, sent, reply>>

\* The rest of a DELETE, in the shell or in the schema file.
DeleteGoesOn ==
  /\ DeleteNext \/ DeleteReturns \/ DeleteThrows
  /\ ExitOnError
  /\ UNCHANGED <<line, running, at, backlog, fd, peer, sent, reply>>

\* The HttpServer is constructed, and main calls Run.
Listen ==
  /\ phase = "schema" /\ line > Len(SchemaLines) /\ ~deleting
  /\ phase' = "serve"
  /\ UNCHANGED <<dbvars, line, running, at, backlog, fd, peer, sent, reply>>

StartShell == phase = "exited" /\ Restart /\ NewProcess("shell")
-----------------------------------------------------------------------------
(* The clients, and the caller of Stop. *)

ClientKeeps == UNCHANGED <<dbvars, phase, line, running, at, fd, reply>>

Connect(c) ==
  /\ phase = "serve" /\ peer[c] = "away"
  /\ peer' = [peer EXCEPT ![c] = "connected"]
  /\ backlog' = Append(backlog, c)
  /\ UNCHANGED sent /\ ClientKeeps

Send(c, r) ==
  /\ peer[c] = "connected" /\ sent[c] = NoRequest
  /\ sent' = [sent EXCEPT ![c] = r]
  /\ UNCHANGED <<backlog, peer>> /\ ClientKeeps

HangUp(c) ==
  /\ peer[c] = "connected"
  /\ peer' = [peer EXCEPT ![c] = "left"]
  /\ UNCHANGED <<backlog, sent>> /\ ClientKeeps

Stop ==
  /\ phase = "serve" /\ running
  /\ running' = FALSE
  /\ UNCHANGED <<dbvars, phase, line, at, backlog, fd, peer, sent, reply>>
-----------------------------------------------------------------------------
(* HttpServer::Run. *)

\* The test of the while loop.
While ==
  /\ phase = "serve" /\ at = "while"
  /\ IF running THEN at' = "poll" /\ UNCHANGED phase
     ELSE phase' = "exited" /\ UNCHANGED at
  /\ UNCHANGED <<dbvars, line, running, backlog, fd, peer, sent, reply>>

\* Mutation of PollTimeout: poll is called again at once.
PollTimeout_Repolls ==
  /\ phase = "serve" /\ at = "poll" /\ backlog = <<>>
  /\ at' = "poll"
  /\ UNCHANGED <<dbvars, phase, line, running, backlog, fd, peer, sent, reply>>

\* poll ends, after 100 ms or interrupted, with nobody there.
PollTimeout ==
  /\ phase = "serve" /\ at = "poll" /\ backlog = <<>>
  /\ at' = "while"
  /\ UNCHANGED <<dbvars, phase, line, running, backlog, fd, peer, sent, reply>>

Accept ==
  /\ phase = "serve" /\ at = "poll" /\ backlog # <<>>
  /\ at' = "handle" /\ fd' = Head(backlog) /\ backlog' = Tail(backlog)
  /\ UNCHANGED <<dbvars, phase, line, running, peer, sent, reply>>

\* accept fails: the client has left, and its connection is gone.
AcceptFails ==
  /\ phase = "serve" /\ at = "poll" /\ backlog # <<>> /\ peer[Head(backlog)] = "left"
  /\ at' = "while" /\ backlog' = Tail(backlog)
  /\ UNCHANGED <<dbvars, phase, line, running, fd, peer, sent, reply>>

\* Mutation of ReadReturns: the end of the input does not end the reading.
ReadReturns_NotAtEnd(c) == sent[c] # NoRequest

\* ReadRequestHeaders ends with the request or with the connection.
ReadReturns(c) == sent[c] # NoRequest \/ peer[c] # "connected"

\* Mutation of ReadOnly: the kind of the statement is not looked at.
ReadOnly_Any(s) == TRUE

\* HandleConnection parses the statement once more, to accept SELECT only.
ReadOnly(s) == s.kind = "SELECT"

Response(r, answer) ==
  CASE r.method = "none" -> [status |-> 400]
    [] r.method \notin {"none", "GET"} -> [status |-> 405]
    [] r.method = "GET" /\ r.path = "/health" -> [status |-> 200]
    [] r.method = "GET" /\ r.path = "/query" ->
         IF r.sql.kind = "NONE" \/ ~ReadOnly(r.sql) \/ answer.error
         THEN [status |-> 400] ELSE [status |-> 200, rows |-> answer.rows]
    [] OTHER -> [status |-> 404]

Queries(r) == r.method = "GET" /\ r.path = "/query" /\ ReadOnly(r.sql)

\* HandleConnection, from the read that finds the request or the end of it
\* to the close.  The request that a client sent before it hung up is read
\* all the same.
HandleConnection ==
  /\ phase = "serve" /\ at = "handle"
  /\ ReadReturns(fd)
  /\ IF Queries(sent[fd]) THEN Execute(sent[fd].sql) ELSE UNCHANGED dbvars
  /\ reply' = [reply EXCEPT ![fd] = Response(sent[fd], result')]
  /\ peer' = [peer EXCEPT ![fd] = "closed"]
  /\ at' = "while" /\ fd' = Nobody
  /\ UNCHANGED <<phase, line, running, backlog, sent>>

Run == While \/ PollTimeout \/ Accept \/ AcceptFails \/ HandleConnection

Next ==
  \/ ShellSql \/ PrintQueryResult \/ StartServer \/ StartShell
  \/ RunSchemaFile \/ DeleteGoesOn \/ Listen
  \/ \E c \in Client : Connect(c) \/ HangUp(c) \/ \E r \in Requests[c] : Send(c, r)
  \/ Stop
  \/ Run

Spec == Init /\ [][Next]_vars

\* The serving thread runs, and poll returns within 100 ms.
SilentSpec == Spec /\ WF_vars(Run)

\* read has no timeout: besides, every client whose connection is accepted
\* sends something or hangs up.
Speaks(c) == fd = c /\ (HangUp(c) \/ \E r \in Requests[c] : Send(c, r))

FairSpec == SilentSpec /\ \A c \in Client : WF_vars(Speaks(c))
-----------------------------------------------------------------------------
(* Properties. *)

\* The API is read-only: from the moment the server listens to the moment
\* its process ends no request, whatever it holds, changes a table, the
\* catalog or a row (src/README.md:246, http_server.h).
ServesReadOnly ==
  [][phase = "serve" /\ phase' = "serve" => UNCHANGED <<tables, store>>]_vars

\* Stop ends Run, whenever it is called: before the first turn of the loop,
\* while poll waits, or while a request is handled (http_server.h:34-37).
StopReturns == phase = "serve" /\ ~running ~> phase # "serve"

\* Every client that connects and stays is answered, unless the server is
\* stopped first: no client before it in the queue, not even one that hangs
\* up without a word, keeps the server from it.
ClientsAnswered ==
  \A c \in Client :
    peer[c] = "connected" ~> peer[c] # "connected" \/ phase # "serve" \/ ~running
=============================================================================
