----------------------------- MODULE MongoGateway -----------------------------
(* The MongoDB gateway of the TypeScript application: a caller in the          *)
(* application Worker sends one database operation through MongoGatewayClient; *)
(* the gateway (a Durable Object, or the Node server of gateway/server.ts)     *)
(* connects, admits, parses and executes it, and answers.  The caller gives up *)
(* on its own timer, and nothing tells the gateway that it did.                *)
EXTENDS Naturals, FiniteSets, Functions

CONSTANTS
    Caller,        \* calls of MongoGatewayClient.execute in flight at once
    Request,       \* the requests an instance sends, a subset of Call
    MaxInFlight,   \* GATEWAY_MAX_IN_FLIGHT
    StopBound      \* bound: how often the gateway process may end

VARIABLES
    callPc,     \* where the gateway is with the call of each caller
    call,       \* what each caller sent
    expired,    \* callers whose deadline has passed
    answer,     \* what each caller has been told
    applied,    \* what the database did for each caller: documents written
    argument,   \* the argument the driver was given for each caller
    inFlight,   \* the admission counter of the handler
    commands,   \* the command contexts kept for the log
    connection, \* "none", "connecting" or "connected"
    stops       \* how often the process ended, up to StopBound

gatewayVars == <<callPc, call, expired, answer, applied, argument, inFlight,
                 commands, connection, stops>>

-------------------------------------------------------------------------------
(* What crosses the wire: the small BSON subset of mongo-protocol.ts.  A value *)
(* is a date, an object id, a pattern, text, or an object with one key.        *)

Scalar == {"date", "oid", "regex", "text"}
Plain(v)   == [object |-> FALSE, key |-> "", value |-> v]
Object(k, v) == [object |-> TRUE, key |-> k, value |-> v]

\* A value becomes an envelope, an object with one reserved key, if it has one.
EncodeScalar(v) ==
    CASE v = "date"  -> Object("$date", "text")
      [] v = "oid"   -> Object("$oid", "text")
      [] v = "regex" -> Object("$regularExpression", "text")
      [] v = "text"  -> Plain("text")

\* encodeMongoValue of an argument: its own value, or the one in its only field.
EncodeValue(arg) == [key |-> arg.key, object |-> arg.object, sent |-> EncodeScalar(arg.value)]

\* Mutant: an object id stays the string it was sent as.
DecodeWithoutIds(e) ==
    CASE e.object /\ e.key = "$date" -> "date"
      [] e.object /\ e.key = "$regularExpression" -> "regex"
      [] OTHER -> e.value
\* decodeMongoValue on the gateway's side, where object ids are made again.
DecodeScalar(e) ==
    CASE e.object /\ e.key = "$date" -> "date"
      [] e.object /\ e.key = "$oid"  -> "oid"
      [] e.object /\ e.key = "$regularExpression" -> "regex"
      [] OTHER -> e.value
DecodeValue(wire) == [object |-> wire.object, key |-> wire.key, value |-> DecodeScalar(wire.sent)]

Argument == {Plain(v) : v \in Scalar} \cup {Object("field", v) : v \in Scalar}

-------------------------------------------------------------------------------
(* The operations, by what they can do to the database: nothing, one document  *)
(* at once, or several documents one after the other.                          *)

Operation == {"find", "updateOne", "bulkWrite"}
Documents(op) == CASE op = "find" -> 0 [] op = "updateOne" -> 1 [] op = "bulkWrite" -> 2

\* What can be wrong with a request before it reaches the database, and "args",
\* what only the operation itself finds wrong.
Shape == {"good", "token", "size", "body", "args"}
Call == [shape : Shape, op : Operation, arg : Argument]
NoCall == [shape |-> "good", op |-> "find", arg |-> Plain("text")]

ASSUME GatewayAssumption ==
    /\ IsFiniteSet(Caller) /\ Request \subseteq Call
    /\ MaxInFlight \in Nat \ {0} /\ StopBound \in Nat

\* Answers that refuse the call before any of it is executed.
Refused == {"unauthorized", "busy", "request_too_large", "invalid_request",
            "deadline_exceeded", "gateway_unavailable"}
\* "aborted" is what the caller tells itself; the other three come from execute.
Answer == Refused \cup {"none", "ok", "failed", "retryable", "aborted"}

Running == {c \in Caller : callPc[c] = "running"}

GatewayInit ==
    /\ callPc = [c \in Caller |-> "idle"]
    /\ call = [c \in Caller |-> NoCall]
    /\ expired = {}
    /\ answer = [c \in Caller |-> "none"]
    /\ applied = [c \in Caller |-> 0]
    /\ argument = [c \in Caller |-> Plain("text")]
    /\ inFlight = 0
    /\ commands = {}
    /\ connection = "none"
    /\ stops = 0

\* The response reaches the caller unless it has given up already.
Tell(c, a) ==
    /\ callPc' = [callPc EXCEPT ![c] = "over"]
    /\ answer' = [answer EXCEPT ![c] = IF @ = "none" THEN a ELSE @]

\* execute: a new request with a deadline.
Send(c, r) ==
    /\ callPc[c] = "idle"
    /\ callPc' = [callPc EXCEPT ![c] = "sent"]
    /\ call' = [call EXCEPT ![c] = r]
    /\ UNCHANGED <<expired, answer, applied, argument, inFlight, commands, connection, stops>>

\* Time passes the deadline; the timer of the caller then aborts the fetch.
Expire(c) ==
    /\ callPc[c] # "idle" /\ answer[c] = "none" /\ c \notin expired
    /\ expired' = expired \cup {c}
    /\ UNCHANGED <<callPc, call, answer, applied, argument, inFlight, commands, connection, stops>>

Abort(c) ==
    /\ c \in expired /\ answer[c] = "none"
    /\ answer' = [answer EXCEPT ![c] = "aborted"]
    /\ UNCHANGED <<callPc, call, expired, applied, argument, inFlight, commands, connection, stops>>

\* ensureConnected: connected already, or the first of those who wait connects.
EnsureConnected(c) ==
    /\ callPc[c] = "sent"
    /\ callPc' = [callPc EXCEPT ![c] = IF connection = "connected" THEN "open" ELSE "waiting"]
    /\ connection' = IF connection = "none" THEN "connecting" ELSE connection
    /\ UNCHANGED <<call, expired, answer, applied, argument, inFlight, commands, stops>>

\* The shared promise settles for everyone who waits on it, and is forgotten.
ConnectSettles(succeeds) ==
    /\ connection = "connecting"
    /\ connection' = IF succeeds THEN "connected" ELSE "none"
    /\ callPc' = [c \in Caller |-> IF callPc[c] # "waiting" THEN callPc[c]
                                   ELSE IF succeeds THEN "open" ELSE "over"]
    /\ answer' = [c \in Caller |-> IF callPc[c] = "waiting" /\ ~succeeds /\ answer[c] = "none"
                                   THEN "gateway_unavailable" ELSE answer[c]]
    /\ UNCHANGED <<call, expired, applied, argument, inFlight, commands, stops>>

\* The handler before its first await: the token, then the limit.
Admit(c) ==
    /\ callPc[c] = "open"
    /\ \/ call[c].shape = "token" /\ Tell(c, "unauthorized")
       \/ call[c].shape # "token" /\ inFlight >= MaxInFlight /\ Tell(c, "busy")
       \/ /\ call[c].shape # "token" /\ inFlight < MaxInFlight
          /\ callPc' = [callPc EXCEPT ![c] = "reading"]
          /\ UNCHANGED answer
    /\ UNCHANGED <<call, expired, applied, argument, inFlight, commands, connection, stops>>

\* The body has been read: refuse it, or count the call and start the command.
Accept(c) ==
    /\ callPc[c] = "reading"
    /\ \/ /\ \/ call[c].shape = "size" /\ Tell(c, "request_too_large")
             \/ call[c].shape = "body" /\ Tell(c, "invalid_request")
             \/ call[c].shape \in {"good", "args"} /\ c \in expired /\ Tell(c, "deadline_exceeded")
          /\ UNCHANGED <<argument, inFlight, commands>>
       \/ /\ call[c].shape \in {"good", "args"} /\ c \notin expired
          /\ callPc' = [callPc EXCEPT ![c] = "running"]
          /\ inFlight' = inFlight + 1
          /\ argument' = [argument EXCEPT ![c] = DecodeValue(EncodeValue(call[c].arg))]
          /\ commands' = IF call[c].shape = "good" THEN commands \cup {c} ELSE commands
          /\ UNCHANGED answer
    /\ UNCHANGED <<call, expired, applied, connection, stops>>

\* The database writes the next document of a command.
Write(c) ==
    /\ callPc[c] = "running" /\ call[c].shape = "good"
    /\ applied[c] < Documents(call[c].op)
    /\ applied' = [applied EXCEPT ![c] = @ + 1]
    /\ UNCHANGED <<callPc, call, expired, answer, argument, inFlight, commands, connection, stops>>

\* Mutant: the counter is given back after a success only, not in a finally.
FinishWithoutFinally(c, a) ==
    /\ callPc[c] = "running" /\ call[c].shape = "good"
    /\ a = "ok" => applied[c] = Documents(call[c].op)
    /\ Tell(c, a)
    /\ inFlight' = IF a = "ok" THEN inFlight - 1 ELSE inFlight
    /\ commands' = commands \ {c}
    /\ UNCHANGED <<call, expired, applied, argument, connection, stops>>
\* execute returns or throws, and the handler's finally block runs.
Finish(c, a) ==
    /\ callPc[c] = "running"
    /\ CASE a = "ok" -> call[c].shape = "good" /\ applied[c] = Documents(call[c].op)
         [] a = "failed" -> TRUE
         [] a = "retryable" -> call[c].shape = "good"
    /\ Tell(c, a)
    /\ inFlight' = inFlight - 1
    /\ commands' = commands \ {c}
    /\ UNCHANGED <<call, expired, applied, argument, connection, stops>>

\* The process ends (SIGTERM closes the client and exits; a Durable Object is
\* evicted): the connections of the callers break and a fresh process follows.
Stop ==
    /\ stops < StopBound
    /\ stops' = stops + 1
    /\ callPc' = [c \in Caller |-> IF callPc[c] \in {"idle", "sent"} THEN callPc[c] ELSE "over"]
    /\ answer' = [c \in Caller |-> IF callPc[c] \in {"idle", "sent"} \/ answer[c] # "none"
                                   THEN answer[c] ELSE "aborted"]
    /\ inFlight' = 0 /\ commands' = {} /\ connection' = "none"
    /\ UNCHANGED <<call, expired, applied, argument>>

GatewayNext ==
    \/ \E c \in Caller : \/ \E r \in Request : Send(c, r)
                         \/ Expire(c) \/ Abort(c)
                         \/ EnsureConnected(c) \/ Admit(c) \/ Accept(c) \/ Write(c)
                         \/ \E a \in {"ok", "failed", "retryable"} : Finish(c, a)
    \/ \E succeeds \in BOOLEAN : ConnectSettles(succeeds)
    \/ Stop

GatewaySpec == GatewayInit /\ [][GatewayNext]_gatewayVars

-------------------------------------------------------------------------------
(* What a caller is told is true of the database (app.ts, mongo-gateway.ts):   *)
(* a refused call, one it may repeat included, wrote nothing and never will,   *)
(* and a call answered "ok" wrote everything, from the argument that was sent. *)
AnswersAreTrue ==
    \A c \in Caller :
        /\ answer[c] \in Refused => applied[c] = 0 /\ callPc[c] # "running"
        /\ answer[c] = "ok" => /\ applied[c] = Documents(call[c].op)
                               /\ argument[c] = call[c].arg

(* The admission counter and the log's command contexts are given back on      *)
(* every way out of the handler: both count calls that are running, whatever   *)
(* failed, was aborted or was cut off before.                                  *)
NothingLeaks ==
    /\ inFlight = Cardinality(Running)
    /\ commands \subseteq Running
===============================================================================
