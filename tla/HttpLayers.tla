----------------------------- MODULE HttpLayers -----------------------------
(***************************************************************************)
(* NewRouter: one request on its way through the middleware to a handler   *)
(* and back, on the path of a return or of a panic.  The handlers' own     *)
(* work is in ApprovalGate and CorrectionLoop; here a handler answers, or  *)
(* panics before or after it did.  net/http is external: the first status  *)
(* written is the one sent, with the headers set by then.                  *)
(***************************************************************************)
EXTENDS Naturals, Sequences

None == 0   \* statusRecorder.status before anything is written

\* Slip: CORS(RecoveryMiddleware(RequestLogger(RequestID(mux)))).
LoggerInside == <<"CORS", "RecoveryMiddleware", "RequestLogger", "RequestID">>

\* CORS(RequestLogger(RecoveryMiddleware(RequestID(mux))))
Layers == <<"CORS", "RequestLogger", "RecoveryMiddleware", "RequestID">>

Inner == Len(Layers) + 1   \* the mux, and the handler it calls

\* Slip: the second name of CreateChange is registered without auth.
WithoutProvision == {"create", "approve", "reject", "reset"}

\* The routes given to mux inside auth(...), and the handler of each route.
Authenticated == {"create", "provision", "approve", "reject", "reset"}
HandlerOf == [health |-> "health", list |-> "ListChanges", get |-> "GetChange",
              trail |-> "GetAuditLog", analytics |-> "GetAnalytics",
              create |-> "CreateChange", provision |-> "CreateChange",
              approve |-> "ApproveChange", reject |-> "RejectChange",
              reset |-> "DemoReset"]

\* The statuses each handler answers with.
AnswersOf == [health |-> {200}, ListChanges |-> {200, 500},
              GetChange |-> {200, 400, 404, 500},
              GetAuditLog |-> {200, 500}, GetAnalytics |-> {200, 500},
              CreateChange |-> {202, 400, 500},
              ApproveChange |-> {200, 400, 404, 409, 500},
              RejectChange |-> {200, 400, 404, 409, 500},
              DemoReset |-> {200, 500}]

\* A request: its route ("none" when mux knows none for its method and path),
\* whether its method is OPTIONS, and whether its X-API-Key is the server's.
HttpRequest == [route : DOMAIN HandlerOf \union {"none"}, options : BOOLEAN, key : BOOLEAN]

VARIABLES
    req,      \* the request being served
    at,       \* the layer it has come to, Inner for mux, 0 when it is through
    going,    \* "in", "handler" (inside the handler), "out", "panic"
    headers,  \* the middleware's headers set so far
    answer,   \* what the client gets: status and headers
    status,   \* statusRecorder.status
    log,      \* the statuses of the request's log lines
    ran,      \* history: the handler that ran, if any
    cut       \* history: the handler panicked when it had answered

httpVars == <<req, at, going, headers, answer, status, log, ran, cut>>

Statuses == {200, 202, 301, 307, 400, 401, 404, 405, 409, 500}

HttpInit ==
    /\ req \in {r \in HttpRequest : r.options => r.route = "none"}
    /\ at = 1 /\ going = "in"
    /\ headers = {} /\ answer = [status |-> None, headers |-> {}]
    /\ status = None /\ log = <<>> /\ ran = "none" /\ cut = FALSE

\* w.WriteHeader(code) as called at the current layer: the recorder around the
\* layers inside RequestLogger notes the code, whether or not it is the first.
WriteHeader(code) ==
    /\ answer' = IF answer.status = None
                   THEN [status |-> code, headers |-> headers'] ELSE answer
    /\ status' = IF \E i \in 1..(at - 1) : Layers[i] = "RequestLogger"
                   THEN code ELSE status

Silent == UNCHANGED <<answer, status>>
Forward == at' = at + 1 /\ going' = "in"
Back == at' = at - 1 /\ going' = "out"

In(layer) == going = "in" /\ at < Inner /\ Layers[at] = layer

\* Slip: the id is passed forward only, on the request.
RequestIDForward == /\ In("RequestID") /\ Forward /\ Silent
                    /\ UNCHANGED <<req, headers, log, ran, cut>>

RequestID == /\ In("RequestID")
             /\ headers' = headers \union {"X-Request-ID"}
             /\ Forward /\ Silent
             /\ UNCHANGED <<req, log, ran, cut>>

CORS == /\ In("CORS")
        /\ headers' = headers \union {"CORS"}
        /\ IF req.options THEN WriteHeader(200) /\ Back ELSE Forward /\ Silent
        /\ UNCHANGED <<req, log, ran, cut>>

\* Slip: RequestLogger writes its line before it calls next.
PassLogging == /\ In("RequestLogger") \/ In("RecoveryMiddleware")
               /\ log' = IF In("RequestLogger") THEN Append(log, status) ELSE log
               /\ Forward /\ Silent
               /\ UNCHANGED <<req, headers, ran, cut>>

\* RequestLogger and RecoveryMiddleware before they call next.
Pass == /\ In("RequestLogger") \/ In("RecoveryMiddleware")
        /\ Forward /\ Silent
        /\ UNCHANGED <<req, headers, log, ran, cut>>

\* mux, which sends a path it would write differently ("//", "/./") there, knows
\* none, or not the method; and, around some handlers, RequireAPIKey.
Dispatch ==
    /\ going = "in" /\ at = Inner
    /\ UNCHANGED <<req, headers, log, cut>>
    /\ IF req.route = "none"
         THEN (\E code \in {301, 307, 404, 405} : WriteHeader(code)) /\ Back /\ UNCHANGED ran
       ELSE IF req.route \in Authenticated /\ ~req.key
         THEN WriteHeader(401) /\ Back /\ UNCHANGED ran
       ELSE /\ ran' = HandlerOf[req.route] /\ going' = "handler"
            /\ Silent /\ UNCHANGED at

\* Every path of a handler answers once and then returns: with writeJSON,
\* http.Error or WriteHeader, or (health) a Write that implies status 200.
Answer(code) == /\ going = "handler" /\ answer.status = None
                /\ code \in AnswersOf[ran]
                /\ UNCHANGED <<req, at, going, headers, log, ran, cut>>
                /\ WriteHeader(code)
Return == /\ going = "handler" /\ answer.status # None
          /\ Back /\ Silent
          /\ UNCHANGED <<req, headers, log, ran, cut>>
Panic == /\ going = "handler"
         /\ at' = at - 1 /\ going' = "panic" /\ Silent
         /\ cut' = (answer.status # None)
         /\ UNCHANGED <<req, headers, log, ran>>

\* On the way out RequestLogger writes its line; a panic passes it by.
Logs == going = "out" /\ Layers[at] = "RequestLogger"
Unwind ==
    /\ going \in {"out", "panic"} /\ at > 0
    /\ ~ (going = "panic" /\ Layers[at] = "RecoveryMiddleware")
    /\ log' = IF Logs THEN Append(log, status) ELSE log
    /\ at' = at - 1 /\ Silent
    /\ UNCHANGED <<req, going, headers, ran, cut>>

Recover == /\ going = "panic" /\ at > 0 /\ Layers[at] = "RecoveryMiddleware"
           /\ UNCHANGED <<req, headers, log, ran, cut>>
           /\ WriteHeader(500) /\ Back

HttpNext == \/ CORS \/ RequestID \/ Pass \/ Dispatch
            \/ (\E code \in Statuses : Answer(code)) \/ Return \/ Panic
            \/ Unwind \/ Recover

HttpSpec == HttpInit /\ [][HttpNext]_httpVars
-----------------------------------------------------------------------------
HttpTypeOK ==
    /\ req \in HttpRequest /\ at \in 0..Inner
    /\ going \in {"in", "handler", "out", "panic"}
    /\ headers \subseteq {"CORS", "X-Request-ID"}
    /\ answer \in [status : Statuses \union {None}, headers : SUBSET headers]
    /\ status \in Statuses \union {None} /\ log \in Seq(Statuses)
    /\ cut \in BOOLEAN

Served == at = 0

\* However its handler ends, a request is answered, and every one but an
\* OPTIONS leaves one log line, with the status the client got: only where the
\* handler panicked with its answer under way is the line's 500 not that
\* status (RequestLogger outside RecoveryMiddleware, and the recorder between).
LogTellsTheAnswer ==
    Served => /\ going = "out" /\ answer.status # None
              /\ log = IF req.options THEN <<>>
                       ELSE IF cut THEN <<500>> ELSE <<answer.status>>

\* The handlers that change the tables, or run terraform.
Writers == {"CreateChange", "ApproveChange", "RejectChange", "DemoReset"}

\* Under whatever route it is reached, a handler that writes never runs for a
\* request without the server's key, which is answered 401 and nothing else
\* (NewRouter's "Mutating - API key required").
WritersNeedTheKey ==
    /\ ran \in Writers => req.key
    /\ Served /\ req.route # "none" /\ ~req.key /\ HandlerOf[req.route] \in Writers =>
          answer.status = 401 /\ log = <<401>>

\* Every answer, also the refusals and the one after a panic, carries the CORS
\* headers, and every one but a preflight's its request id: they are set
\* before anything below can send (CORS and RequestID).
EveryAnswerIsMarked ==
    Served => /\ "CORS" \in answer.headers
              /\ req.options \/ "X-Request-ID" \in answer.headers
=============================================================================
