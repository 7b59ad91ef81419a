-------------------------------- MODULE ApiCall --------------------------------
(***************************************************************************)
(* A call through the generated API: the client builds a request, the      *)
(* server's middlewares and router take it to the handler of an operation, *)
(* the handler passes its stages, and the client decodes what comes back.  *)
(* Meanwhile the key the client's id names may end, the connection may be  *)
(* lost, and net/http may send a request again.  Requests that no          *)
(* generated client would send arrive as well.                             *)
(*                                                                         *)
(* The middleware admits whoever names a key session:<id> that has not     *)
(* expired: a session, or the state of a sign-in somebody only began (see  *)
(* AuthSession).  "live" says that there is such a key, of either kind.    *)
(*                                                                         *)
(* What the operation itself does is left open: it returns any answer its  *)
(* interface declares, or an error.                                        *)
(***************************************************************************)
EXTENDS ApiClient

CONSTANTS
    Failed,         \* the result of a call that ended with an error
    Ids,            \* path parameters
    Limits, Offsets,
    Codes,          \* codes, states and redirect targets
    OtherRequests   \* requests of others than the generated client

VARIABLES
    live,    \* the id the caller has names a key in Redis that has not expired
    call,    \* the call the generated client makes, or None
    srv,     \* the request at the server and how far it is
    ran,     \* the operation that ran for it and its answer, or None
    response,
    result   \* what the client returns: a type, Failed, or None while it waits

vars == <<live, call, srv, ran, response, result>>

-------------------------------------------------------------------------------
(* Calls.                                                                  *)

Operations == DOMAIN Handlers

ByProject == {"CreateRole", "CreateUserGroup", "GetProject", "UpdateProject"}

Arguments(op) ==
    CASE op \in ByProject -> [projectId : Ids]
      [] op \in {"GetRole", "UpdateRole"} -> [projectId : Ids, roleId : Ids]
      [] op \in {"GetUserGroup", "UpdateUserGroup"} -> [projectId : Ids, groupId : Ids]
      [] op \in {"ListRoles", "ListUserGroups"} ->
            [projectId : Ids, limit : Limits, offset : Offsets]
      [] op \in {"ListProjects", "ListUsers"} -> [limit : Limits, offset : Offsets]
      [] op = "InitiateLogin" -> [redirect_uri : Codes \cup {None}]
      [] op = "HandleOAuthCallback" -> [code : Codes, state : Codes]
      [] OTHER -> {<<>>}

Calls == UNION {[op : {op}, params : Arguments(op)] : op \in Operations}

AnswersOf(op) == {e[1].type : e \in Encoders[op]}

Answers == {"InternalError"} \cup UNION {AnswersOf(op) : op \in Operations}

\* What is escaped can be unescaped, whether or not it was normalized before.
ASSUME IdsAssumption ==
    \A id \in Ids : /\ PathUnescape(PathEscape(id)) = id
                    /\ PathUnescape(Normalize(PathEscape(id))) = id

\* The paths that are requested.
Paths == {r.path : r \in OtherRequests} \cup {ClientRequest(c.op, c.params).path : c \in Calls}

\* Normalizing a segment keeps what it stands for, and leaves no escape in one that
\* stands for a segment of a route.
ASSUME NormalizeAssumption ==
    \A path \in Paths : \A i \in DOMAIN path :
        LET s == PathUnescape(path[i])
        IN  /\ PathUnescape(Normalize(path[i])) = s
            /\ s \in Segments => Normalize(path[i]) = s

ASSUME FailedAssumption == Failed \notin Answers

\* None is neither a call nor a run.
ASSUME NoneAssumption ==
    \A c \in Calls :
        /\ None # [op |-> c.op, params |-> c.params]
        /\ None \notin [op : {c.op}, params : {c.params}, keyed : BOOLEAN]
        /\ None \notin [op : {c.op}, params : {c.params}, answer : Answers \cup {Failed}]

\* Where a credential is: in the authorization header, with the scheme it
\* names, and in the cookie.
Credentials == [header : {"none", "Bearer", "bearer"}, cookie : BOOLEAN]

NoCredential == [header |-> "none", cookie |-> FALSE]

\* The client's security source has a bearer token, a cookie, both or neither.
ClientCredentials == [header : {"none", "Bearer"}, cookie : BOOLEAN]

-------------------------------------------------------------------------------
(* Answers that no operation gives.  An error of the generated layer, one  *)
(* of the middleware, a text or nothing: each a body of its own.           *)

ErrorMessage == [ctype |-> "json", fields |-> {"error_message"}, wrong |-> {}]
Message == [ctype |-> "json", fields |-> {"message"}, wrong |-> {}]
Text == [ctype |-> "other", fields |-> {}, wrong |-> {}]

Answer(status, body) ==
    /\ response' = [status |-> status, body |-> body]
    /\ srv' = [srv EXCEPT !.pc = "answered"]

-------------------------------------------------------------------------------
(* The client sends.                                                       *)

Idle == [pc |-> "idle"]

Arrived(request) ==
    [pc |-> "cors", request |-> request, ctx |-> FALSE, op |-> None, args |-> <<>>,
     escaped |-> FALSE, step |-> 0, params |-> <<>>, answer |-> NoForm]

\* The middleware takes an id from a header that begins with "Bearer ", else
\* from the cookie.
extractSessionID(credential) == credential.header = "Bearer" \/ credential.cookie

Init ==
    /\ live \in BOOLEAN
    /\ call = None /\ srv = Idle /\ ran = None /\ response = None /\ result = None

\* The caller signs in, or takes the state from the answer of GET /auth/login.
KeyObtained ==
    /\ srv = Idle /\ call = None
    /\ live' = TRUE
    /\ UNCHANGED <<call, srv, ran, response, result>>

KeyEnds ==
    /\ live
    /\ live' = FALSE
    /\ UNCHANGED <<call, srv, ran, response, result>>

\* "keyed" is a ghost: the request names a key that is alive when it is sent.
Request(method, path, query, body, credential) ==
    [method |-> method, path |-> path, query |-> query, body |-> body,
     credential |-> credential, keyed |-> live /\ extractSessionID(credential)]

\* The client of c calls it with a body in which some checked values are wrong.
\* An operation that wants a credential is not sent without one.
Invoke(c, credential, wrong) ==
    LET s == ClientRequest(c.op, c.params)
    IN  /\ call = None /\ srv = Idle
        /\ call' = [op |-> c.op, params |-> c.params,
                    keyed |-> live /\ extractSessionID(credential)]
        /\ IF s.secured /\ credential = NoCredential
             THEN result' = Failed /\ UNCHANGED srv
             ELSE /\ srv' = Arrived(Request(s.method, s.path, s.query, Body(s.form, wrong),
                                            IF s.secured THEN credential ELSE NoCredential))
                  /\ UNCHANGED result
        /\ UNCHANGED <<live, ran, response>>

OtherRequest(r, credential) ==
    /\ call = None /\ srv = Idle
    /\ srv' = Arrived(Request(r.method, r.path, r.query, r.body, credential))
    /\ UNCHANGED <<live, call, ran, response, result>>

-------------------------------------------------------------------------------
(* The middlewares and the routes of Echo.                                 *)

Cors ==
    /\ srv.pc = "cors"
    /\ IF srv.request.method = "OPTIONS"
         THEN Answer(204, NoBody)
         ELSE srv' = [srv EXCEPT !.pc = "middleware"] /\ UNCHANGED response
    /\ UNCHANGED <<live, call, ran, result>>

publicPaths ==
    {<<"v1alpha1", "health", "liveness">>, <<"v1alpha1", "health", "readiness">>,
     <<"v1alpha1", "auth", "login">>, <<"v1alpha1", "auth", "callback">>}

\* URL.Path is decoded: an escaped slash is a slash there, and what reads like
\* one of three segments may be fewer.
ReadsLike(p) ==
    {p, <<Slash(p[1], p[2]), p[3]>>, <<p[1], Slash(p[2], p[3])>>,
     <<Slash(p[1], Slash(p[2], p[3]))>>}

isPublicPath(path) == \E p \in publicPaths : Unescaped(path) \in ReadsLike(p)

Admit(ctx) ==
    /\ srv' = [srv EXCEPT !.pc = "routes", !.ctx = ctx]
    /\ UNCHANGED response

\* Mutant of SessionMiddleware: a session that cannot be looked up is passed over.
SessionMiddlewareGoesOn ==
    /\ srv.pc = "middleware"
    /\ LET r == srv.request
       IN  IF isPublicPath(r.path) THEN Admit(FALSE)
           ELSE IF ~extractSessionID(r.credential) THEN Answer(401, Message)
           ELSE \/ Admit(FALSE)
                \/ IF live THEN Admit(TRUE) ELSE Answer(401, Message)
    /\ UNCHANGED <<live, call, ran, result>>

SessionMiddleware ==
    /\ srv.pc = "middleware"
    /\ LET r == srv.request
       IN  IF isPublicPath(r.path) THEN Admit(FALSE)
           ELSE IF ~extractSessionID(r.credential) THEN Answer(401, Message)
           ELSE \/ Answer(500, Message)   \* the lookup fails
                \/ IF live THEN Admit(TRUE) ELSE Answer(401, Message)
    /\ UNCHANGED <<live, call, ran, result>>

loginPath == <<"v1alpha1", "auth", "login">>
callbackPath == <<"v1alpha1", "auth", "callback">>

QueryParam(q, name) == IF name \in DOMAIN q THEN q[name] ELSE ""

\* Two routes of Echo's own come before the generated server.
EchoRoutes(request) == request.method = "GET" /\ request.path \in {loginPath, callbackPath}

EchoAnswer(op, params, form, status) ==
    /\ ran' = [op |-> op, params |-> params, answer |-> form.type]
    /\ Answer(status, Body(form, {}))

createLoginHandler ==
    /\ srv.pc = "routes" /\ EchoRoutes(srv.request) /\ srv.request.path = loginPath
    /\ \E a \in {<<InitiateLoginFound, 302>>, <<As("InternalError"), 500>>} :
        EchoAnswer("InitiateLogin",
                   [redirect_uri |-> Optional(srv.request.query, "redirect_uri")], a[1], a[2])
    /\ UNCHANGED <<live, call, result>>

createCallbackHandler ==
    /\ srv.pc = "routes" /\ EchoRoutes(srv.request) /\ srv.request.path = callbackPath
    /\ LET q == srv.request.query
           p == [code |-> QueryParam(q, "code"), state |-> QueryParam(q, "state")]
       IN  \E a \in IF p.code = "" \/ p.state = "" THEN {<<HandleOAuthCallbackBadRequest, 400>>}
                    ELSE {<<HandleOAuthCallbackFound, 302>>,
                          <<HandleOAuthCallbackUnauthorized, 401>>,
                          <<As("InternalError"), 500>>} :
            EchoAnswer("HandleOAuthCallback", p, a[1], a[2])
    /\ UNCHANGED <<live, call, result>>

Route ==
    /\ srv.pc = "routes" /\ ~EchoRoutes(srv.request)
    /\ LET r == srv.request
           to == ServeHTTP(r.method, r.path)
       IN  CASE to = NotFound   -> Answer(404, Text)
             [] to = NotAllowed -> Answer(405, NoBody)
             [] OTHER -> /\ srv' = [srv EXCEPT !.pc = "handler", !.step = 1, !.op = to.op,
                                               !.args = to.args, !.escaped = IsRaw(r.path)]
                         /\ UNCHANGED response
    /\ UNCHANGED <<live, call, ran, result>>

-------------------------------------------------------------------------------
(* The stages of a handler.                                                *)

At(stage) == srv.pc = "handler" /\ Handlers[srv.op][srv.step] = stage

GoOn == /\ srv' = [srv EXCEPT !.step = @ + 1]
        /\ UNCHANGED response

findAuthorization(credential) == credential.header \in {"Bearer", "bearer"}

\* Each security handler whose credential is there refuses a request without
\* a session in its context; one satisfied handler is enough.
securityBearerAuth == findAuthorization(srv.request.credential)
securityCookieAuth == srv.request.credential.cookie

\* Mutant of Satisfied: both are wanted.
SatisfiedByBoth == srv.ctx /\ securityBearerAuth /\ securityCookieAuth

Satisfied == srv.ctx /\ (securityBearerAuth \/ securityCookieAuth)

Security ==
    /\ At("security")
    /\ IF Satisfied THEN GoOn ELSE Answer(401, ErrorMessage)
    /\ UNCHANGED <<live, call, ran, result>>

Params ==
    /\ At("params")
    /\ LET p == DecodeParams(srv.op, srv.args, srv.escaped, srv.request.query)
       IN  IF \E f \in DOMAIN p : p[f] = Invalid
             THEN Answer(400, ErrorMessage)
             ELSE /\ srv' = [srv EXCEPT !.params = p, !.step = @ + 1]
                  /\ UNCHANGED response
    /\ UNCHANGED <<live, call, ran, result>>

RequestBody ==
    /\ At("request")
    /\ LET status == DecodeRequest(srv.op, srv.request.body)
       IN  IF status = 0 THEN GoOn ELSE Answer(status, ErrorMessage)
    /\ UNCHANGED <<live, call, ran, result>>

Ran(answer) == ran' = [op |-> srv.op, params |-> srv.params, answer |-> answer]

\* Logout deletes the session, if Redis lets it.
Handle ==
    /\ At("handler")
    /\ \/ \E e \in Encoders[srv.op] :
            /\ Ran(e[1].type)
            /\ srv' = [srv EXCEPT !.step = @ + 1, !.answer = e[1]]
            /\ UNCHANGED response
       \/ Ran(Failed) /\ Answer(500, ErrorMessage)
    /\ live' \in IF srv.op = "Logout" THEN {live, FALSE} ELSE {live}
    /\ UNCHANGED <<call, result>>

Encode ==
    /\ At("encode")
    /\ \E e \in Encoders[srv.op] : e[1] = srv.answer /\ Answer(e[2], Body(e[1], {}))
    /\ UNCHANGED <<live, call, ran, result>>

-------------------------------------------------------------------------------
(* The client receives.                                                    *)

Waiting == call # None /\ result = None

\* net/http follows a redirect to a page that is not the API's, or finds no
\* location: no decoder ever sees a 302.
FollowRedirect ==
    /\ Waiting /\ response # None /\ response.status = 302
    /\ result' = Failed
    /\ UNCHANGED <<live, call, srv, ran, response>>

Decode ==
    /\ Waiting /\ response # None /\ response.status # 302
    /\ LET ds == {d \in Decoders[call.op] : d[1] = response.status /\ Decodes(d[2], response.body)}
       IN  IF ds = {} THEN result' = Failed ELSE \E d \in ds : result' = d[2].type
    /\ UNCHANGED <<live, call, srv, ran, response>>

\* The server goes on with a request whose client is gone.
ConnectionLost ==
    /\ Waiting
    /\ result' = Failed
    /\ UNCHANGED <<live, call, srv, ran, response>>

\* net/http sends a GET again when the connection it reused breaks before the
\* first byte of the answer.  The server may already have run the operation, and
\* what the first request has left to do there it does before this step: nothing
\* in it but the lookup of the key depends on the order, and a lookup that comes
\* later can only refuse more.
Resend ==
    /\ Waiting /\ srv # Idle /\ srv.request.method = "GET"
    /\ LET r == srv.request
       IN  srv' = Arrived(Request(r.method, r.path, r.query, r.body, r.credential))
    /\ ran' = None /\ response' = None
    /\ UNCHANGED <<live, call, result>>

\* Mutant of Finish: the result of the last call is still there.
FinishKeepsResult ==
    /\ srv.pc = "answered" \/ result # None
    /\ srv.pc \in {"idle", "answered"} /\ ~Waiting
    /\ call' = None /\ srv' = Idle /\ ran' = None /\ response' = None
    /\ UNCHANGED <<live, result>>

Finish ==
    /\ srv.pc = "answered" \/ result # None
    /\ srv.pc \in {"idle", "answered"} /\ ~Waiting
    /\ call' = None /\ srv' = Idle /\ ran' = None /\ response' = None /\ result' = None
    /\ UNCHANGED live

-------------------------------------------------------------------------------
Next ==
    \/ KeyObtained \/ KeyEnds
    \/ \E c \in Calls, credential \in ClientCredentials :
        \E wrong \in SUBSET ClientRequest(c.op, c.params).form.checked :
            Invoke(c, credential, wrong)
    \/ \E r \in OtherRequests, credential \in Credentials : OtherRequest(r, credential)
    \/ Cors \/ SessionMiddleware
    \/ createLoginHandler \/ createCallbackHandler \/ Route
    \/ Security \/ Params \/ RequestBody \/ Handle \/ Encode
    \/ FollowRedirect \/ Decode \/ ConnectionLost \/ Resend \/ Finish

Spec == Init /\ [][Next]_vars

-------------------------------------------------------------------------------
(* Properties.                                                             *)

\* The variables have their types: the request is at a place of the server,
\* an operation is at one of its stages, a result is a type its operation has.
TypeOK ==
    /\ live \in BOOLEAN
    /\ call # None => [op |-> call.op, params |-> call.params] \in Calls
    /\ srv.pc \in {"idle", "cors", "middleware", "routes", "handler", "answered"}
    /\ srv.pc = "handler" => srv.op \in Operations /\ srv.step \in DOMAIN Handlers[srv.op]
    /\ result # None => call # None /\ result \in AnswersOf(call.op) \cup {Failed}

PublicOperations ==
    {"GetLivenessCheck", "GetReadinessCheck", "InitiateLogin", "HandleOAuthCallback"}

\* An operation other than the public ones runs only for a request that named a
\* key, of a session or of a sign-in begun, that was alive when it was sent.
\* Twelve handlers have no security stage of their own (oas_handlers_gen.go): they
\* rest on the middleware and on the two ways a path is compared, decoded by it
\* and, escaped and normalized, by the router.
OnlyKeyHolders == ran # None /\ ran.op \notin PublicOperations => srv.request.keyed

\* The two layers that look for a credential agree: whom the middleware let
\* through with a session the security stage lets through too, although one
\* compares the scheme exactly and the other does not.
LayersAgree == At("security") => Satisfied

\* No operation runs on a parameter or a body that its decoder refuses.
CleanInput ==
    ran # None /\ srv.op # None =>
        /\ \A f \in DOMAIN ran.params : ran.params[f] # Invalid
        /\ Decodes(ClientRequest(ran.op, ran.params).form, srv.request.body)

\* Whatever the operation answers, the client decodes that answer and no other
\* one, unless it is a redirect.
AnswerArrives ==
    [][Decode /\ ran # None /\ ran.answer \in AnswersOf(call.op) => result' = ran.answer]_vars

Replayable == {c \in Calls : ClientRequest(c.op, c.params).method = "GET"}

Abstract == INSTANCE RemoteCall WITH
    Calls      <- Calls,
    Replayable <- Replayable,
    Answers    <- Answers,
    call       <- IF call = None THEN None ELSE [op |-> call.op, params |-> call.params],
    ran        <- IF call = None THEN None ELSE ran

\* A call is a remote call: its operation runs with its own parameters, once at
\* most or, if it is a GET, once at most for each time net/http sends it, and its
\* result is the answer of the last run.
ImplementsRemoteCall == Abstract!Spec

\* A caller whose key is alive all along, as that of one who is signed in, is never
\* turned away for want of one: the client sends its credential wherever the
\* server's layers want it.  This speaks of the operations whose handler has a
\* security stage.  For the eight operations on roles and user groups it is false:
\* the client sends no credential with them, and the middleware wants one.
SignedInIsServed ==
    call # None /\ call.keyed /\ live /\ response # None /\ ran = None
        /\ Handlers[call.op][1] = "security" => response.status # 401
===============================================================================
