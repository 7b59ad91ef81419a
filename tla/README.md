# Verification of tacokumo admin-api

TLA+ models of the admin-api server, of the generated API layer on both sides of
the wire and of the CLI that signs in, TLC runs over small instances of them, and
proofs for every size, checked by TLAPS. Source paths are relative to `src/`.

    tlc -config auth_lifecycle.cfg MCAuthSession.tla   # any run of section 3
    tlapm AuthSessionProofs.tla                        # the proofs, one module each:
    tlapm AuthOwnerProofs.tla                          # section 6
    tlapm AuthLifecycleProofs.tla
    tlapm AdminServiceProofs.tla
    tlapm ApiCallProofs.tla
    tlapm ServerLifecycleProofs.tla
    tlapm CallbackListenerProofs.tla
    tlapm CliClientProofs.tla

## 1. The system

admin-api is one Go process behind Echo. It keeps sessions in Redis and
projects, roles, user groups and users in PostgreSQL, and signs users in with
GitHub OAuth. A CLI in the same repository talks to it with `net/http` and the
types, but not the client, that are generated from the same OpenAPI document as
the server; the generated client is there for other Go programs.

| component | source | state it keeps | operations | model |
|---|---|---|---|---|
| session store | `pkg/auth/session` | Redis keys `session:<id>` with a TTL: sessions and, in the same key space, login states | Create, Get, Delete, Refresh | AuthSession, SessionLifecycle |
| session middleware | `pkg/middleware/session.go` | the session in the request's context | look up the id of the cookie or bearer header, check the expiry | AuthSession; its paths and headers in ApiCall |
| OAuth handlers | `pkg/server/server.go`, `pkg/auth/oauth` | none; login states and sessions in Redis, codes at GitHub | login, callback | AuthSession |
| authentication API | `pkg/apis/v1alpha1/server.go` 528-675 | none | me, logout, refresh | AuthSession, AuthLogout |
| project API | the same file 30-484, `pkg/db/admindb`, `sql/schema.sql` | four tables | create, get, update, list | AdminService |
| generated API layer | `pkg/apis/v1alpha1/generated` | none | route, secure, decode, handle, encode; send and decode | ApiSchemas, ApiServer, ApiClient, ApiCall, RemoteCall |
| configuration | `pkg/config`, `pkg/envconfig` | none | file, then environment | EnvConfig, ServerLifecycle |
| server life cycle | `pkg/server/server.go` (New, Start, startAPIServer), `cmd/server` | connections, the cleanup list, two goroutines | start, serve, interrupt, shut down | ServerLifecycle |
| callback listener of the CLI | `pkg/client/auth/token.go` | two channels, a local HTTP server | wait for a token | CallbackListener |
| CLI client, token file | `pkg/client/v1alpha1`, `pkg/client/auth/storage.go` | a bearer token in memory and in `~/.admin-api/token.json` | ensureAuthenticated, Authenticate, Logout, calls | CliClient |
| CLI commands | `pkg/client/cmd`, `cmd/client` | none | one command, or a loop of them | CliClient, as what they make the client do |
| health checks, CORS | `pkg/apis/v1alpha1/server.go`, `pkg/server/server.go` | none | liveness, readiness; preflight | ApiCall, by their outcomes |
| request logger, DSN, `pkg/redis` (unused), printing, scripts, deployment | | none of interest | | not modelled |

**Interaction.** Handlers run concurrently, one goroutine per request. They
share nothing in memory: everything two requests can disturb for one another is
in Redis (`SET`, `GET`, `DEL`, each atomic, never in a transaction), in
PostgreSQL (single statements, never in a transaction) or at GitHub (a code that
works once, and a new one at each visit to the authorize page). Login states and
sessions are keys with one prefix, and every reader of a key takes either: the
middleware accepts a login state as a credential, the callback a session id as a
state. A request passes CORS, the session middleware, two Echo routes and
only then the generated server, which checks the credential a second time. The
middleware reads the session before the handler runs and hands it over in the
context. CLI processes of one user share one token file, without a lock.

**What is hard here.** The gaps between two commands of one handler (refresh
against logout, two callbacks with one state, insert and read back); commands
whose error says nothing about their effect; the clock, which moves between the
computation of a TTL and its use; a process that dies between two commands; the
order of a shutdown; channels of capacity one; a select with several ready
cases; two layers that read the same path and the same header in different ways;
server and client tables that must agree; a file that is truncated and written
in two steps. PROJECT.json lists each as a hazard at its line with the
properties that cover it.

**What makes each component correct.** Sessions: they belong to an allowed user
whose code GitHub accepted, one per code, live as long as promised and no longer
than the store they were last written through, and stay ended once ended. Project API: rows are read and changed only through their
own project, success is answered only for something written, no page skips a
row. API layer: no operation that is not public runs for a request without a live key
of the session store, nor on input that does not decode, and what the client gets
is the answer of its own call. Life
cycle: a configuration that makes no sense stops the start, nothing is closed
while it is used, and an interrupt ends the process. Listener: the flow ends,
and only with a token the server has vouched for. CLI: it sends and stores only
tokens the server accepted, and does not throw away a good one without reason.

## 2. Modules

Each `*.tla` models one component; `MC*.tla` give constants for TLC, `*Proofs.tla`
hold theorems. Definitions with the comment *Mutant of X* are deliberate faulty
variants of `X`, used by no specification: replacing `X` by one makes the run
named in PROJECT.json ("mutants") report a violation, which shows that the
property depends on what the code does there.

### AuthSession (with MCAuthSession)

*State.* `store` and `deadline` are Redis: the value of a key and when it
expires. `now` is the clock of server and Redis. `req` is a set of request
slots, each with the call its handler makes next (`pc`), the operation, the id
of the cookie, header or state, and the record in hand (the context's session,
or the one being stored). `states` and `sessions` are the ids generated so far:
`GenerateSessionID` draws 256 random bits, modelled as never twice the same.
`codes` is GitHub's side: for each authorization code the account that signed in
for it and whether it was used. `known` are the ids that reached a client, login
states (the Location of a login) and session ids alike.

*Actions.* `BeginLogin`, `BeginCallback` and `BeginApi` start a request; then
there is one action per Redis command or GitHub exchange in the order of the code:

| handler | actions |
|---|---|
| createLoginHandler | BeginLogin, CreateTTL, CreateSet |
| createCallbackHandler | BeginCallback, StateGet, StateDel, Exchange, Lookup, CreateTTL, CreateSet |
| SessionMiddleware | BeginApi, MwGet, MwCheck |
| GetCurrentUser, Logout | one action each |
| RefreshToken | RefreshToken, RefreshGet, CreateTTL, CreateSet |

`BeginCallback` presents any known id as the state with any code that was issued,
because the handler reads the two from the query independently, and `BeginApi` any
known id as the credential, because the middleware looks up whatever id it gets.
`SignIn` is a user at GitHub's authorize page, who gets another code at each visit.
`Deliver` and `LoseResponse` end a request, `Crash` ends all of them and leaves
Redis as it is, `Tick` moves the clock and expires keys. With `StoreMayFail` a
Redis command may return an error, having taken effect or not. The three reads
of GitHub are one action: between them the server changes nothing and nobody
else can change what they read (the account's memberships are constant).

*Abstractions.* A session record keeps id, owner, expiry and, as ghosts, the code
it stems from and the operation that wrote it last. Cookie attributes, redirect targets, the GitHub token
in the session and team names are left out. Clients present only ids they were
given.

### SessionLifecycle

The promise, without Redis, clock or handlers: an id is unused, then open for
one owner (none, if it is a login state), then ended for good; a request is served under an id only after it
found the id open and as its owner. `ImplementsLifecycle` maps AuthSession to
it: an id is open while Redis has its key or some request is about to write it.

### AuthLogout (with MCAuthLogout)

AuthSession and a memory of which sessions were told to be logged out and which
requests came later. It models no code of its own; it is there to state what
the API says about Logout, which the code does not do (section 5).

### AdminService (with MCAdminService)

The tables are sequences of rows; the number of a row stands for its primary key,
its display id and the order of `created_at`. `req` holds one record per request
with the statement it runs next. Statement errors may come before or after the
commit. Roles and user groups are two kinds of one table of items, since their
handlers and statements differ only in the table. Of a row only the column with
a unique constraint is kept. `mine`, a ghost, is the row a request wrote.

`pager` is a client that reads the list of projects or users page by page while
others insert (BeginPaging, NextPage, EndPaging): each page is one statement,
`Page` its LIMIT and OFFSET. Rows with the same `created_at` come in an order
the database chooses; nothing is said of them.

### EnvConfig, ServerLifecycle (with MCServerLifecycle)

EnvConfig is the configuration as a function: one setting for each kind of field
that the reflection of `pkg/envconfig` distinguishes and each switch that changes
what the process does. A file gives every setting a value, an environment gives
it one, leaves it unset, or gives something that does not parse. A list in the
environment is the set it names.

In ServerLifecycle `main` is the main goroutine through `LoadConfig`, New and
Start, `api` the goroutine of startAPIServer, `inFlight` the number of requests.
`opened` is the set of resources that are open, `cleanups` the list that New
collects while it opens them (one entry for Redis; two for the telemetry
providers, handed over together; one for the pool) and that Start runs; New
returns an error without running it, so that a failed start leaves resources
open. With TLS the goroutine uses an http.Server of its own, so Echo's Shutdown
sees no connections (`EchoInFlight`). The states "stopped" and "failed" are the
end of the process.

### ApiSchemas, ApiServer, ApiClient

Pure operators for the generated code, all 21 operations. ApiSchemas gives each
type as the JSON fields its decoder requires and the fields its validator
checks. ApiServer is the router (`ServeHTTP` on the segments of the path, escaped
or not as net/url does it), the decoders of parameters and bodies, the encoders
with the status of each answer, and `Handlers`: for each operation the stages its
handler goes through in their order, security, params, request, handler, encode.
How net/url escapes a segment is a parameter (the constant operators
`PathEscape`, `PathUnescape`, `PathEncode` for its default form, and `HasSlash` and
`Slash` for what an unescaped segment may contain), and so is the router's
`Normalize`, which undoes the escapes nobody needs. A path is walked raw (`IsRaw`)
if any segment is not written in its default form. What the code relies on are
named assumptions: route segments need no escaping, segments joined by a slash
have a slash in them, and normalizing keeps what a segment stands for and leaves no
escape in one that stands for a segment of a route.
ApiClient is what each operation sends (method, path, query, body, whether it
asks for a credential) and which status and form it decodes into which type.

### ApiCall (with MCApiCall), RemoteCall

One call through all layers, one action per layer or stage: `Invoke` or
`OtherRequest` (requests no generated client would send), `Cors`,
`SessionMiddleware`, `createLoginHandler` and `createCallbackHandler` (Echo's own
routes, which shadow the generated handlers of the same paths), `Route`,
`Security`, `Params`, `RequestBody`, `Handle`, `Encode`, then `Decode` or
`FollowRedirect` at the client. `live` says that the caller's key exists in the
session store: a session, or a login state, which the layers do not tell apart;
`keyed`, a ghost, that a request named that key while it was alive. Any time the
key may end (`KeyEnds`), its lookup may fail, or the connection may be lost; the
server then goes on with a request whose client is gone. A GET that waits for its
answer may be sent again by net/http's transport (`Resend`). What an operation does is left open: it returns any
answer its interface declares, or an error.

RemoteCall is the promise to a caller: the operation called runs with the
parameters of the call, at most once for each time the call is sent, which is once
unless the call is `Replayable`, and the result is the answer of the last run or a
failure that says nothing about whether it ran. `ImplementsRemoteCall` maps
ApiCall to it.

*Abstractions.* Header and cookie name the same session (which of two different
ones wins is AuthSession's `ExtractSessionID`). Answers of handlers are well
formed. The literal comparisons of the router are segments, not bytes; the
methods FindPath and FindRoute, metrics, traces and labels are left out. One
generated client makes one call at a time, since calls share only the session.

### CallbackListener

One handler record per request of the browser, the two channels, the goroutine
of `Serve`, and the CLI at its select. Sending a token never waits (select with
default), sending an error does. The page's script is part of the model: after
its POST the page says success whatever the status was.

### CliClient (with MCCliClient)

`cli` holds one record per process: the next step, the command, the token in
memory (`bearerToken`), the one being checked or stored, and two ghosts (what the
server accepted in this command; whether a check failed). `file` is the token
file: missing, partial, or a token. `session` is the server's view of each token.
Actions follow ensureAuthenticated: `Check` the token in memory, `Discard` it and
the file after any error, `Environment` for BEARER_TOKEN, `SignIn` and `Verify`
for the browser flow, then SaveToken as `Truncate` and `WriteFile`, since
os.WriteFile is two system calls; a write may fail and leave anything it may have
got to. `Send` is the command's own request. `Command` starts a call, a login or a logout;
Logout only removes the file, the server is not told. `Killed` ends a process
anywhere, `SessionEnds` a session.

## 3. Runs

| run | instance | shows | states, time |
|---|---|---|---|
| auth_two_logins | 2 requests, 3 ids, 2 codes, 2 logins, failures, the clock stands | OwnerSignedIn, OneSessionPerSignIn, EndedStaysEnded | 140 s |
| auth_lifecycle | 2 requests, 2 ids, 1 code, TTL 2 and 1, clock to 2, failures | TypeOK, KeyLifetime, ImplementsLifecycle | 200 s |
| logout_race | 2 requests, no failures | LogoutInvalidates fails | seconds |
| admin_all | 2 requests, 2 names, 2 rows per table, pages of 1, failures | TypeOK, AnswersStayInProject, SuccessMeansWritten, CreatedUserIsOwn, NothingSkipped, WritesStayInProject | 4.2 M, 130 s |
| admin_lists | 1 request, no failures | ListsTheProject fails | seconds |
| lifecycle_plain | 480 files and environments without TLS, 2 requests | TypeOK, NoUseAfterClose, DatabaseFirst, BadConfigStops, StopsClean, InterruptStops | 16 k, 3 s |
| lifecycle_tls | the files and environments with TLS | InterruptStops fails | 15 k, 3 s |
| config_orgs | environments with and without a list of organizations | OrganizationsAsTold fails | seconds |
| callback_flow | 3 browser requests, 2 tokens | TypeOK, ReturnsValidToken, FlowReturns | 660 k, 30 s |
| callback_success | 1 browser request | SuccessIsTrue fails | seconds |
| api_calls | every operation, 3 ids, other requests | TypeOK, OnlyKeyHolders, LayersAgree, CleanInput, SignedInIsServed, AnswerArrives, ImplementsRemoteCall | 27 k, 15 s |
| cli_tokens | 2 processes, one with BEARER_TOKEN, 3 tokens | TypeOK, SentIsVouched, StoredIsVouched, KeptUnlessDoubted, CommandEnds | 219 k, 48 s |

**Bounds.** `MaxTime` and `MaxLogins` bound clock and logins, the set of codes the
sign-ins at GitHub, `MaxRows` the
tables (a full table refuses an insert like a duplicate does), `MaxInFlight` the
requests of the life cycle, the set of tokens the sign-ins of the CLI. Requests
and processes are slots that are used again, so their number over time is not
bounded, only how many overlap. Two overlap in every conflict the code can have
over one key, row or file (read and write, write and delete); that a third
changes nothing is proved for the safety properties (section 6). Three ids are what
two codes under one state, or one code under two states, need: two states and one
session, or one state and two sessions. In auth_two_logins nothing expires (its
properties meet expiry in the proofs, and EndedStaysEnded as part of
ImplementsLifecycle in auth_lifecycle). In auth_lifecycle the clock passes the TTL of
a login state, so its key expires under every step, and a request may be slower than
that TTL; the two TTLs differ because a refreshed login state moves from one store to
the other. Two names and two rows give a duplicate, a rename and a foreign project, and with
pages of one row an insertion between two pages. `OneTable` (MCAdminService)
fills items and users one at a time, because no statement joins them; the proofs
do without it. The configurations have every kind of field set, unset and, where
the kind can, unparsable; with 0, -1, 2 and 3 attempts. The ids of api_calls are one
with a slash, one that looks escaped, and the empty one, the other paths have
segments with escapes nobody needs, and MCApiCall gives the escaping of the
segments that occur; `MaxLimit` is 1 instead
of 100, with limits on both sides of its ends and an offset below zero; the other
requests are every path at which two layers read something different, with every
place for a credential. Three browser requests are what it takes to fill `errCh`
and block a sender. Symmetry over ids, codes, requests and names is used in runs
without liveness only.

**Deadlock** is checked for AuthSession, AdminService, ApiCall and CliClient. It
is switched off for ServerLifecycle and CallbackListener, which come to an end.

## 4. Fairness

*AuthSession* states safety only: the wait that could last, the callback's for
GitHub (http.DefaultClient has no timeout), is the one nothing in the code bounds.

*ServerLifecycle*: the two goroutines and the ten-second timer. Requests may
last for ever and the signal may never come.

*CallbackListener*: the handlers (their calls of the API server time out after
30 seconds), the CLI, the timers, the serving goroutine after Shutdown has
closed its listener. The browser may never come.

*CliClient*: a process takes its steps, and its checks end (30 seconds). `SignIn`
is not among them, since it waits for a person, nor is `Send`, since the
http.Client of the commands has no timeout (`pkg/client/cmd/root.go:46`) and a
silent server keeps it for ever. `CommandEnds` allows a command to stay at either.
Nothing is assumed of the server.

*AdminService* and *ApiCall* state safety only as well.

## 5. Disagreements between code and documentation

1. **A refresh undoes a logout** (`pkg/auth/session/redis_store.go:69`): it reads
   the session and writes it back in two commands; a Logout in between is
   answered 204 and overwritten; run logout_race. `EndedStaysEnded` is the part
   of the promise that does hold: nothing is revived once no write is under way.
   (A DEL that fails is answered 204 as well, `pkg/apis/v1alpha1/server.go:550`;
   the run leaves failures out, so that the race stands alone.)
2. **The lists of roles and user groups are always empty**
   (`pkg/apis/v1alpha1/server.go:242`, `:265`): the query's project id is never set;
   run admin_lists.
3. **With TLS an interrupt does not end the server** (`pkg/server/server.go:461`):
   its http.Server is not the one that is shut down; run lifecycle_tls.
4. **The CLI's page shows success for a refused token**
   (`pkg/client/auth/token.go:201`); run callback_success.
5. **GITHUB_ALLOWED_ORGS has no effect** (`pkg/envconfig/envconfig.go:67`): lists
   are skipped, and the empty list of the file lets every account in; run
   config_orgs.

Seen while modelling, without a run of its own: a login state is a Session without
a user under the prefix of the sessions, which the middleware accepts like one
(`pkg/middleware/session.go:44`). A refresh lets it live as long as a session
(`KeyLifetime` says so: the store last written through decides), GetCurrentUser
answers with the fields of no user, and the properties of the API layer therefore
speak of key holders, not of users who signed in. The generated client sends no
credential with the eight operations on roles and user groups
(`oas_client_gen.go:340`), so that the middleware answers each with 401
(`SignedInIsServed` says where it holds). The CLI's readiness and liveness checks
look only for an error, never at the status (`pkg/client/v1alpha1/client.go:148`).
An offset is cut to 32 bits (`pkg/apis/v1alpha1/server.go:465`). Errors of the
generated layer have a body `{"error_message"}` that no client type decodes. A
handler of the callback listener that has an error to send after the flow has
ended stays blocked when `errCh` is full (`pkg/client/auth/token.go:231`). Two callbacks with one state and two codes may both find the state, between its
Get and its Delete or after a Delete that failed (`pkg/server/server.go:235`, `:242`),
and each gets a session; `OneSessionPerSignIn` speaks of one code. A
BEARER_TOKEN that was refused stays in memory, so that the next command of an
interactive process may remove a stored token that is still good.

## 6. Proofs

Assumed of the constants: only the named ASSUMEs of the modules (special values
are different from ids, users, tokens and records; TTLs and the page size are
positive; bounds are natural numbers; a setup is a file and an environment of
this shape; None and Failed are no call, run or answer). Of the escaping of paths: an id that is escaped can be unescaped, a
segment of a route needs no escaping, segments joined by a slash contain one, and
the router's normalizing keeps what a segment stands for and leaves no escape in one
that stands for a segment of a route.
The sets of requests, processes, ids, users, names, tokens and setups may be of
any size.

| module | theorems | property of |
|---|---|---|
| AuthSessionProofs | TypeCorrect, EndedForever | TypeOK, EndedStaysEnded |
| AuthOwnerProofs | OwnersSignedIn, OneSession | OwnerSignedIn, OneSessionPerSignIn |
| AuthLifecycleProofs | KeysLast, ImplementsPromise | KeyLifetime, ImplementsLifecycle (refinement) |
| AdminServiceProofs | ServiceTypes, AnswersStay, SuccessWritten, CreatedUserOwn, PagesComplete, WritesStay | all of run admin_all |
| ApiCallProofs | ApiTypes, OnlyKeyHoldersRun, LayersAlwaysAgree, InputClean, SignedServed, AnswersArrive, ImplementsRemote | all of run api_calls, with the refinement |
| ServerLifecycleProofs | LifecycleTypes, OpenWhileServing, DatabaseAnswered, NonsenseStops, CleanStop | the safety of run lifecycle_plain, with TLS as well |
| CallbackListenerProofs | ListenerTypes, TokenValid | TypeOK, ReturnsValidToken |
| CliClientProofs | ClientTypes, SentVouched, StoredVouched, StoredKept | the safety of run cli_tokens |

**AuthSessionProofs.** TypeOK is not inductive: `CreateSet` stores `req[r].rec`,
which is a record only because of where the handler stands. The invariant is
`TInv == TypeOK /\ Shape /\ KeyedById`: Shape says which fields a request has at
which point of its handler (a record from MwGet on, an id during the callback),
KeyedById that Redis holds every record under its own id, which Refresh relies
on when it writes back what it has read. Lemmas about the ways to change a
request (Start, Respond, Goto, Carry, Number) keep the record expressions out of
the proofs of the actions; then there is one lemma per action and their union
StepTInv. EndedForever rests on TInv and on a case per kind of step: most leave
Redis alone and start no write (Harmless); Logout and StateDel only delete;
BeginLogin and Lookup start to write an id that is fresh, so it had not ended;
RefreshGet starts to write an id whose key exists; CreateTTL and CreateSet belong
to a write that was under way; Tick only removes; Crash stops all writes.

**AuthOwnerProofs.** Both properties are proved together from TInv and

    OwnerInv == Issued /\ Callbacks /\ OwnerSignedIn /\ OneSessionPerSignIn

They speak of records that exist; whether the next record breaks them depends on
what a request may still do with a code. Issued: a used code is somebody's.
Callbacks: a callback has a code that somebody signed in for, whatever its state;
once GitHub accepted the code the callback is the only one with it, the code is
marked used, and no session has come of it, so the record it makes is the first. A
second callback with the same code, under the same state or another, can no longer
have it accepted, and one with a second code makes a session of that code. Most
steps are *tame* (they change no code and no id, and what they store or carry
existed before), and one lemma, TameKeeps, does for all of them; SignIn only
gives an unissued code an owner.

**AuthLifecycleProofs.** For KeyLifetime, `LifeInv` follows a record through its
handler: that the record being written names the operation that writes it
(`Placed`), and how far ahead its expiry or its TTL may lie at each point (`Timed`),
while the clock moves on between any two steps. The TTL is computed by the store of
the request's operation, whatever kind of id the record has, and the bound of
KeyLifetime is that of the store written through last: Placed says that the two
agree.

For the refinement of SessionLifecycle the invariant adds to TInv that all
records with one id, in Redis or in the hands of requests, have one owner
(`Unique`) and an id that was generated (`Registered`). Three kinds of step: those that open an id
(BeginLogin, a successful Lookup) are `Promise!Open`, the middleware that finds a
key is `Promise!Admit`, and every other step only copies and drops records
(`Continues`), which makes it `Promise!End` of some ids and some requests, often
of none. That an id once ended is not opened again is StepKeepsEnded.

**AdminServiceProofs.** `AInv == TypeOK /\ Tables /\ AllGood /\ Behind`. A handler
goes on with what earlier statements found (`Good`: its parameters, its place, what
it wrote, what it answers), and that is still true later because tables only
`Grow`: nothing is deleted and a row keeps its project, its kind and, for a user,
its email. Behind says of a client that reads pages that the rows between its
offset and the end have been seen: an insertion only moves rows away from the
front.

**ApiCallProofs.** Most of the module is about the tables of the generated code,
as facts about operators that mention no state:

- *StagesOrdered*: the stages of all 21 handlers come in one order, so that what
  an earlier stage found is there when the operation runs.
- *Mirror*: for each operation the pairs of status and type that the server
  encodes are the ones the client decodes; a status has one decoder; and but for
  204 and 302, where no body is read, no decoder takes a body that another layer
  writes (middleware, router, error handler).
- *AllArrive*: what the client sends for a call is routed to that operation and
  decoded to the parameters given, or refused, for every id. The router is
  unfolded once for each length of a path (Serve2 to Serve5); an id is the same
  on both sides whether the path travels raw or not (IsRaw), because a path is
  read unescaped exactly once and the normalizing of a raw one does not change what its segments stand for.
- *PublicServed*: a path that the middleware takes for public, looking at it
  unescaped, is routed to a public operation or to none. It is where two layers
  read the same path differently, `health%2Fliveness` for instance.

The invariant then follows the request:

    Inv == Places /\ Sessions /\ Stages /\ Encoding /\ Own /\ Answered
           /\ TypeOK /\ OnlyKeyHolders /\ CleanInput /\ SignedInIsServed

None of the properties is inductive alone. OnlyKeyHolders looks only at the moment
an operation has run; that its request named a live key comes from the middleware,
several steps before, and is kept by Sessions although the key may end at any
time. A request sent again goes back to the first layer and is looked up again. CleanInput needs Stages: what the stages
passed so far have found about this request. Places says that there is no run
before the handler stage and no response before the end, hence at most one run for each
time the request is sent, and only a GET is sent again (ResendRepeats maps that step
to RemoteCall's Repeat);
Encoding that what is being encoded is what the run returned. Own says that a
request at the server is the client's while its call lasts, and Answered what the
client can be answered: a refusal that no decoder takes, or what its operation
returned. AnswersArrive follows from Answered and Mirror; the refinement besides
from AllArrive, which makes the parameters of the run those of the call.
LayersAgree follows from Sessions and PublicServed.

**ServerLifecycleProofs.** `LInv` follows `main`: what was opened needs a
configuration that loaded (ConfigFirst), the attempts at the database are counted
against what the operator told (Attempts), whatever is open has a cleanup and
stays open while it may be used (Open), and no request is left when the cleanups
begin (Serving): without TLS because Echo's Shutdown waited for them, with TLS
because the goroutine never returns while it serves.

**CallbackListenerProofs.** A token travels from its handler through the channel
to the result; `CInv` says what is known of it at each of these places (`Knows`,
ChannelValid). Accepted tokens only become more.

**CliClientProofs.** `PInv` is TypeOK and `Steady` of every process. Steady
speaks of the process alone, because file and sessions may change under it at
every step; another process touches it only through Unlink, which tells it that
its open file is gone.

**Only model-checked.** Liveness (InterruptStops, FlowReturns, CommandEnds), which is out of the prover's reach. Every other property of a
passing run is a theorem.

## 7. Plan

Composition: the credential of ApiCall with the sessions of AuthSession and the
tokens of CliClient, where a call now only knows whether its key is alive.

## 8. Not modelled

`pkg/redis` is used nowhere. `pkg/pg` formats a connection string. The request
logger and the CLI's tables and prompts are wording and layout. Of CORS only that
it answers a preflight before the session is looked at. Of the GitHub client the
outcomes of its calls and the membership rule, not its rendering of requests. Of
the generated code metrics, traces, labels and the accessor methods. Of the
configuration not the defaulting of the telemetry exporter. Deployment files and
scripts describe a development environment.
