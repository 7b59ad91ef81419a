---------------------------- MODULE AuthSession ----------------------------
(***************************************************************************)
(* The authentication core of admin-api: the OAuth login and callback      *)
(* handlers (pkg/server/server.go), the session middleware                 *)
(* (pkg/middleware/session.go), the handlers that use the session store    *)
(* (Logout, GetCurrentUser, RefreshToken of pkg/apis/v1alpha1/server.go)   *)
(* and the Redis store they all share (pkg/auth/session/redis_store.go).   *)
(*                                                                         *)
(* A request is a slot of Reqs that runs its handler one Redis or GitHub   *)
(* call at a time, so every other request, the clock and a crash of the    *)
(* process may come between two calls.  A command that fails may have      *)
(* taken effect (its reply was lost) or not.  A slot is reused once its    *)
(* response has been delivered or lost.                                    *)
(*                                                                         *)
(* The same key space (prefix "session:") holds login states and sessions, *)
(* as in the code; both are drawn from Ids by GenerateSessionID.  A client *)
(* may present any id it was given in any place: a login state as its      *)
(* credential, a session id as the state of a callback.  The code of a     *)
(* callback is independent of its state.                                   *)
(***************************************************************************)
EXTENDS Integers, FiniteSets

CONSTANTS
  Reqs,            \* request slots: how many requests may run at the same time
  Ids,             \* what GenerateSessionID may return; never twice the same
  Codes,           \* authorization codes of GitHub, one per visit to its authorize page
  Users,           \* GitHub accounts
  Orgs,            \* GitHub organisations
  OrgsOf,          \* the organisations of each account
  AllowedOrgs,     \* config Auth.GitHub.AllowedOrgs
  SessionTTL,      \* config Auth.SessionTTL, also the fallback TTL of sessionStore
  StateTTL,        \* the ten minutes of a login state, also the fallback of stateStore
  StoreMayFail,    \* whether Redis commands may return an error
  MaxTime,         \* bound of the model: the last value of the clock
  MaxLogins,       \* bound of the model: how many logins are started
  NoId, NoHeader, NoCode, NoUser, NoRec

ASSUME ReqsAndIds == NoId \notin Ids /\ NoHeader \notin Ids \cup {NoId}
ASSUME CodesAssumption == NoCode \notin Codes
ASSUME UsersAssumption == NoUser \notin Users
ASSUME OrgsAssumption == OrgsOf \in [Users -> SUBSET Orgs] /\ AllowedOrgs \subseteq Orgs
ASSUME TTLs == SessionTTL \in Nat \ {0} /\ StateTTL \in Nat \ {0}
ASSUME Bounds == MaxTime \in Nat /\ MaxLogins \in Nat
ASSUME FaultsAssumption == StoreMayFail \in BOOLEAN

Ops == {"login", "callback", "me", "logout", "refresh"}
ApiOps == {"me", "logout", "refresh"}
Writers == {"login", "callback", "refresh"}

\* session.Session as far as the properties tell sessions apart.  A login
\* state is a Session without a user.  code and by are ghosts: the code the
\* session comes from (NoCode for a login state), and the operation that wrote
\* the record last.
Rec == [id : Ids, code : Codes \cup {NoCode}, user : Users \cup {NoUser},
        expiresAt : Nat, by : Writers]

ASSUME NoRecAssumption == NoRec \notin Rec

\* Where a request stands: the call it makes next.
Pcs == {"idle", "state_get", "state_del", "exchange", "lookup",
        "mw_get", "mw_check", "admitted", "refresh_get",
        "create", "set", "done"}

VARIABLES
  now,        \* time.Now() of the server and the clock of Redis
  store,      \* Redis: the value of each key, NoRec when the key does not exist
  deadline,   \* Redis: when the key expires, 0 when it does not exist
  req,        \* the requests being served
  states,     \* ids generated by the login handler
  sessions,   \* ids generated by the callback handler
  codes,      \* GitHub, per code: whose sign-in it is, and whether it was used
  known       \* ids the clients have been given: login states and session ids

vars == <<now, store, deadline, req, states, sessions, codes, known>>

Unissued == [user |-> NoUser, used |-> FALSE]
NewRequest(op, id, code, pc, rec, status) ==
  [pc |-> pc, op |-> op, id |-> id, code |-> code, rec |-> rec,
   newExpiry |-> 0, ttl |-> 0, status |-> status]
Idle == NewRequest("me", NoId, NoCode, "idle", NoRec, 0)

Request == [pc : Pcs, op : Ops, id : Ids \cup {NoId}, code : Codes \cup {NoCode},
            rec : Rec \cup {NoRec}, newExpiry : Nat, ttl : Nat, status : {0, 200, 204, 302, 400, 401, 500}]

Init ==
  /\ now = 0
  /\ store = [id \in Ids |-> NoRec]
  /\ deadline = [id \in Ids |-> 0]
  /\ req = [r \in Reqs |-> Idle]
  /\ states = {} /\ sessions = {}
  /\ codes = [c \in Codes |-> Unissued]
  /\ known = {}

-----------------------------------------------------------------------------
(* Redis, as the session package uses it. *)

Exists(id) == store[id] # NoRec

\* Later than every moment of the model.
Forever == MaxTime + SessionTTL + StateTTL + 1

\* SET key data with a time to live; without one (0) the key never expires.
SetKey(id, rec, ttl) ==
  /\ store' = [store EXCEPT ![id] = rec]
  /\ deadline' = [deadline EXCEPT ![id] = IF ttl = 0 THEN Forever ELSE now + ttl]

\* DEL key
DelKey(id) ==
  /\ store' = [store EXCEPT ![id] = NoRec]
  /\ deadline' = [deadline EXCEPT ![id] = 0]

storeVars == <<store, deadline>>
envVars == <<now, states, sessions, codes, known>>

-----------------------------------------------------------------------------
(* Steps of a request. *)

Start(r, op, id, code, pc, rec, status) ==
  req' = [req EXCEPT ![r] = NewRequest(op, id, code, pc, rec, status)]
Respond(r, status) ==
  req' = [req EXCEPT ![r] = [@ EXCEPT !.pc = "done", !.status = status, !.newExpiry = 0, !.ttl = 0]]
Goto(r, pc) == req' = [req EXCEPT ![r] = [@ EXCEPT !.pc = pc]]
Carry(r, pc, rec) == req' = [req EXCEPT ![r] = [@ EXCEPT !.pc = pc, !.rec = rec]]

Fresh == Ids \ (states \cup sessions)

\* createLoginHandler up to stateStore.Create: a state and its Session.
BeginLogin(r) ==
  /\ req[r].pc = "idle"
  /\ Cardinality(states) < MaxLogins
  /\ \E s \in Fresh :
       /\ states' = states \cup {s}
       /\ Start(r, "login", s, NoCode, "create",
                [id |-> s, code |-> NoCode, user |-> NoUser,
                 expiresAt |-> now + StateTTL, by |-> "login"], 0)
  /\ UNCHANGED <<now, sessions, codes, known, storeVars>>

\* A browser comes to the callback with a code and a state, read from the
\* query independently: any id it was given, any code GitHub has issued, the
\* same ones again (reload, retry), or with one of them missing.
BeginCallback(r) ==
  /\ req[r].pc = "idle"
  /\ \E s \in known \cup {NoId}, c \in {x \in Codes : codes[x] # Unissued} \cup {NoCode} :
       IF s = NoId \/ c = NoCode THEN Start(r, "callback", s, c, "done", NoRec, 400)
                                 ELSE Start(r, "callback", s, c, "state_get", NoRec, 0)
  /\ UNCHANGED <<envVars, storeVars>>

\* extractSessionID: a "Bearer " header is used even when nothing follows it.
ExtractSessionID(header, cookie) == IF header = NoHeader THEN cookie ELSE header

\* A request for a path that is not public enters SessionMiddleware with an id
\* a client was given, a login state like a session id: the middleware looks
\* for either under the same prefix.
BeginApi(r) ==
  /\ req[r].pc = "idle"
  /\ \E op \in ApiOps, header \in known \cup {NoId, NoHeader}, cookie \in known \cup {NoId} :
       LET id == ExtractSessionID(header, cookie) IN
       IF id = NoId THEN Start(r, op, id, NoCode, "done", NoRec, 401)
                    ELSE Start(r, op, id, NoCode, "mw_get", NoRec, 0)
  /\ UNCHANGED <<envVars, storeVars>>

\* stateStore.Get: not found and a failed lookup are both an invalid state.
StateGet(r) ==
  /\ req[r].pc = "state_get"
  /\ \/ Exists(req[r].id) /\ Goto(r, "state_del")
     \/ ~Exists(req[r].id) /\ Respond(r, 401)
     \/ StoreMayFail /\ Respond(r, 401)
  /\ UNCHANGED <<envVars, storeVars>>

\* stateStore.Delete: a failure is only logged.
StateDel(r) ==
  /\ req[r].pc = "state_del"
  /\ \/ DelKey(req[r].id)
     \/ StoreMayFail /\ UNCHANGED storeVars
  /\ Goto(r, "exchange")
  /\ UNCHANGED envVars

\* Mutant of Exchange: an error of the exchange is logged and not returned.
ExchangeGoesOn(r) ==
  /\ req[r].pc = "exchange"
  /\ codes' = [codes EXCEPT ![req[r].code] = [@ EXCEPT !.used = TRUE]]
  /\ Goto(r, "lookup")
  /\ UNCHANGED <<now, states, sessions, known, storeVars>>

\* githubClient.ExchangeCode: GitHub accepts a code once.  The exchange may
\* also fail, before or after GitHub has used the code up.
Exchange(r) ==
  /\ req[r].pc = "exchange"
  /\ LET c == req[r].code IN
     \/ /\ ~codes[c].used
        /\ codes' = [codes EXCEPT ![c] = [@ EXCEPT !.used = TRUE]]
        /\ Goto(r, "lookup")
     \/ /\ \/ codes' = [codes EXCEPT ![c] = [@ EXCEPT !.used = TRUE]]
           \/ UNCHANGED codes
        /\ Respond(r, 401)
  /\ UNCHANGED <<now, states, sessions, known, storeVars>>

\* Mutant of ValidateOrgMembership: any organisation will do.
AnyoneIsMember(u) == AllowedOrgs = {} \/ OrgsOf[u] \subseteq Orgs

\* ValidateOrgMembership: an empty list of allowed organisations allows everyone.
ValidateOrgMembership(u) == AllowedOrgs = {} \/ OrgsOf[u] \cap AllowedOrgs # {}

\* GetUser, GetUserOrgs, ValidateOrgMembership and GetTeamMemberships, then the
\* new session.  Any of the first three may turn the request down; without
\* its teams the session is created all the same.
Lookup(r) ==
  /\ req[r].pc = "lookup"
  /\ LET c == req[r].code
         u == codes[c].user IN
     \/ /\ Respond(r, 401)
        /\ UNCHANGED sessions
     \/ /\ ValidateOrgMembership(u)
        /\ \E id \in Fresh :
             /\ sessions' = sessions \cup {id}
             /\ Carry(r, "create", [id |-> id, code |-> c, user |-> u,
                                    expiresAt |-> now + SessionTTL, by |-> "callback"])
  /\ UNCHANGED <<now, states, codes, known, storeVars>>

\* SessionMiddleware: store.Get.
MwGet(r) ==
  /\ req[r].pc = "mw_get"
  /\ \/ Exists(req[r].id) /\ Carry(r, "mw_check", store[req[r].id])
     \/ ~Exists(req[r].id) /\ Respond(r, 401)
     \/ StoreMayFail /\ Respond(r, 500)
  /\ UNCHANGED <<envVars, storeVars>>

\* SessionMiddleware: the record read may have expired all the same.
MwCheck(r) ==
  /\ req[r].pc = "mw_check"
  /\ IF now > req[r].rec.expiresAt THEN Respond(r, 401) ELSE Goto(r, "admitted")
  /\ UNCHANGED <<envVars, storeVars>>

\* Service.GetCurrentUser answers from the session in the request's context.
GetCurrentUser(r) ==
  /\ req[r].pc = "admitted" /\ req[r].op = "me"
  /\ Respond(r, 200)
  /\ UNCHANGED <<envVars, storeVars>>

\* Service.Logout: a failed Delete is only logged.
Logout(r) ==
  /\ req[r].pc = "admitted" /\ req[r].op = "logout"
  /\ \/ DelKey(req[r].rec.id)
     \/ StoreMayFail /\ UNCHANGED storeVars
  /\ Respond(r, 204)
  /\ UNCHANGED envVars

\* Service.RefreshToken: the new expiry is computed before the store is asked.
RefreshToken(r) ==
  /\ req[r].pc = "admitted" /\ req[r].op = "refresh"
  /\ req' = [req EXCEPT ![r] = [@ EXCEPT !.pc = "refresh_get", !.newExpiry = now + SessionTTL]]
  /\ UNCHANGED <<envVars, storeVars>>

\* Mutant of RefreshGet: the session of the request's context is written back
\* when the store has none.
RefreshFromContext(r) ==
  /\ req[r].pc = "refresh_get"
  /\ \/ Carry(r, "create", [req[r].rec EXCEPT !.expiresAt = req[r].newExpiry, !.by = "refresh"])
     \/ StoreMayFail /\ Respond(r, 401)
  /\ UNCHANGED <<envVars, storeVars>>

\* RedisStore.Refresh up to its call of Create.
RefreshGet(r) ==
  /\ req[r].pc = "refresh_get"
  /\ LET id == req[r].rec.id IN
     \/ /\ Exists(id)
        /\ Carry(r, "create", [store[id] EXCEPT !.expiresAt = req[r].newExpiry, !.by = "refresh"])
     \/ ~Exists(id) /\ Respond(r, 401)
     \/ StoreMayFail /\ Respond(r, 401)
  /\ UNCHANGED <<envVars, storeVars>>

\* RedisStore.Create, the time to live: a record that has expired by now gets
\* the full TTL of its store.
StoreTTL(op) == IF op = "login" THEN StateTTL ELSE SessionTTL

\* Mutant of TimeUntil: the difference the wrong way round.
TimeSince(t) == IF t > now THEN now - t ELSE 0

TimeUntil(t) == IF t > now THEN t - now ELSE 0

\* Mutant of CreateTTL: no fallback for a record that has expired.
CreateTTLNoFallback(r) ==
  /\ req[r].pc = "create"
  /\ req' = [req EXCEPT ![r] = [@ EXCEPT !.pc = "set", !.ttl = TimeUntil(req[r].rec.expiresAt)]]
  /\ UNCHANGED <<envVars, storeVars>>

CreateTTL(r) ==
  /\ req[r].pc = "create"
  /\ LET left == TimeUntil(req[r].rec.expiresAt) IN
     req' = [req EXCEPT ![r] = [@ EXCEPT
               !.pc = "set", !.ttl = IF left = 0 THEN StoreTTL(req[r].op) ELSE left]]
  /\ UNCHANGED <<envVars, storeVars>>

\* What the caller of Create answers when it succeeded and when it failed.
Created(op) == IF op = "refresh" THEN 200 ELSE 302
CreateFailed(op) == IF op = "refresh" THEN 401 ELSE 500

\* RedisStore.Create, the SET.
CreateSet(r) ==
  /\ req[r].pc = "set"
  /\ \/ /\ SetKey(req[r].rec.id, req[r].rec, req[r].ttl)
        /\ Respond(r, Created(req[r].op))
     \/ /\ StoreMayFail
        /\ SetKey(req[r].rec.id, req[r].rec, req[r].ttl) \/ UNCHANGED storeVars
        /\ Respond(r, CreateFailed(req[r].op))
  /\ UNCHANGED envVars

-----------------------------------------------------------------------------
(* The clients, the clock and the process. *)

\* The response reaches the client.  A redirect of a login has the state in its
\* Location, a redirect of a callback the session id, there and as a cookie.
Deliver(r) ==
  /\ req[r].pc = "done"
  /\ known' = IF req[r].status = 302 THEN known \cup {req[r].rec.id} ELSE known
  /\ req' = [req EXCEPT ![r] = Idle]
  /\ UNCHANGED <<now, states, sessions, codes, storeVars>>

\* A user follows the Location of a login, signs in, and GitHub issues a code:
\* another one at each visit to the same page.
SignIn ==
  /\ known \cap states # {}
  /\ \E c \in Codes, u \in Users :
       /\ codes[c] = Unissued
       /\ codes' = [codes EXCEPT ![c] = [user |-> u, used |-> FALSE]]
  /\ UNCHANGED <<now, req, states, sessions, known, storeVars>>

\* The response is lost: its client is gone.
LoseResponse(r) ==
  /\ req[r].pc = "done" /\ req[r].status = 302
  /\ req' = [req EXCEPT ![r] = Idle]
  /\ UNCHANGED <<envVars, storeVars>>

\* The process dies and is started again: Redis keeps its keys.
Crash ==
  /\ \E r \in Reqs : req[r].pc # "idle"
  /\ req' = [r \in Reqs |-> Idle]
  /\ UNCHANGED <<envVars, storeVars>>

\* Time passes; Redis drops the keys whose time to live is over.
Tick ==
  /\ now < MaxTime
  /\ now' = now + 1
  /\ store' = [id \in Ids |-> IF deadline[id] < now' THEN NoRec ELSE store[id]]
  /\ deadline' = [id \in Ids |-> IF deadline[id] < now' THEN 0 ELSE deadline[id]]
  /\ UNCHANGED <<req, states, sessions, codes, known>>

-----------------------------------------------------------------------------
Arrive(r) == BeginLogin(r) \/ BeginCallback(r) \/ BeginApi(r)

\* What the server does by itself, with Redis alone.
ServerStep(r) ==
  \/ StateGet(r) \/ StateDel(r)
  \/ MwGet(r) \/ MwCheck(r)
  \/ GetCurrentUser(r) \/ Logout(r) \/ RefreshToken(r) \/ RefreshGet(r)
  \/ CreateTTL(r) \/ CreateSet(r)

\* What waits for GitHub: no timeout bounds these calls.
GitHubStep(r) == Exchange(r) \/ Lookup(r)

Leave(r) == Deliver(r) \/ LoseResponse(r)

Next ==
  \/ \E r \in Reqs : Arrive(r) \/ ServerStep(r) \/ GitHubStep(r) \/ Leave(r)
  \/ SignIn
  \/ Crash
  \/ Tick

Spec == Init /\ [][Next]_vars

-----------------------------------------------------------------------------
(* Properties. *)

TypeOK ==
  /\ now \in Nat
  /\ store \in [Ids -> Rec \cup {NoRec}]
  /\ deadline \in [Ids -> Nat]
  /\ req \in [Reqs -> Request]
  /\ states \subseteq Ids /\ sessions \subseteq Ids
  /\ codes \in [Codes -> [user : Users \cup {NoUser}, used : BOOLEAN]]
  /\ known \subseteq Ids

\* The sessions (not login states) that Redis holds or some request carries.
SessionRecs ==
  {rec \in {store[id] : id \in Ids} \cup {req[r].rec : r \in Reqs} :
     rec # NoRec /\ rec.user # NoUser}

\* A request about to write the record of id, with or without its TTL.
Writes(r, id) == req[r].pc \in {"create", "set"} /\ req[r].rec.id = id

\* The session of a user comes from a sign-in of that user whose code GitHub
\* has accepted, and the user is allowed in, whatever state came with the code
\* and however the callbacks, refreshes and lost replies that produced the
\* record were interleaved (createCallbackHandler, RedisStore.Refresh).
OwnerSignedIn ==
  \A rec \in SessionRecs :
    /\ rec.id \in sessions
    /\ rec.code # NoCode /\ codes[rec.code] = [user |-> rec.user, used |-> TRUE]
    /\ AllowedOrgs # {} => \E org \in AllowedOrgs : org \in OrgsOf[rec.user]

\* One sign-in, which is one code of GitHub, gives at most one session: two
\* callbacks may find the same state (Get and Delete are two commands, and a
\* failed Delete is only logged), a callback may be sent again, with the same
\* state or another, and still no two session ids stem from the same code.
\* (Two codes may give two sessions, under one state as well.)
OneSessionPerSignIn ==
  \A a, b \in SessionRecs : a.code = b.code => a.id = b.id

\* Redis never drops a key before the expiry its record promises, and never
\* keeps one longer than the TTL of the store it was last written through: a
\* login state or a session that nobody writes again ends, whatever was slow
\* between the computation of the TTL and the SET, and also when the record had
\* expired by then (RedisStore.Create).  A refresh writes through sessionStore,
\* so a login state that is refreshed lives as long as a session.
KeyLifetime ==
  \A id \in Ids : Exists(id) =>
    /\ store[id].expiresAt <= deadline[id]
    /\ deadline[id] <= now + StoreTTL(store[id].by)

\* An id that was generated, has no key and is not being written has ended
\* (expired, logged out, or never stored), and it stays so: no refresh brings
\* it back (RedisStore.Refresh reads before it writes).
Ended(id) ==
  /\ id \in states \cup sessions
  /\ ~Exists(id)
  /\ \A r \in Reqs : ~Writes(r, id)
EndedStaysEnded == [][\A id \in Ids : Ended(id) => Ended(id)']_vars

\* The server implements the promise of SessionLifecycle.  An id is open while
\* Redis has its key or a request is about to write it.
Generated == states \cup sessions
Phase(id) == IF id \notin Generated THEN "unused" ELSE IF Ended(id) THEN "ended" ELSE "open"
RecordOf(id) == IF Exists(id) THEN store[id] ELSE req[CHOOSE r \in Reqs : Writes(r, id)].rec
Serving(r) == req[r].op \in ApiOps /\ req[r].rec # NoRec /\ req[r].pc # "done"

Promise == INSTANCE SessionLifecycle WITH
  Nobody <- NoRec,
  phase <- [id \in Ids |-> Phase(id)],
  owner <- [id \in Ids |-> IF Phase(id) = "open" THEN RecordOf(id).user ELSE NoUser],
  serving <- [r \in Reqs |-> IF Serving(r) THEN [id |-> req[r].id, user |-> req[r].rec.user] ELSE NoRec]
ImplementsLifecycle == Promise!Spec
=============================================================================
