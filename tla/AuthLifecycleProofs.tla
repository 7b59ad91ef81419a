------------------------- MODULE AuthLifecycleProofs -------------------------
(***************************************************************************)
(* Two results about the life of an id in AuthSession, for every number of *)
(* requests, ids and accounts and for every TTL.                           *)
(*                                                                         *)
(* KeyLifetime: a key lasts as long as its record promises, and no longer  *)
(* than the TTL of the store it was last written through.  The TTL of a    *)
(* key is computed from the record a request carries, at a time of its     *)
(* own, and by the store of that request.  So the invariant follows the    *)
(* record through the handler: which operation writes it (Placed) and how  *)
(* far its expiry may lie ahead (Timed).                                   *)
(*                                                                         *)
(* ImplementsLifecycle: a login and a callback that create a record open   *)
(* an id; the middleware that finds a key admits a request; every other    *)
(* step ends some ids and some requests, often none.  What must be known   *)
(* of the server for that: all records with one id, in Redis or in the     *)
(* hands of requests, have one owner (Unique) and an id that was generated *)
(* (Registered).                                                           *)
(***************************************************************************)
EXTENDS AuthSessionProofs

-----------------------------------------------------------------------------
(* The lifetime of keys.                                                   *)

CallbackPcs == {"state_get", "state_del", "exchange", "lookup"}

\* The record a request is about to write is marked with its operation.
Placed(q) ==
  /\ q.pc \in CallbackPcs => q.op = "callback"
  /\ q.pc = "refresh_get" => q.op = "refresh"
  /\ q.pc \in {"create", "set"} => q.rec.by = q.op

\* How far ahead of t the expiry of its record lies.
Timed(q, t) ==
  /\ q.pc = "refresh_get" => q.newExpiry <= t + SessionTTL
  /\ q.pc = "create" => q.rec.expiresAt <= t + StoreTTL(q.op)
  /\ q.pc = "set" => /\ 0 < q.ttl /\ q.ttl <= StoreTTL(q.op)
                     /\ q.rec.expiresAt <= t + q.ttl

Good == \A r \in Reqs : Placed(req[r]) /\ Timed(req[r], now)

LifeInv == TInv /\ KeyLifetime /\ Good

LEMMA InitLifeInv == Init => LifeInv
<1> SUFFICES ASSUME Init PROVE LifeInv
    OBVIOUS
<1>1. KeyLifetime
  BY DEF Init, KeyLifetime, Exists
<1>2. Good
  BY IdleRequest DEF Init, Good, Placed, Timed, CallbackPcs
<1> QED BY <1>1, <1>2, InitTInv DEF LifeInv

LEMMA StoreTTLs == \A op : StoreTTL(op) \in Nat /\ 0 < StoreTTL(op)
  BY TTLs DEF StoreTTL

-----------------------------------------------------------------------------
(* What one request does leaves the others good. *)

LEMMA StaysGood ==
  ASSUME TInv, TInv', now <= now', NEW q \in Request, WellShaped(q), Placed(q), Timed(q, now)
  PROVE  Timed(q, now')
<1>1. now \in Nat /\ now' \in Nat /\ SessionTTL \in Nat /\ StoreTTL(q.op) \in Nat
  BY TTLs DEF TInv, TypeOK, StoreTTL
<1>2. q.newExpiry \in Nat /\ q.ttl \in Nat
  BY Fields
<1>3. q.pc \in {"create", "set"} => q.rec.expiresAt \in Nat
  BY Fields, RecFields DEF WellShaped, HasRecord
<1>4. q.pc = "refresh_get" => q.newExpiry <= now' + SessionTTL
  BY <1>1, <1>2 DEF Timed
<1>5. q.pc = "create" => q.rec.expiresAt <= now' + StoreTTL(q.op)
  BY <1>1, <1>3 DEF Timed
<1>6. q.pc = "set" => 0 < q.ttl /\ q.ttl <= StoreTTL(q.op) /\ q.rec.expiresAt <= now' + q.ttl
  BY <1>1, <1>2, <1>3 DEF Timed
<1> QED BY <1>4, <1>5, <1>6 DEF Timed

LEMMA OneMoves ==
  ASSUME Good, UNCHANGED now, NEW r \in Reqs, Others(r), Placed(req'[r]), Timed(req'[r], now)
  PROVE  Good'
  BY DEF Good, Others

\* A step that lets no time pass, and at most deletes.
Still == UNCHANGED now /\ (UNCHANGED storeVars \/ \E id \in Ids : DelKey(id))

LEMMA StillKeeps ==
  ASSUME TInv, KeyLifetime, Still
  PROVE  KeyLifetime'
<1>1. store \in [Ids -> Rec \cup {NoRec}] /\ deadline \in [Ids -> Nat]
  BY DEF TInv, TypeOK
<1>2. \A id \in Ids : Exists(id)' => Exists(id) /\ store'[id] = store[id] /\ deadline'[id] = deadline[id]
  BY <1>1 DEF Still, storeVars, DelKey, Exists
<1> QED BY <1>2 DEF Still, KeyLifetime

LEMMA StillSteps ==
  ASSUME LifeInv, TInv', NEW r \in Reqs, Still, Others(r), Placed(req'[r]), Timed(req'[r], now)
  PROVE  LifeInv'
  BY StillKeeps, OneMoves DEF LifeInv, Still

\* A request at one of these points has no time to keep and nothing to write.
Careless(q) ==
  \/ q.pc \in {"idle", "done", "mw_get", "mw_check", "admitted"}
  \/ q.pc \in CallbackPcs /\ q.op = "callback"

LEMMA CarelessSteps ==
  ASSUME LifeInv, TInv', NEW r \in Reqs, Still, Others(r), Careless(req'[r])
  PROVE  LifeInv'
<1>1. Placed(req'[r]) /\ Timed(req'[r], now)
  BY DEF Careless, Placed, Timed, CallbackPcs
<1> QED BY <1>1, StillSteps

-----------------------------------------------------------------------------
(* The steps of handlers that have no time to keep. *)

LEMMA InHand ==
  ASSUME LifeInv, NEW r \in Reqs
  PROVE  /\ Requests /\ World /\ req[r] \in Request /\ WellShaped(req[r])
         /\ Placed(req[r]) /\ Timed(req[r], now) /\ now \in Nat
  BY Parts DEF LifeInv, Requests, World, Shape, Good

LEMMA Responds ==
  ASSUME LifeInv, NEW r \in Reqs, NEW status \in Statuses, Respond(r, status)
  PROVE  Others(r) /\ Careless(req'[r])
  BY InHand, RespondFields DEF Careless

LEMMA GoesOn ==
  ASSUME LifeInv, NEW r \in Reqs, NEW pc \in {"state_del", "exchange", "lookup"}, Goto(r, pc),
         req[r].pc \in CallbackPcs
  PROVE  Others(r) /\ Careless(req'[r])
<1>1. Requests /\ pc \in Pcs /\ pc \in CallbackPcs
  BY InHand DEF Pcs, CallbackPcs
<1>2. Others(r) /\ req'[r].pc = pc /\ req'[r].op = req[r].op
  BY <1>1, GotoFields
<1>3. req[r].op = "callback"
  BY InHand DEF Placed
<1> QED BY <1>1, <1>2, <1>3 DEF Careless

LEMMA Nothing ==
  ASSUME UNCHANGED <<envVars, storeVars>>
  PROVE  Still
  BY DEF envVars, Still

LEMMA BeginCallbackLife ==
  ASSUME LifeInv, TInv', NEW r \in Reqs, BeginCallback(r)
  PROVE  LifeInv'
<1>1. PICK op \in {"callback"}, s \in Ids \cup {NoId}, c \in Codes \cup {NoCode},
           pc \in {"done", "state_get"}, status \in {0, 400} :
        Start(r, op, s, c, pc, NoRec, status)
  BY InHand DEF BeginCallback, World
<1>2. op \in Ops /\ pc \in Pcs /\ status \in Statuses
  BY DEF Pcs, Ops, Statuses
<1>3. Begun(r, op, s, c, pc, status)
  BY <1>1, <1>2, InHand, StartBegins
<1>4. Others(r) /\ Careless(req'[r])
  BY <1>3 DEF Begun, Careless, CallbackPcs
<1>5. Still
  BY Nothing DEF BeginCallback
<1> QED BY <1>4, <1>5, CarelessSteps

LEMMA BeginApiLife ==
  ASSUME LifeInv, TInv', NEW r \in Reqs, BeginApi(r)
  PROVE  LifeInv'
<1>1. \A header \in known \cup {NoId, NoHeader}, cookie \in known \cup {NoId} :
        ExtractSessionID(header, cookie) \in Ids \cup {NoId}
  BY InHand DEF ExtractSessionID, World
<1>2. PICK op \in ApiOps, id \in Ids \cup {NoId}, pc \in {"done", "mw_get"}, status \in {0, 401} :
        Start(r, op, id, NoCode, pc, NoRec, status)
  BY <1>1 DEF BeginApi
<1>3. NoCode \in Codes \cup {NoCode} /\ op \in Ops /\ pc \in Pcs /\ status \in Statuses
  BY DEF Pcs, Ops, ApiOps, Statuses
<1>4. Begun(r, op, id, NoCode, pc, status)
  BY <1>2, <1>3, InHand, StartBegins
<1>5. Others(r) /\ Careless(req'[r])
  BY <1>4 DEF Begun, Careless
<1>6. Still
  BY Nothing DEF BeginApi
<1> QED BY <1>5, <1>6, CarelessSteps

LEMMA StateGetLife ==
  ASSUME LifeInv, TInv', NEW r \in Reqs, StateGet(r)
  PROVE  LifeInv'
<1>1. Others(r) /\ Careless(req'[r])
  BY Responds, GoesOn DEF StateGet, CallbackPcs, Statuses
<1>2. Still
  BY Nothing DEF StateGet
<1> QED BY <1>1, <1>2, CarelessSteps

LEMMA StateDelLife ==
  ASSUME LifeInv, TInv', NEW r \in Reqs, StateDel(r)
  PROVE  LifeInv'
<1>1. Others(r) /\ Careless(req'[r])
  BY GoesOn DEF StateDel, CallbackPcs
<1>2. req[r].id \in Ids
  BY InHand DEF StateDel, WellShaped, HasId
<1>3. Still
  BY <1>2 DEF StateDel, Still, envVars
<1> QED BY <1>1, <1>3, CarelessSteps

LEMMA ExchangeLife ==
  ASSUME LifeInv, TInv', NEW r \in Reqs, Exchange(r)
  PROVE  LifeInv'
<1>1. Others(r) /\ Careless(req'[r])
  BY Responds, GoesOn DEF Exchange, CallbackPcs, Statuses
<1>2. Still
  BY DEF Exchange, Still
<1> QED BY <1>1, <1>2, CarelessSteps

LEMMA MwGetLife ==
  ASSUME LifeInv, TInv', NEW r \in Reqs, MwGet(r)
  PROVE  LifeInv'
<1>1. Still
  BY Nothing DEF MwGet
<1>2. CASE \E status \in Statuses : Respond(r, status)
  BY <1>1, <1>2, Responds, CarelessSteps
<1>3. CASE Exists(req[r].id) /\ Carry(r, "mw_check", store[req[r].id])
  <2>1. store[req[r].id] \in Rec
    BY <1>3, InHand DEF MwGet, WellShaped, HasId, LifeInv, TInv, TypeOK, Exists
  <2>2. "mw_check" \in Pcs
    BY DEF Pcs
  <2>3. Others(r) /\ req'[r].pc = "mw_check"
    BY <1>3, <2>1, <2>2, InHand, CarryFields
  <2> QED BY <1>1, <2>3, CarelessSteps DEF Careless
<1> QED BY <1>2, <1>3 DEF MwGet, Statuses

LEMMA MwCheckLife ==
  ASSUME LifeInv, TInv', NEW r \in Reqs, MwCheck(r)
  PROVE  LifeInv'
<1>1. Still
  BY Nothing DEF MwCheck
<1>2. Others(r) /\ Careless(req'[r])
  BY InHand, Responds, GotoFields DEF MwCheck, Statuses, Pcs, Careless
<1> QED BY <1>1, <1>2, CarelessSteps

LEMMA GetCurrentUserLife ==
  ASSUME LifeInv, TInv', NEW r \in Reqs, GetCurrentUser(r)
  PROVE  LifeInv'
<1>1. Still
  BY Nothing DEF GetCurrentUser
<1> QED BY <1>1, Responds, CarelessSteps DEF GetCurrentUser, Statuses

LEMMA LogoutLife ==
  ASSUME LifeInv, TInv', NEW r \in Reqs, Logout(r)
  PROVE  LifeInv'
<1>1. req[r].rec.id \in Ids
  BY InHand, Fields, RecFields DEF Logout, WellShaped, HasRecord
<1>2. Still
  BY <1>1 DEF Logout, Still, envVars
<1>3. Others(r) /\ Careless(req'[r])
  BY Responds DEF Logout, Statuses
<1> QED BY <1>2, <1>3, CarelessSteps

LEMMA LeaveLife ==
  ASSUME LifeInv, TInv', NEW r \in Reqs, Leave(r)
  PROVE  LifeInv'
<1>1. Still
  BY DEF Leave, Deliver, LoseResponse, Still, envVars
<1>2. Others(r) /\ req'[r] = Idle
  BY IdleRequest, InHand, Replace DEF Leave, Deliver, LoseResponse
<1> QED BY <1>1, <1>2, IdleRequest, CarelessSteps DEF Careless

-----------------------------------------------------------------------------
(* The steps that choose an expiry or a TTL, and the SET. *)

LEMMA BeginLoginLife ==
  ASSUME LifeInv, TInv', NEW r \in Reqs, BeginLogin(r)
  PROVE  LifeInv'
<1>1. PICK s \in Fresh :
        Start(r, "login", s, NoCode, "create",
              [id |-> s, code |-> NoCode, user |-> NoUser,
               expiresAt |-> now + StateTTL, by |-> "login"], 0)
  BY DEF BeginLogin
<1> DEFINE rec == [id |-> s, code |-> NoCode, user |-> NoUser,
                   expiresAt |-> now + StateTTL, by |-> "login"]
<1>2. rec \in Rec /\ rec.expiresAt = now + StateTTL /\ rec.by = "login"
  BY InHand, TTLs DEF Rec, Fresh, Writers
<1>3. "login" \in Ops /\ s \in Ids \cup {NoId} /\ NoCode \in Codes \cup {NoCode} /\ "create" \in Pcs /\ 0 \in Statuses
  BY DEF Fresh, Ops, Pcs, Statuses
<1>4. Start(r, "login", s, NoCode, "create", rec, 0)
  BY <1>1
<1> HIDE DEF rec
<1>5. Others(r) /\ req'[r].pc = "create" /\ req'[r].op = "login" /\ req'[r].rec = rec
  BY <1>2, <1>3, <1>4, InHand, StartFields
<1>6. Placed(req'[r]) /\ Timed(req'[r], now)
  BY <1>2, <1>5, InHand, TTLs DEF Placed, Timed, StoreTTL, CallbackPcs
<1>7. Still
  BY DEF BeginLogin, Still
<1> QED BY <1>5, <1>6, <1>7, StillSteps

LEMMA LookupLife ==
  ASSUME LifeInv, TInv', NEW r \in Reqs, Lookup(r)
  PROVE  LifeInv'
<1> DEFINE New(id) == [id |-> id, code |-> req[r].code, user |-> codes[req[r].code].user,
                       expiresAt |-> now + SessionTTL, by |-> "callback"]
<1>1. Still /\ req[r].pc = "lookup"
  BY DEF Lookup, Still
<1>2. CASE Respond(r, 401)
  BY <1>1, <1>2, Responds, CarelessSteps DEF Statuses
<1>3. CASE \E id \in Fresh : Carry(r, "create", New(id))
  <2>1. PICK id \in Fresh : Carry(r, "create", New(id))
    BY <1>3
  <2> DEFINE rec == New(id)
  <2>2. rec \in Rec
    BY <1>1, InHand, TTLs DEF WellShaped, HasCode, World, Rec, Fresh, Writers
  <2>3. rec.expiresAt = now + SessionTTL /\ rec.by = "callback"
    OBVIOUS
  <2>4. "create" \in Pcs /\ Carry(r, "create", rec)
    BY <2>1 DEF Pcs
  <2> HIDE DEF rec
  <2>5. Others(r) /\ req'[r].pc = "create" /\ req'[r].op = req[r].op /\ req'[r].rec = rec
    BY <2>2, <2>4, InHand, CarryFields
  <2>6. req[r].op = "callback"
    BY <1>1, InHand DEF Placed, CallbackPcs
  <2>7. Placed(req'[r]) /\ Timed(req'[r], now)
    BY <2>3, <2>5, <2>6, InHand, TTLs DEF Placed, Timed, StoreTTL, CallbackPcs
  <2> QED BY <1>1, <2>5, <2>7, StillSteps
<1> QED BY <1>2, <1>3 DEF Lookup

\* The request q at the point pc with a new expiry or a new TTL.
WithPc(q, pc) == [q EXCEPT !.pc = pc]
WithExpiry(q, t) == [q EXCEPT !.newExpiry = t]
WithTTL(q, t) == [q EXCEPT !.ttl = t]

LEMMA NumbersSet ==
  ASSUME NEW q \in Request, NEW pc \in Pcs, NEW t \in Nat
  PROVE  LET e == WithExpiry(WithPc(q, pc), t)
             l == WithTTL(WithPc(q, pc), t) IN
         /\ e \in Request /\ e.pc = pc /\ e.op = q.op /\ e.rec = q.rec /\ e.newExpiry = t
         /\ l \in Request /\ l.pc = pc /\ l.op = q.op /\ l.rec = q.rec /\ l.ttl = t
<1> DEFINE m == WithPc(q, pc)
<1>1. m \in Request /\ m.pc = pc /\ m.op = q.op /\ m.rec = q.rec
  BY DEF Request, WithPc
<1> HIDE DEF m
<1>2. LET e == WithExpiry(m, t) IN
      e \in Request /\ e.pc = m.pc /\ e.op = m.op /\ e.rec = m.rec /\ e.newExpiry = t
  BY <1>1 DEF Request, WithExpiry
<1>3. LET l == WithTTL(m, t) IN
      l \in Request /\ l.pc = m.pc /\ l.op = m.op /\ l.rec = m.rec /\ l.ttl = t
  BY <1>1 DEF Request, WithTTL
<1> QED BY <1>1, <1>2, <1>3 DEF m

LEMMA RefreshTokenLife ==
  ASSUME LifeInv, TInv', NEW r \in Reqs, RefreshToken(r)
  PROVE  LifeInv'
<1> DEFINE q == req[r]
           t == now + SessionTTL
           e == WithExpiry(WithPc(q, "refresh_get"), t)
<1>1. q \in Request /\ q.op = "refresh" /\ t \in Nat /\ "refresh_get" \in Pcs
  BY InHand, TTLs DEF RefreshToken, Pcs
<1>2. req' = [req EXCEPT ![r] = e]
  BY DEF RefreshToken, WithExpiry, WithPc
<1> HIDE DEF q, t
<1>3. e \in Request /\ e.pc = "refresh_get" /\ e.op = q.op /\ e.newExpiry = t
  BY <1>1, NumbersSet
<1> HIDE DEF e
<1>4. Others(r) /\ req'[r] = e
  BY <1>2, <1>3, InHand, Replace
<1>5. Placed(e)
  BY <1>1, <1>3 DEF Placed, CallbackPcs
<1>6. Timed(e, now)
  BY <1>1, <1>3 DEF Timed, t
<1>7. Still
  BY Nothing DEF RefreshToken
<1> QED BY <1>4, <1>5, <1>6, <1>7, StillSteps

LEMMA RefreshGetLife ==
  ASSUME LifeInv, TInv', NEW r \in Reqs, RefreshGet(r)
  PROVE  LifeInv'
<1> DEFINE id == req[r].rec.id
           rec == [store[id] EXCEPT !.expiresAt = req[r].newExpiry, !.by = "refresh"]
<1>1. Still
  BY Nothing DEF RefreshGet
<1>2. CASE Respond(r, 401)
  BY <1>1, <1>2, Responds, CarelessSteps DEF Statuses
<1>3. CASE Exists(id) /\ Carry(r, "create", rec)
  <2>1. req[r].op = "refresh" /\ req[r].newExpiry <= now + SessionTTL
    BY InHand DEF RefreshGet, Placed, Timed
  <2>2. id \in Ids /\ req[r].newExpiry \in Nat
    BY InHand, Fields, RecFields DEF RefreshGet, WellShaped, HasRecord
  <2>3. store[id] \in Rec
    BY <1>3, <2>2 DEF LifeInv, TInv, TypeOK, Exists
  <2>4. rec \in Rec /\ rec.expiresAt = req[r].newExpiry /\ rec.by = "refresh"
    BY <2>2, <2>3 DEF Rec, Writers
  <2>5. "create" \in Pcs
    BY DEF Pcs
  <2> HIDE DEF id, rec
  <2>6. Others(r) /\ req'[r].pc = "create" /\ req'[r].op = req[r].op /\ req'[r].rec = rec
    BY <1>3, <2>4, <2>5, InHand, CarryFields
  <2>7. Placed(req'[r]) /\ Timed(req'[r], now)
    BY <2>1, <2>4, <2>6 DEF Placed, Timed, StoreTTL, CallbackPcs
  <2> QED BY <1>1, <2>6, <2>7, StillSteps
<1> QED BY <1>2, <1>3 DEF RefreshGet

\* The TTL reaches the expiry of the record and not past the TTL of the store,
\* also when the record has expired.
LEMMA CreateTTLLife ==
  ASSUME LifeInv, TInv', NEW r \in Reqs, CreateTTL(r)
  PROVE  LifeInv'
<1> DEFINE q == req[r]
           left == TimeUntil(q.rec.expiresAt)
           t == IF left = 0 THEN StoreTTL(q.op) ELSE left
           l == WithTTL(WithPc(q, "set"), t)
<1>1. q \in Request /\ q.pc = "create" /\ "set" \in Pcs
  BY InHand DEF CreateTTL, Pcs
<1>2. q.rec.by = q.op /\ q.rec.expiresAt <= now + StoreTTL(q.op)
  BY <1>1, InHand DEF Placed, Timed
<1>3. q.rec.expiresAt \in Nat /\ now \in Nat
  BY <1>1, InHand, Fields, RecFields DEF WellShaped, HasRecord
<1>4. StoreTTL(q.op) \in Nat /\ 0 < StoreTTL(q.op)
  BY StoreTTLs
<1>5. t \in Nat /\ 0 < t /\ t <= StoreTTL(q.op) /\ q.rec.expiresAt <= now + t
  BY <1>2, <1>3, <1>4 DEF TimeUntil
<1>6. req' = [req EXCEPT ![r] = l]
  BY DEF CreateTTL, WithTTL, WithPc
<1> HIDE DEF q, t
<1>7. l \in Request /\ l.pc = "set" /\ l.op = q.op /\ l.rec = q.rec /\ l.ttl = t
  BY <1>1, <1>5, NumbersSet
<1> HIDE DEF l
<1>8. Others(r) /\ req'[r] = l
  BY <1>6, <1>7, InHand, Replace
<1>9. Placed(l)
  BY <1>2, <1>7 DEF Placed, CallbackPcs
<1>10. Timed(l, now)
  BY <1>5, <1>7 DEF Timed
<1>11. Still
  BY Nothing DEF CreateTTL
<1> QED BY <1>8, <1>9, <1>10, <1>11, StillSteps

\* The SET: the key it writes has the record and the TTL of the request.
LEMMA CreateSetLife ==
  ASSUME LifeInv, TInv', NEW r \in Reqs, CreateSet(r)
  PROVE  LifeInv'
<1> DEFINE q == req[r]
<1>1. q \in Request /\ q.pc = "set"
  BY InHand DEF CreateSet
<1>2. q.rec.by = q.op /\ 0 < q.ttl /\ q.ttl <= StoreTTL(q.op) /\ q.rec.expiresAt <= now + q.ttl
  BY <1>1, InHand DEF Placed, Timed
<1>3. q.rec.id \in Ids /\ q.rec.expiresAt \in Nat
      /\ q.ttl \in Nat /\ now \in Nat /\ StoreTTL(q.op) \in Nat
  BY <1>1, InHand, Fields, RecFields, StoreTTLs DEF WellShaped, HasRecord
<1>4. Others(r) /\ Careless(req'[r])
  <2>1. PICK status \in Statuses : Respond(r, status)
    BY DEF CreateSet, Created, CreateFailed, Statuses
  <2> QED BY <2>1, Responds
<1>5. UNCHANGED now
  BY DEF CreateSet, envVars
<1>6. CASE UNCHANGED storeVars
  <2>1. Still
    BY <1>5, <1>6 DEF Still
  <2> QED BY <1>4, <2>1, CarelessSteps
<1>7. CASE SetKey(q.rec.id, q.rec, q.ttl)
  <2> DEFINE id == q.rec.id
  <2>1. /\ store' = [store EXCEPT ![id] = q.rec] /\ deadline' = [deadline EXCEPT ![id] = now + q.ttl]
    <3>1. q.ttl # 0
      BY <1>2, <1>3
    <3> HIDE DEF q
    <3> QED BY <3>1, <1>7 DEF SetKey
  <2>2. store \in [Ids -> Rec \cup {NoRec}] /\ deadline \in [Ids -> Nat] /\ KeyLifetime
    BY DEF LifeInv, TInv, TypeOK
  <2> HIDE DEF q
  <2>3. store'[id] = q.rec /\ deadline'[id] = now + q.ttl
    BY <1>3, <2>1, <2>2
  <2>4. \A x \in Ids : x # id => store'[x] = store[x] /\ deadline'[x] = deadline[x]
    BY <2>1, <2>2
  <2>5. KeyLifetime'
    <3>1. ASSUME NEW x \in Ids, x # id, Exists(x)'
          PROVE  /\ store'[x].expiresAt <= deadline'[x]
                 /\ deadline'[x] <= now' + StoreTTL(store'[x].by)
      BY <1>5, <2>2, <2>4, <3>1 DEF KeyLifetime, Exists
    <3>2. store'[id].expiresAt <= deadline'[id] /\ deadline'[id] <= now' + StoreTTL(store'[id].by)
      BY <1>2, <1>3, <1>5, <2>3
    <3> QED BY <3>1, <3>2 DEF KeyLifetime
  <2>6. Placed(req'[r]) /\ Timed(req'[r], now)
    BY <1>4 DEF Careless, Placed, Timed, CallbackPcs
  <2>7. Good'
    BY <1>4, <1>5, <2>6, OneMoves DEF LifeInv
  <2> QED BY <2>5, <2>7 DEF LifeInv
<1> QED BY <1>6, <1>7 DEF CreateSet

-----------------------------------------------------------------------------
(* The world: a sign-in, a crash, the clock. *)

LEMMA SignInLife ==
  ASSUME LifeInv, TInv', SignIn
  PROVE  LifeInv'
  BY DEF SignIn, storeVars, LifeInv, KeyLifetime, Good, Exists

LEMMA CrashLife ==
  ASSUME LifeInv, TInv', Crash
  PROVE  LifeInv'
<1>1. \A r \in Reqs : req'[r] = Idle
  BY DEF Crash
<1>2. Good'
  BY <1>1, IdleRequest DEF Good, Placed, Timed, CallbackPcs
<1>3. KeyLifetime'
  BY DEF Crash, envVars, storeVars, LifeInv, KeyLifetime, Exists
<1> QED BY <1>2, <1>3 DEF LifeInv

LEMMA TickLife ==
  ASSUME LifeInv, TInv', Tick
  PROVE  LifeInv'
<1>1. now \in Nat /\ now' = now + 1 /\ UNCHANGED req
  BY DEF Tick, LifeInv, TInv, TypeOK
<1>2. ASSUME NEW r \in Reqs
      PROVE  Placed(req'[r]) /\ Timed(req'[r], now')
  <2> DEFINE q == req[r]
  <2>1. q \in Request /\ WellShaped(q) /\ Placed(q) /\ Timed(q, now)
    BY InHand
  <2>2. req'[r] = q /\ now <= now'
    BY <1>1
  <2> HIDE DEF q
  <2> QED BY <2>1, <2>2, StaysGood DEF LifeInv
<1>3. Good'
  BY <1>2 DEF Good
<1>4. \A id \in Ids : Exists(id)' => Exists(id) /\ store'[id] = store[id] /\ deadline'[id] = deadline[id]
  BY DEF Tick, Exists
<1>5. KeyLifetime'
  <2> SUFFICES ASSUME NEW id \in Ids, Exists(id)'
               PROVE  /\ store'[id].expiresAt <= deadline'[id]
                      /\ deadline'[id] <= now' + StoreTTL(store'[id].by)
    BY DEF KeyLifetime
  <2>1. store[id].expiresAt <= deadline[id] /\ deadline[id] <= now + StoreTTL(store[id].by)
    BY <1>4 DEF LifeInv, KeyLifetime
  <2>2. deadline[id] \in Nat /\ StoreTTL(store[id].by) \in Nat
    BY StoreTTLs DEF LifeInv, TInv, TypeOK
  <2> QED BY <1>1, <1>4, <2>1, <2>2
<1> QED BY <1>3, <1>5 DEF LifeInv

LEMMA StepLifeInv ==
  ASSUME LifeInv, TInv', [Next]_vars
  PROVE  LifeInv'
<1>1. ASSUME NEW r \in Reqs, Arrive(r) PROVE LifeInv'
  BY <1>1, BeginLoginLife, BeginCallbackLife, BeginApiLife DEF Arrive
<1>2. ASSUME NEW r \in Reqs, ServerStep(r) PROVE LifeInv'
  BY <1>2, StateGetLife, StateDelLife, MwGetLife, MwCheckLife, GetCurrentUserLife, LogoutLife,
     RefreshTokenLife, RefreshGetLife, CreateTTLLife, CreateSetLife DEF ServerStep
<1>3. ASSUME NEW r \in Reqs, GitHubStep(r) PROVE LifeInv'
  BY <1>3, ExchangeLife, LookupLife DEF GitHubStep
<1>4. ASSUME NEW r \in Reqs, Leave(r) PROVE LifeInv'
  BY <1>4, LeaveLife
<1>5. CASE UNCHANGED vars
  BY <1>5 DEF vars, LifeInv, KeyLifetime, Good, Exists
<1> QED BY <1>1, <1>2, <1>3, <1>4, <1>5, SignInLife, CrashLife, TickLife DEF Next

\* Redis never drops a key before the expiry its record promises, and never
\* keeps one longer than the TTL of the store it was last written through,
\* however long a handler paused between the computation of the TTL and the SET
\* and whichever id the refresh was for (RedisStore.Create, RedisStore.Refresh).
THEOREM KeysLast == Spec => []KeyLifetime
<1>1. Init => LifeInv
  BY InitLifeInv
<1>2. LifeInv /\ TInv' /\ [Next]_vars => LifeInv'
  BY StepLifeInv
<1>3. Spec => []TInv
  BY AlwaysTInv
<1>4. LifeInv => KeyLifetime
  BY DEF LifeInv
<1> QED BY <1>1, <1>2, <1>3, <1>4, PTL DEF Spec

-----------------------------------------------------------------------------
(* The life of an id, from its opening to its end.                         *)

\* A record in Redis or in the hands of a request.
Record(rec) ==
  rec # NoRec /\ ((\E id \in Ids : rec = store[id]) \/ (\E r \in Reqs : rec = req[r].rec))

Unique == \A a, b \in Rec : Record(a) /\ Record(b) /\ a.id = b.id => a.user = b.user

Registered == \A a \in Rec : Record(a) => a.id \in states \cup sessions

\* A request without a session has no record, and only a callback is at the
\* steps of the callback.
Handlers ==
  \A r \in Reqs : /\ req[r].pc \in {"idle", "mw_get"} => req[r].rec = NoRec
                  /\ req[r].pc \in CallbackPcs => req[r].op = "callback"

UInv == TInv /\ Unique /\ Registered /\ Handlers

\* What a request is served as.
As(r) == IF Serving(r) THEN [id |-> req[r].id, user |-> req[r].rec.user] ELSE NoRec

-----------------------------------------------------------------------------
(* The abstract state. *)

Owned(id, u) == \E a \in Rec : Record(a) /\ a.id = id /\ a.user = u

OwnerOf(id) == IF Phase(id) = "open" THEN RecordOf(id).user ELSE NoUser

\* The owner of an open id is the user of a record with that id.
LEMMA OpenOwned ==
  /\ TInv => \A id \in Ids : Phase(id) = "open" => Owned(id, OwnerOf(id))
  /\ TInv' => \A id \in Ids : Phase(id)' = "open" =>
        \E u \in Users \cup {NoUser} : u = OwnerOf(id)' /\ Owned(id, u)'
<1>1. ASSUME TInv, NEW id \in Ids, Phase(id) = "open" PROVE Owned(id, OwnerOf(id))
  <2>1. Exists(id) \/ \E r \in Reqs : Writes(r, id)
    BY <1>1 DEF Phase, Ended, Generated
  <2>2. CASE Exists(id)
    <3>1. store[id] \in Rec /\ store[id].id = id
      BY <1>1, <2>2 DEF TInv, TypeOK, KeyedById, Exists
    <3>2. Record(store[id]) /\ OwnerOf(id) = store[id].user
      BY <1>1, <2>2 DEF Record, OwnerOf, RecordOf, Exists
    <3> QED BY <3>1, <3>2 DEF Owned
  <2>3. CASE ~Exists(id)
    <3> DEFINE r == CHOOSE r \in Reqs : Writes(r, id)
    <3>1. r \in Reqs /\ Writes(r, id)
      BY <2>1, <2>3
    <3>2. OwnerOf(id) = req[r].rec.user
      BY <1>1, <2>3 DEF OwnerOf, RecordOf
    <3> HIDE DEF r
    <3>3. req[r].rec \in Rec /\ req[r].rec # NoRec /\ req[r].rec.id = id
      BY <1>1, <3>1, Fields DEF TInv, TypeOK, Shape, WellShaped, HasRecord, Writes
    <3> QED BY <3>1, <3>2, <3>3 DEF Owned, Record
  <2> QED BY <2>2, <2>3
<1>2. ASSUME TInv', NEW id \in Ids, Phase(id)' = "open" 
      PROVE  \E u \in Users \cup {NoUser} : u = OwnerOf(id)' /\ Owned(id, u)'
  <2>1. Exists(id)' \/ \E r \in Reqs : Writes(r, id)'
    BY <1>2 DEF Phase, Ended, Generated
  <2>2. CASE Exists(id)'
    <3>1. store'[id] \in Rec /\ store'[id].id = id
      BY <1>2, <2>2 DEF TInv, TypeOK, KeyedById, Exists
    <3>2. OwnerOf(id)' = store'[id].user
      BY <1>2, <2>2 DEF OwnerOf, RecordOf
    <3>3. PICK u \in Users \cup {NoUser} : u = store'[id].user
      BY <3>1, RecFields
    <3>4. Owned(id, u)'
      BY <2>2, <3>1, <3>3 DEF Owned, Record, Exists
    <3> QED BY <3>2, <3>3, <3>4
  <2>3. CASE ~Exists(id)'
    <3>0. (CHOOSE x \in Reqs : Writes(x, id)') \in {x \in Reqs : Writes(x, id)'}
      BY <2>1, <2>3
    <3>1. PICK r \in Reqs : r = (CHOOSE x \in Reqs : Writes(x, id)') /\ Writes(r, id)'
      BY <3>0
    <3>2. OwnerOf(id)' = req'[r].rec.user
      BY <1>2, <2>3, <3>1 DEF OwnerOf, RecordOf
    <3>3. req'[r].rec \in Rec /\ req'[r].rec # NoRec /\ req'[r].rec.id = id
      BY <1>2, <3>1, Fields DEF TInv, TypeOK, Shape, WellShaped, HasRecord, Writes
    <3>4. PICK u \in Users \cup {NoUser} : u = req'[r].rec.user
      BY <3>3, RecFields
    <3>5. Owned(id, u)'
      BY <3>1, <3>3, <3>4 DEF Owned, Record
    <3> QED BY <3>2, <3>4, <3>5
  <2> QED BY <2>2, <2>3
<1> QED BY <1>1, <1>2

LEMMA OwnerKept ==
  ASSUME TInv, Unique, TInv', NEW id \in Ids, Phase(id)' = Phase(id),
         \A b \in Rec : Record(b)' /\ b.id = id => Owned(b.id, b.user)
  PROVE  OwnerOf(id)' = OwnerOf(id)
<1>1. CASE Phase(id) = "open"
  <2>1. Owned(id, OwnerOf(id))
    BY <1>1, OpenOwned
  <2>2. PICK u \in Users \cup {NoUser} : u = OwnerOf(id)' /\ Owned(id, u)'
    BY <1>1, OpenOwned
  <2>3. Owned(id, u)
    BY <2>2 DEF Owned
  <2> QED BY <2>1, <2>2, <2>3 DEF Owned, Unique
<1>2. CASE Phase(id) # "open"
  BY <1>2 DEF OwnerOf
<1> QED BY <1>1, <1>2

-----------------------------------------------------------------------------
(* Steps that end ids and requests. *)

\* Every record is a copy of one that was there.
Copies == \A b \in Rec : Record(b)' => Owned(b.id, b.user)

Continues ==
  /\ UNCHANGED <<states, sessions>>
  /\ Copies
  /\ \A r \in Reqs : As(r)' \in {As(r), NoRec}

LEMMA ContinuesEnds ==
  ASSUME UInv, TInv', [Next]_vars, Continues
  PROVE  Promise!Next
<1>s. PICK S \in SUBSET Ids : S = {id \in Ids : Phase(id) = "open" /\ Phase(id)' = "ended"}
  OBVIOUS
<1>r. PICK R \in SUBSET Reqs : R = {r \in Reqs : As(r)' = NoRec}
  OBVIOUS
<1>1. ASSUME NEW id \in Ids PROVE Phase(id)' = Phase(id) \/ id \in S
  BY <1>s, StepKeepsEnded DEF Continues, UInv, Phase, Generated
<1>2. ASSUME NEW id \in Ids, id \notin S PROVE OwnerOf(id)' = OwnerOf(id)
  BY <1>1, <1>2, OwnerKept DEF Continues, Copies, UInv
<1>3. \A id \in S : OwnerOf(id)' = NoUser /\ Phase(id)' = "ended" /\ Phase(id) = "open"
  BY <1>s DEF OwnerOf
<1>4. \A r \in Reqs : IF r \in R THEN As(r)' = NoRec ELSE As(r)' = As(r)
  BY <1>r DEF Continues
<1>5. Promise!End(S, R)
  <2>1. \A id \in S : [x \in Ids |-> Phase(x)][id] = "open"
    BY <1>3
  <2>2. [x \in Ids |-> Phase(x)'] = [id \in Ids |-> IF id \in S THEN "ended" ELSE [x \in Ids |-> Phase(x)][id]]
    BY <1>1, <1>3
  <2>3. [x \in Ids |-> OwnerOf(x)'] = [id \in Ids |-> IF id \in S THEN NoUser ELSE [x \in Ids |-> OwnerOf(x)][id]]
    BY <1>2, <1>3
  <2>4. [x \in Reqs |-> As(x)'] = [r \in Reqs |-> IF r \in R THEN NoRec ELSE [x \in Reqs |-> As(x)][r]]
    BY <1>4
  <2> QED BY <2>1, <2>2, <2>3, <2>4 DEF Promise!End, As, OwnerOf
<1> QED BY <1>5 DEF Promise!Next

-----------------------------------------------------------------------------
(* The steps of one request that open nothing and admit nobody. *)

LEMMA RecordOwned ==
  ASSUME TInv, NEW rec \in Rec, Record(rec)
  PROVE  Owned(rec.id, rec.user)
  BY DEF Owned

\* r carries nothing new, and writes at most the record it carries.
Faithful(r) ==
  /\ Others(r)
  /\ UNCHANGED <<states, sessions>>
  /\ \A id \in Ids : store'[id] \in {store[id], NoRec, req[r].rec}
  /\ req'[r].rec = NoRec \/ Owned(req'[r].rec.id, req'[r].rec.user)

LEMMA FaithfulCopies ==
  ASSUME TInv, NEW r \in Reqs, Faithful(r)
  PROVE  Copies
<1> SUFFICES ASSUME NEW b \in Rec, Record(b)' PROVE Owned(b.id, b.user)
    BY DEF Copies
<1>1. CASE \E id \in Ids : b = store'[id]
  <2>1. Record(b)
    BY <1>1 DEF Faithful, Record
  <2> QED BY <2>1, RecordOwned
<1>2. CASE b = req'[r].rec
  BY <1>2 DEF Faithful, Record
<1>3. CASE \E x \in Reqs : x # r /\ b = req'[x].rec
  <2>1. Record(b)
    BY <1>3 DEF Faithful, Others, Record
  <2> QED BY <2>1, RecordOwned
<1> QED BY <1>1, <1>2, <1>3 DEF Record

\* A step within a handler: the request and its record stay what they are.
Plain(r) ==
  /\ Others(r)
  /\ UNCHANGED <<states, sessions>>
  /\ \A id \in Ids : store'[id] \in {store[id], NoRec, req[r].rec}
  /\ req'[r].op = req[r].op /\ req'[r].id = req[r].id /\ req'[r].rec = req[r].rec
  /\ req[r].pc # "done" /\ req'[r].pc \notin {"idle", "mw_get"}
  /\ req'[r].pc \in CallbackPcs => req[r].pc \in CallbackPcs

LEMMA PlainContinues ==
  ASSUME TInv, Handlers, NEW r \in Reqs, Plain(r)
  PROVE  Continues /\ Handlers'
<1>1. req[r].rec = NoRec \/ Owned(req[r].rec.id, req[r].rec.user)
  <2>1. req[r].rec \in Rec \cup {NoRec}
    BY Fields DEF TInv, TypeOK
  <2>2. req[r].rec # NoRec => Record(req[r].rec)
    BY DEF Record
  <2> QED BY <2>1, <2>2, RecordOwned
<1>2. Copies
  BY <1>1, FaithfulCopies DEF Plain, Faithful
<1>3. \A x \in Reqs : As(x)' \in {As(x), NoRec}
  BY DEF Plain, Others, As, Serving
<1>4. Handlers'
  BY DEF Plain, Others, Handlers
<1> QED BY <1>2, <1>3, <1>4 DEF Plain, Continues

\* A request that starts or is over carries no record.
Empty(r) ==
  /\ Others(r)
  /\ UNCHANGED <<states, sessions, store>>
  /\ req'[r].rec = NoRec
  /\ req'[r].pc \in CallbackPcs => req'[r].op = "callback"

LEMMA EmptyContinues ==
  ASSUME TInv, Handlers, NEW r \in Reqs, Empty(r)
  PROVE  Continues /\ Handlers'
<1>1. Copies
  BY FaithfulCopies DEF Empty, Faithful
<1>2. \A x \in Reqs : As(x)' \in {As(x), NoRec}
  BY DEF Empty, Others, As, Serving
<1>3. Handlers'
  BY DEF Empty, Others, Handlers
<1> QED BY <1>1, <1>2, <1>3 DEF Empty, Continues

LEMMA HandlerSteps ==
  ASSUME TInv, NEW r \in Reqs,
         \/ StateGet(r) \/ StateDel(r) \/ Exchange(r) \/ MwCheck(r) \/ GetCurrentUser(r)
         \/ Logout(r) \/ RefreshToken(r) \/ CreateTTL(r) \/ CreateSet(r)
  PROVE  Plain(r)
<1>0. Requests /\ Shape /\ Redis /\ World
  BY Parts
<1>t. store \in [Ids -> Rec \cup {NoRec}]
  BY <1>0 DEF Redis
<1>1. CASE StateGet(r) \/ Exchange(r) \/ MwCheck(r) \/ GetCurrentUser(r)
  <2>1. {"state_del", "lookup", "admitted"} \subseteq Pcs /\ {200, 401} \subseteq Statuses
    BY DEF Pcs, Statuses
  <2>2. UNCHANGED <<states, sessions, store>>
    BY <1>1 DEF StateGet, Exchange, MwCheck, GetCurrentUser, envVars, storeVars
  <2>3. \/ \E status \in {200, 401} : Respond(r, status)
        \/ Goto(r, "state_del") /\ req[r].pc = "state_get"
        \/ Goto(r, "lookup") /\ req[r].pc = "exchange"
        \/ Goto(r, "admitted")
    BY <1>1 DEF StateGet, Exchange, MwCheck, GetCurrentUser
  <2>4. req[r].pc # "done"
    BY <1>1 DEF StateGet, Exchange, MwCheck, GetCurrentUser
  <2> QED BY <1>0, <2>1, <2>2, <2>3, <2>4, RespondFields, GotoFields DEF Plain, CallbackPcs
<1>2. CASE StateDel(r)
  <2>1. \A id \in Ids : store'[id] \in {store[id], NoRec, req[r].rec}
    BY <1>2, <1>t DEF StateDel, DelKey, storeVars
  <2>2. Goto(r, "exchange") /\ "exchange" \in Pcs
    BY <1>2 DEF StateDel, Pcs
  <2> QED BY <1>0, <1>2, <2>1, <2>2, GotoFields DEF StateDel, Plain, CallbackPcs, envVars
<1>3. CASE Logout(r)
  <2>1. \A id \in Ids : store'[id] \in {store[id], NoRec, req[r].rec}
    BY <1>3, <1>t DEF Logout, DelKey, storeVars
  <2>2. Respond(r, 204) /\ 204 \in Statuses
    BY <1>3 DEF Logout, Statuses
  <2> QED BY <1>0, <1>3, <2>1, <2>2, RespondFields DEF Logout, Plain, CallbackPcs, envVars
<1>4. CASE RefreshToken(r)
  <2>1. now + SessionTTL \in Nat /\ "refresh_get" \in Pcs
    BY <1>0, TTLs DEF World, Pcs
  <2>2. Number(r, "refresh_get", now + SessionTTL)
    BY <1>4 DEF RefreshToken, Number
  <2> QED BY <1>0, <1>4, <2>1, <2>2, NumberFields
          DEF RefreshToken, Plain, CallbackPcs, envVars, storeVars
<1>5. CASE CreateTTL(r)
  <2>1. req[r].rec \in Rec
    BY <1>0, <1>5, Fields DEF CreateTTL, Shape, WellShaped, HasRecord, Requests
  <2>2. (IF TimeUntil(req[r].rec.expiresAt) = 0 THEN StoreTTL(req[r].op) ELSE TimeUntil(req[r].rec.expiresAt)) \in Nat
    BY <1>0, <2>1, RecFields, TTLs DEF TimeUntil, StoreTTL, World
  <2>3. PICK t \in Nat : Number(r, "set", t)
    BY <1>5, <2>2 DEF CreateTTL, Number
  <2>4. "set" \in Pcs
    BY DEF Pcs
  <2> QED BY <1>0, <1>5, <2>3, <2>4, NumberFields
          DEF CreateTTL, Plain, CallbackPcs, envVars, storeVars
<1>6. CASE CreateSet(r)
  <2>1. \A id \in Ids : store'[id] \in {store[id], NoRec, req[r].rec}
    BY <1>6, <1>t DEF CreateSet, SetKey, storeVars
  <2>2. PICK status \in Statuses : Respond(r, status)
    BY <1>6 DEF CreateSet, Created, CreateFailed, Statuses
  <2> QED BY <1>0, <1>6, <2>1, <2>2, RespondFields DEF CreateSet, Plain, CallbackPcs, envVars
<1> QED BY <1>1, <1>2, <1>3, <1>4, <1>5, <1>6

LEMMA RefusedSteps ==
  ASSUME TInv, NEW r \in Reqs, NEW status \in Statuses, Respond(r, status),
         req[r].pc # "done", UNCHANGED <<store, states, sessions>>
  PROVE  Plain(r)
  BY Parts, RespondFields DEF Plain, CallbackPcs

LEMMA EmptySteps ==
  ASSUME TInv, NEW r \in Reqs,
         BeginCallback(r) \/ BeginApi(r) \/ Deliver(r) \/ LoseResponse(r)
  PROVE  Empty(r)
<1>0. Requests /\ Redis /\ World /\ Shape
  BY Parts
<1>1. UNCHANGED <<states, sessions, store>>
  BY DEF BeginCallback, BeginApi, Deliver, LoseResponse, envVars, storeVars
<1>2. CASE BeginCallback(r)
  <2>1. PICK op \in {"callback"}, s \in Ids \cup {NoId}, c \in Codes \cup {NoCode},
             pc \in {"done", "state_get"}, status \in {0, 400} :
          Start(r, op, s, c, pc, NoRec, status)
    BY <1>0, <1>2 DEF BeginCallback, World
  <2>2. op \in Ops /\ pc \in Pcs /\ status \in Statuses
    BY DEF Pcs, Ops, Statuses
  <2>3. Begun(r, op, s, c, pc, status)
    BY <1>0, <2>1, <2>2, StartBegins
  <2> QED BY <1>1, <2>3 DEF Begun, Empty
<1>3. CASE BeginApi(r)
  <2>1. \A header \in known \cup {NoId, NoHeader}, cookie \in known \cup {NoId} :
          ExtractSessionID(header, cookie) \in Ids \cup {NoId}
    BY <1>0 DEF ExtractSessionID, World
  <2>2. PICK op \in ApiOps, id \in Ids \cup {NoId}, pc \in {"done", "mw_get"}, status \in {0, 401} :
          Start(r, op, id, NoCode, pc, NoRec, status)
    BY <1>3, <2>1 DEF BeginApi
  <2>3. NoCode \in Codes \cup {NoCode} /\ op \in Ops /\ pc \in Pcs /\ status \in Statuses
    BY DEF Pcs, Ops, ApiOps, Statuses
  <2>4. Begun(r, op, id, NoCode, pc, status)
    BY <1>0, <2>2, <2>3, StartBegins
  <2> QED BY <1>1, <2>4 DEF Begun, Empty, CallbackPcs
<1>4. CASE Deliver(r) \/ LoseResponse(r)
  <2>1. req' = [req EXCEPT ![r] = Idle]
    BY <1>4 DEF Deliver, LoseResponse
  <2>2. Others(r) /\ req'[r] = Idle
    BY <1>0, <2>1, IdleRequest, Replace
  <2> QED BY <1>1, <2>2, IdleRequest DEF Empty, CallbackPcs
<1> QED BY <1>2, <1>3, <1>4

LEMMA RefreshGetContinues ==
  ASSUME TInv, Unique, Handlers, NEW r \in Reqs, RefreshGet(r)
  PROVE  Continues /\ Handlers'
<1>0. Requests /\ Shape /\ Redis
  BY Parts
<1>u. UNCHANGED <<states, sessions, store>> /\ req[r].pc = "refresh_get"
  BY DEF RefreshGet, envVars, storeVars
<1>1. CASE Respond(r, 401)
  <2>1. 401 \in Statuses
    BY DEF Statuses
  <2>2. Plain(r)
    BY <1>1, <1>u, <2>1, RefusedSteps
  <2> QED BY <2>2, PlainContinues
<1>2. CASE Exists(req[r].rec.id) /\ Carry(r, "create", [store[req[r].rec.id] EXCEPT !.expiresAt = req[r].newExpiry, !.by = "refresh"])
  <2> DEFINE key == req[r].rec.id
             rec == [store[key] EXCEPT !.expiresAt = req[r].newExpiry, !.by = "refresh"]
  <2>1. /\ key \in Ids /\ store[key] \in Rec /\ store[key] # NoRec /\ store[key].id = key
        /\ req[r].newExpiry \in Nat /\ req[r].rec \in Rec /\ req[r].rec # NoRec
    BY <1>0, <1>2, <1>u, Fields, RecFields
       DEF Shape, WellShaped, HasRecord, Redis, KeyedById, Exists, Requests
  <2>2. rec \in Rec /\ rec.id = key /\ rec.user = store[key].user
    BY <2>1 DEF Rec, Writers
  <2>3. Carry(r, "create", rec)
    BY <1>2
  <2>4. store[key].user = req[r].rec.user
    BY <2>1 DEF Record, Unique
  <2>5. Owned(key, store[key].user)
    BY <2>1 DEF Owned, Record
  <2>6. key = req[r].rec.id
    OBVIOUS
  <2> HIDE DEF rec, key
  <2>7. /\ Others(r) /\ req'[r].pc = "create" /\ req'[r].op = req[r].op
        /\ req'[r].id = req[r].id /\ req'[r].rec = rec
    BY <1>0, <2>2, <2>3, CarryFields DEF Pcs
  <2>8. Copies
    BY <1>u, <2>2, <2>5, <2>7, FaithfulCopies DEF Faithful
  <2>9. \A x \in Reqs : As(x)' \in {As(x), NoRec}
    BY <1>u, <2>1, <2>2, <2>4, <2>7 DEF Others, As, Serving
  <2>10. Handlers'
    BY <2>7 DEF Others, Handlers, CallbackPcs
  <2> QED BY <1>u, <2>8, <2>9, <2>10 DEF Continues
<1> QED BY <1>1, <1>2 DEF RefreshGet

\* A user signs in, the process dies, time passes, nothing happens.
LEMMA WorldContinues ==
  ASSUME TInv, Handlers, SignIn \/ Crash \/ Tick \/ UNCHANGED vars
  PROVE  Continues /\ Handlers'
<1>0. store \in [Ids -> Rec \cup {NoRec}]
  BY DEF TInv, TypeOK
<1>1. UNCHANGED <<states, sessions>>
  BY DEF SignIn, Crash, Tick, vars, envVars
<1>2. \A id \in Ids : store'[id] \in {store[id], NoRec}
  BY <1>0 DEF SignIn, Crash, Tick, vars, storeVars
<1>3. \A r \in Reqs : req'[r] = req[r] \/ (req'[r].rec = NoRec /\ req'[r].pc = "idle")
  BY IdleRequest DEF SignIn, Crash, Tick, vars
<1>4. Copies
  <2> SUFFICES ASSUME NEW b \in Rec, Record(b)' PROVE Owned(b.id, b.user)
      BY DEF Copies
  <2>1. Record(b)
    BY <1>2, <1>3 DEF Record
  <2> QED BY <2>1, RecordOwned
<1>5. \A r \in Reqs : As(r)' \in {As(r), NoRec}
  BY <1>3 DEF As, Serving
<1>6. Handlers'
  BY <1>3 DEF Handlers, CallbackPcs
<1> QED BY <1>1, <1>4, <1>5, <1>6 DEF Continues

\* What keeps the records keeps the invariant.
LEMMA CopiesKeep ==
  ASSUME UInv, TInv', Handlers', Copies, states \cup sessions \subseteq states' \cup sessions'
  PROVE  UInv'
<1>1. Unique'
  BY DEF Copies, Owned, UInv, Unique
<1>2. Registered'
  BY DEF Copies, Owned, UInv, Registered
<1> QED BY <1>1, <1>2 DEF UInv

-----------------------------------------------------------------------------
(* The middleware finds a key. *)

LEMMA MwGetStep ==
  ASSUME UInv, TInv', [Next]_vars, NEW r \in Reqs, MwGet(r)
  PROVE  Promise!Next /\ UInv'
<1>0. Requests /\ Shape /\ Redis
  BY Parts DEF UInv
<1>u. UNCHANGED <<states, sessions, store>> /\ req[r].pc = "mw_get"
  BY DEF MwGet, envVars, storeVars
<1>1. CASE \E status \in {401, 500} : Respond(r, status)
  <2>1. {401, 500} \subseteq Statuses
    BY DEF Statuses
  <2>2. Plain(r)
    BY <1>1, <1>u, <2>1, RefusedSteps DEF UInv
  <2>3. Continues /\ Handlers'
    BY <2>2, PlainContinues DEF UInv
  <2> QED BY <2>3, ContinuesEnds, CopiesKeep DEF Continues
<1>2. CASE Exists(req[r].id) /\ Carry(r, "mw_check", store[req[r].id])
  <2>0. PICK id \in Ids, rec \in Rec : id = req[r].id /\ rec = store[id]
    BY <1>0, <1>2, <1>u DEF Shape, WellShaped, HasId, Redis, Exists
  <2>1. id \in Ids /\ rec \in Rec /\ rec # NoRec /\ rec.id = id /\ req[r].rec = NoRec
    BY <1>0, <1>2, <1>u, <2>0 DEF Redis, KeyedById, Exists, UInv, Handlers
  <2>2. Carry(r, "mw_check", rec) /\ Exists(id) /\ "mw_check" \in Pcs
    BY <1>2, <2>0 DEF Pcs
  <2>3. /\ Others(r) /\ req'[r].pc = "mw_check" /\ req'[r].op = req[r].op
        /\ req'[r].id = id /\ req'[r].rec = rec
    BY <1>0, <2>0, <2>1, <2>2, CarryFields
  <2>4. Record(rec) /\ Owned(rec.id, rec.user)
    BY <2>0, <2>1 DEF Record, Owned
  <2>5. Copies
    BY <1>u, <2>3, <2>4, FaithfulCopies DEF Faithful, UInv
  <2>6. Handlers'
    BY <2>3 DEF Others, Handlers, CallbackPcs, UInv
  <2>7. UInv'
    BY <1>u, <2>5, <2>6, CopiesKeep
  <2>8. As(r) = NoRec
    BY <2>1 DEF As, Serving
  <2>9. \A x \in Reqs : x # r => As(x)' = As(x)
    BY <2>3 DEF Others, As, Serving
  <2>10. CASE req[r].op \notin ApiOps
    <3>1. As(r)' = NoRec
      BY <2>3, <2>10 DEF As, Serving
    <3> QED BY <1>u, <2>5, <2>7, <2>9, <3>1, ContinuesEnds DEF Continues
  <2>11. CASE req[r].op \in ApiOps
    <3>1. As(r)' = [id |-> id, user |-> rec.user]
      BY <2>1, <2>3, <2>11 DEF As, Serving
    <3>2. Phase(id) = "open"
      BY <2>1, <2>2, <2>4 DEF Phase, Generated, Ended, UInv, Registered
    <3>3. OwnerOf(id) = rec.user
      BY <2>0, <2>2, <3>2 DEF OwnerOf, RecordOf
    <3>4. \A x \in Ids : Ended(x)' <=> Ended(x)
      BY <1>u, <2>3 DEF Ended, Exists, Writes, Others
    <3>5. \A x \in Ids : Phase(x)' = Phase(x)
      BY <1>u, <3>4 DEF Phase, Generated
    <3>6. \A x \in Ids : OwnerOf(x)' = OwnerOf(x)
      BY <2>5, <3>5, OwnerKept DEF Copies, UInv
    <3>7. Promise!Admit(r, id)
      <4>1. [x \in Reqs |-> As(x)][r] = NoRec
        BY <2>8
      <4>2. [x \in Ids |-> Phase(x)][id] = "open" /\ [x \in Ids |-> OwnerOf(x)][id] = rec.user
        BY <2>1, <3>2, <3>3
      <4>3. [x \in Ids |-> Phase(x)'] = [x \in Ids |-> Phase(x)]
        BY <3>5
      <4>4. [x \in Ids |-> OwnerOf(x)'] = [x \in Ids |-> OwnerOf(x)]
        BY <3>6
      <4>5. [x \in Reqs |-> As(x)'] = [[x \in Reqs |-> As(x)] EXCEPT ![r] = [id |-> id, user |-> rec.user]]
        BY <2>9, <3>1
      <4> QED BY <4>1, <4>2, <4>3, <4>4, <4>5 DEF Promise!Admit, As, OwnerOf
    <3> QED BY <2>1, <2>7, <3>7 DEF Promise!Next
  <2> QED BY <2>7, <2>10, <2>11
<1> QED BY <1>1, <1>2 DEF MwGet

-----------------------------------------------------------------------------
(* A login state, a session: a request opens an id nobody has used. *)

Opens(r, id, rec) ==
  /\ id \in Fresh /\ rec \in Rec /\ rec.id = id
  /\ Others(r)
  /\ UNCHANGED store
  /\ states' \cup sessions' = (states \cup sessions) \cup {id}
  /\ req[r].pc \notin {"create", "set"} /\ ~Serving(r)
  /\ req'[r].pc = "create" /\ req'[r].op \notin ApiOps /\ req'[r].rec = rec

LEMMA OpenStep ==
  ASSUME UInv, TInv', [Next]_vars, NEW r \in Reqs, NEW id \in Ids, NEW rec \in Rec, Opens(r, id, rec)
  PROVE  Promise!Next /\ UInv'
<1>1. \A b \in Rec : Record(b)' => Owned(b.id, b.user) \/ b = rec
  <2> SUFFICES ASSUME NEW b \in Rec, Record(b)', b # rec PROVE Record(b)
      BY RecordOwned DEF UInv
  <2>1. CASE \E x \in Ids : b = store'[x]
    BY <2>1 DEF Opens, Record
  <2>2. CASE \E x \in Reqs : b = req'[x].rec
    BY <2>2 DEF Opens, Record, Others
  <2> QED BY <2>1, <2>2 DEF Record
<1>2. \A u \in Users \cup {NoUser} : ~Owned(id, u)
  BY DEF Owned, UInv, Registered, Opens, Fresh
<1>3. UInv'
  <2>1. Unique'
    <3> SUFFICES ASSUME NEW a \in Rec, NEW b \in Rec, Record(a)', Record(b)', a.id = b.id
                 PROVE  a.user = b.user
        BY DEF Unique
    <3>1. a.user \in Users \cup {NoUser} /\ b.user \in Users \cup {NoUser}
      BY RecFields
    <3>2. CASE a.id = id
      BY <1>1, <1>2, <3>1, <3>2
    <3>3. CASE a.id # id
      <4>1. Owned(a.id, a.user) /\ Owned(a.id, b.user)
        BY <1>1, <3>3 DEF Opens
      <4> QED BY <4>1 DEF Owned, UInv, Unique
    <3> QED BY <3>2, <3>3
  <2>2. Registered'
    BY <1>1 DEF Owned, UInv, Registered, Opens
  <2>3. Handlers'
    BY DEF UInv, Handlers, Opens, Others, CallbackPcs
  <2> QED BY <2>1, <2>2, <2>3 DEF UInv
<1>4. Phase(id) = "unused" /\ Phase(id)' = "open"
  BY DEF Opens, Fresh, Phase, Generated, Ended, Writes
<1>5. ASSUME NEW x \in Ids, x # id PROVE Phase(x)' = Phase(x)
  <2>1. CASE Ended(x)
    <3>1. Ended(x)'
      BY <2>1, StepKeepsEnded DEF UInv
    <3> QED BY <2>1, <3>1 DEF Phase, Generated, Ended
  <2>2. CASE ~Ended(x) /\ x \in states \cup sessions
    <3>1. Exists(x) \/ \E y \in Reqs : y # r /\ Writes(y, x)
      BY <2>2 DEF Ended, Opens, Writes
    <3>2. Exists(x)' \/ \E y \in Reqs : Writes(y, x)'
      BY <3>1 DEF Exists, Opens, Others, Writes
    <3> QED BY <2>2, <3>2 DEF Phase, Generated, Ended, Opens
  <2>3. CASE x \notin states \cup sessions
    BY <1>5, <2>3 DEF Phase, Generated, Opens
  <2> QED BY <2>1, <2>2, <2>3
<1>6. ASSUME NEW x \in Ids, x # id PROVE OwnerOf(x)' = OwnerOf(x)
  <2>1. \A b \in Rec : Record(b)' /\ b.id = x => Owned(b.id, b.user)
    BY <1>1, <1>6 DEF Opens
  <2> QED BY <1>5, <1>6, <2>1, OwnerKept DEF UInv
<1>7. OwnerOf(id)' = rec.user
  <2>1. PICK u \in Users \cup {NoUser} : u = OwnerOf(id)' /\ Owned(id, u)'
    BY <1>4, OpenOwned
  <2>2. u = rec.user
    BY <1>1, <1>2, <2>1, RecFields DEF Owned
  <2> QED BY <2>1, <2>2
<1>8. \A x \in Reqs : As(x)' = As(x)
  BY DEF Opens, Others, As, Serving
<1>9. Promise!Open(id, rec.user)
  <2>1. [x \in Ids |-> Phase(x)][id] = "unused"
    BY <1>4
  <2>2. [x \in Ids |-> Phase(x)'] = [[x \in Ids |-> Phase(x)] EXCEPT ![id] = "open"]
    BY <1>4, <1>5
  <2>3. [x \in Ids |-> OwnerOf(x)'] = [[x \in Ids |-> OwnerOf(x)] EXCEPT ![id] = rec.user]
    BY <1>6, <1>7
  <2>4. [x \in Reqs |-> As(x)'] = [x \in Reqs |-> As(x)]
    BY <1>8
  <2> QED BY <2>1, <2>2, <2>3, <2>4 DEF Promise!Open, As, OwnerOf
<1>10. rec.user \in Promise!Owners
  BY RecFields DEF Promise!Owners
<1> QED BY <1>3, <1>9, <1>10 DEF Promise!Next

LEMMA BeginLoginOpens ==
  ASSUME TInv, Handlers, NEW r \in Reqs, BeginLogin(r)
  PROVE  \E id \in Ids, rec \in Rec : Opens(r, id, rec)
<1>0. Requests /\ Redis /\ World
  BY Parts
<1>1. PICK s \in Fresh : /\ states' = states \cup {s}
        /\ Start(r, "login", s, NoCode, "create",
                 [id |-> s, code |-> NoCode, user |-> NoUser,
                  expiresAt |-> now + StateTTL, by |-> "login"], 0)
  BY DEF BeginLogin
<1> DEFINE rec == [id |-> s, code |-> NoCode, user |-> NoUser,
                   expiresAt |-> now + StateTTL, by |-> "login"]
<1>2. rec \in Rec /\ rec.id = s
  BY <1>0, TTLs DEF World, Rec, Fresh, Writers
<1>3. "login" \in Ops /\ s \in Ids \cup {NoId} /\ NoCode \in Codes \cup {NoCode} /\ "create" \in Pcs /\ 0 \in Statuses
  BY DEF Fresh, Ops, Pcs, Statuses
<1>4. Start(r, "login", s, NoCode, "create", rec, 0)
  BY <1>1
<1> HIDE DEF rec
<1>5. Others(r) /\ req'[r].pc = "create" /\ req'[r].op = "login" /\ req'[r].rec = rec
  BY <1>0, <1>2, <1>3, <1>4, StartFields
<1>6. UNCHANGED <<store, sessions>> /\ req[r].pc = "idle" /\ req[r].rec = NoRec
  BY DEF BeginLogin, storeVars, Handlers
<1>7. Opens(r, s, rec)
  BY <1>1, <1>2, <1>5, <1>6 DEF Opens, Serving, ApiOps
<1> QED BY <1>2, <1>7 DEF Fresh

\* The callback ends with an answer, or with a session to write.
LEMMA LookupOpens ==
  ASSUME TInv, Handlers, NEW r \in Reqs, Lookup(r)
  PROVE  Plain(r) \/ \E id \in Ids, rec \in Rec : Opens(r, id, rec)
<1>0. Requests /\ Shape /\ Redis /\ World
  BY Parts
<1>u. UNCHANGED <<store, states>> /\ req[r].pc = "lookup" /\ req[r].op = "callback"
  BY DEF Lookup, storeVars, Handlers, CallbackPcs
<1>1. CASE Respond(r, 401) /\ UNCHANGED sessions
  <2>1. 401 \in Statuses
    BY DEF Statuses
  <2> QED BY <1>1, <1>u, <2>1, RefusedSteps
<1>2. CASE \E id \in Fresh : /\ sessions' = sessions \cup {id}
                             /\ \E rec \in Rec : rec.id = id /\ Carry(r, "create", rec)
  <2>1. PICK id \in Fresh, rec \in Rec :
          sessions' = sessions \cup {id} /\ rec.id = id /\ Carry(r, "create", rec)
    BY <1>2
  <2>2. "create" \in Pcs
    BY DEF Pcs
  <2>3. Others(r) /\ req'[r].pc = "create" /\ req'[r].op = req[r].op /\ req'[r].rec = rec
    BY <1>0, <2>1, <2>2, CarryFields
  <2>4. Opens(r, id, rec)
    BY <1>u, <2>1, <2>3 DEF Opens, Serving, ApiOps
  <2> QED BY <2>1, <2>4 DEF Fresh
<1>3. \A id \in Fresh :
        LET rec == [id |-> id, code |-> req[r].code, user |-> codes[req[r].code].user,
                    expiresAt |-> now + SessionTTL, by |-> "callback"]
        IN  rec \in Rec /\ rec.id = id
  BY <1>0, TTLs DEF Lookup, Shape, WellShaped, HasCode, World, Rec, Fresh, Writers
<1> QED BY <1>1, <1>2, <1>3 DEF Lookup

-----------------------------------------------------------------------------
(* The refinement. *)

LEMMA InitPromise == Init => UInv /\ Promise!Init
<1> SUFFICES ASSUME Init PROVE UInv /\ Promise!Init
    OBVIOUS
<1>1. \A r \in Reqs : req[r].rec = NoRec /\ req[r].pc = "idle"
  BY IdleRequest DEF Init
<1>2. \A id \in Ids : store[id] = NoRec
  BY DEF Init
<1>3. \A a : ~Record(a)
  BY <1>1, <1>2 DEF Record
<1>4. UInv
  BY <1>1, <1>3, InitTInv DEF UInv, Unique, Registered, Handlers, CallbackPcs
<1>5. \A id \in Ids : Phase(id) = "unused" /\ OwnerOf(id) = NoUser
  BY DEF Init, Phase, Generated, OwnerOf
<1>6. \A r \in Reqs : As(r) = NoRec
  BY <1>1 DEF As, Serving
<1>7. Promise!Init
  <2>1. [id \in Ids |-> Phase(id)] = [id \in Ids |-> "unused"]
    BY <1>5
  <2>2. [id \in Ids |-> OwnerOf(id)] = [id \in Ids |-> NoUser]
    BY <1>5
  <2>3. [r \in Reqs |-> As(r)] = [r \in Reqs |-> NoRec]
    BY <1>6
  <2> QED BY <2>1, <2>2, <2>3 DEF Promise!Init, As, OwnerOf
<1> QED BY <1>4, <1>7

LEMMA StepPromise ==
  ASSUME UInv, [Next]_vars
  PROVE  Promise!Next /\ UInv'
<1>0. TInv /\ TInv' /\ Unique /\ Handlers
  BY StepTInv DEF UInv
<1>1. CASE Continues /\ Handlers'
  BY <1>0, <1>1, ContinuesEnds, CopiesKeep DEF Continues
<1>2. ASSUME NEW r \in Reqs, Arrive(r) PROVE Promise!Next /\ UInv'
  <2>1. CASE BeginLogin(r)
    BY <1>0, <2>1, BeginLoginOpens, OpenStep
  <2>2. CASE BeginCallback(r) \/ BeginApi(r)
    BY <1>0, <1>1, <2>2, EmptySteps, EmptyContinues
  <2> QED BY <1>2, <2>1, <2>2 DEF Arrive
<1>3. ASSUME NEW r \in Reqs, ServerStep(r) PROVE Promise!Next /\ UInv'
  <2>1. CASE MwGet(r)
    BY <1>0, <2>1, MwGetStep
  <2>2. CASE RefreshGet(r)
    BY <1>0, <1>1, <2>2, RefreshGetContinues
  <2>3. CASE ~MwGet(r) /\ ~RefreshGet(r)
    BY <1>0, <1>1, <1>3, <2>3, HandlerSteps, PlainContinues DEF ServerStep
  <2> QED BY <2>1, <2>2, <2>3
<1>4. ASSUME NEW r \in Reqs, GitHubStep(r) PROVE Promise!Next /\ UInv'
  <2>1. CASE Exchange(r)
    BY <1>0, <1>1, <2>1, HandlerSteps, PlainContinues
  <2>2. CASE Lookup(r)
    BY <1>0, <1>1, <2>2, LookupOpens, PlainContinues, OpenStep
  <2> QED BY <1>4, <2>1, <2>2 DEF GitHubStep
<1>5. ASSUME NEW r \in Reqs, Leave(r) PROVE Promise!Next /\ UInv'
  BY <1>0, <1>1, <1>5, EmptySteps, EmptyContinues DEF Leave
<1>6. CASE SignIn \/ Crash \/ Tick \/ UNCHANGED vars
  BY <1>0, <1>1, <1>6, WorldContinues
<1> QED BY <1>2, <1>3, <1>4, <1>5, <1>6 DEF Next

\* The server keeps the promise of SessionLifecycle: an id belongs to one
\* account from its sign-in to its end, is never opened twice, and a request
\* is served only as the owner of an id it found open, whatever the other
\* handlers, the clock and crashes do between its calls to Redis.
THEOREM ImplementsPromise == Spec => ImplementsLifecycle
<1>1. Init => UInv /\ Promise!Init
  BY InitPromise
<1>2. UInv /\ [Next]_vars => UInv' /\ [Promise!Next]_(Promise!vars)
  BY StepPromise
<1> QED BY <1>1, <1>2, PTL DEF Spec, ImplementsLifecycle, Promise!Spec
==============================================================================
