------------------------- MODULE AuthSessionProofs -------------------------
(***************************************************************************)
(* Proofs about AuthSession, for every number of requests, ids, accounts   *)
(* and for every TTL.                                                      *)
(*                                                                         *)
(* TypeOK is not inductive: that a step stays in its types depends on      *)
(* which fields are set at which point of a handler (Shape) and on Redis   *)
(* holding every record under its own id (KeyedById).                      *)
(***************************************************************************)
EXTENDS AuthSession, TLAPS

\* What a request has in hand at each point of its handler.
HasRecord == {"create", "set", "mw_check", "admitted", "refresh_get"}
HasId == {"state_get", "state_del", "exchange", "lookup", "mw_get"}
HasCode == {"state_get", "state_del", "exchange", "lookup"}
WellShaped(q) ==
  /\ q.pc \in HasRecord => q.rec # NoRec
  /\ q.pc \in HasId => q.id \in Ids
  /\ q.pc \in HasCode => q.code \in Codes
  /\ q.pc = "done" /\ q.status = 302 => q.rec # NoRec
Shape == \A r \in Reqs : WellShaped(req[r])

\* Redis holds a record under the record's own id.
KeyedById == \A id \in Ids : Exists(id) => store[id].id = id

TInv == TypeOK /\ Shape /\ KeyedById

-----------------------------------------------------------------------------
(* What the three ways to move a request do to its fields. *)

Requests == req \in [Reqs -> Request]
Statuses == {0, 200, 204, 302, 400, 401, 500}

LEMMA Fields ==
  ASSUME NEW q \in Request
  PROVE  /\ q.pc \in Pcs /\ q.op \in Ops /\ q.id \in Ids \cup {NoId}
         /\ q.code \in Codes \cup {NoCode}
         /\ q.rec \in Rec \cup {NoRec}
         /\ q.newExpiry \in Nat /\ q.ttl \in Nat /\ q.status \in Statuses
  BY DEF Request, Statuses

LEMMA RecFields ==
  ASSUME NEW rec \in Rec
  PROVE  /\ rec.id \in Ids /\ rec.code \in Codes \cup {NoCode} /\ rec.by \in Writers
         /\ rec.user \in Users \cup {NoUser} /\ rec.expiresAt \in Nat
  BY DEF Rec

LEMMA NewRequestFields ==
  ASSUME NEW op \in Ops, NEW id \in Ids \cup {NoId},
         NEW code \in Codes \cup {NoCode}, NEW pc \in Pcs,
         NEW rec \in Rec \cup {NoRec}, NEW status \in Statuses
  PROVE  LET q == NewRequest(op, id, code, pc, rec, status) IN
         /\ q \in Request
         /\ q.pc = pc /\ q.op = op /\ q.id = id /\ q.code = code /\ q.rec = rec /\ q.status = status
  BY DEF NewRequest, Request, Statuses

LEMMA IdleRequest ==
  /\ Idle \in Request
  /\ Idle.pc = "idle" /\ Idle.op = "me" /\ Idle.rec = NoRec
  BY DEF Idle, NewRequest, Request, Pcs, Ops

\* One request changes, the others do not.
Others(r) == \A x \in Reqs : x # r => req'[x] = req[x]

LEMMA Replace ==
  ASSUME Requests, NEW r \in Reqs, NEW q \in Request, req' = [req EXCEPT ![r] = q]
  PROVE  Requests' /\ Others(r) /\ req'[r] = q
  BY DEF Requests, Others

LEMMA StartFields ==
  ASSUME Requests, NEW r \in Reqs, NEW op \in Ops, NEW id \in Ids \cup {NoId},
         NEW code \in Codes \cup {NoCode}, NEW pc \in Pcs,
         NEW rec \in Rec \cup {NoRec}, NEW status \in Statuses,
         Start(r, op, id, code, pc, rec, status)
  PROVE  /\ Requests' /\ Others(r)
         /\ req'[r].pc = pc /\ req'[r].status = status
         /\ req'[r].op = op /\ req'[r].id = id /\ req'[r].code = code /\ req'[r].rec = rec
<1> DEFINE q == NewRequest(op, id, code, pc, rec, status)
<1>1. q \in Request /\ q.pc = pc /\ q.op = op /\ q.id = id /\ q.code = code /\ q.rec = rec /\ q.status = status
  BY NewRequestFields
<1>2. req' = [req EXCEPT ![r] = q]
  BY DEF Start
<1> HIDE DEF q
<1> QED BY <1>1, <1>2, Replace

\* What starts without a record: a callback, a call of the API.
Begun(r, op, id, code, pc, status) ==
  /\ Requests' /\ Others(r)
  /\ req'[r].pc = pc /\ req'[r].status = status
  /\ req'[r].op = op /\ req'[r].id = id /\ req'[r].code = code /\ req'[r].rec = NoRec

LEMMA StartBegins ==
  ASSUME Requests, NEW r \in Reqs, NEW op \in Ops, NEW id \in Ids \cup {NoId},
         NEW code \in Codes \cup {NoCode}, NEW pc \in Pcs,
         NEW status \in Statuses, Start(r, op, id, code, pc, NoRec, status)
  PROVE  Begun(r, op, id, code, pc, status)
<1>1. NoRec \in Rec \cup {NoRec}
  OBVIOUS
<1> QED BY <1>1, StartFields DEF Begun

LEMMA RespondFields ==
  ASSUME Requests, NEW r \in Reqs, NEW status \in Statuses, Respond(r, status)
  PROVE  /\ Requests' /\ Others(r)
         /\ req'[r].pc = "done" /\ req'[r].status = status
         /\ req'[r].op = req[r].op /\ req'[r].id = req[r].id
         /\ req'[r].code = req[r].code /\ req'[r].rec = req[r].rec
<1> DEFINE q == [req[r] EXCEPT !.pc = "done", !.status = status, !.newExpiry = 0, !.ttl = 0]
<1>1. req[r] \in Request
  BY DEF Requests
<1>2. q \in Request
  <2> DEFINE m == [req[r] EXCEPT !.pc = "done"]
             n == [m EXCEPT !.status = status]
             k == [n EXCEPT !.newExpiry = 0]
  <2>1. m \in Request
    BY <1>1 DEF Request, Pcs
  <2>2. n \in Request
    <3> HIDE DEF m
    <3> QED BY <2>1 DEF Request, Statuses
  <2>3. k \in Request
    <3> HIDE DEF n
    <3> QED BY <2>2 DEF Request
  <2>4. [k EXCEPT !.ttl = 0] \in Request
    <3> HIDE DEF k
    <3> QED BY <2>3 DEF Request
  <2> QED BY <2>4
<1>3. q.pc = "done" /\ q.status = status /\ q.op = req[r].op /\ q.id = req[r].id /\ q.code = req[r].code /\ q.rec = req[r].rec
  BY <1>1 DEF Request
<1>4. req' = [req EXCEPT ![r] = q]
  BY <1>1 DEF Respond, Requests
<1> HIDE DEF q
<1> QED BY <1>2, <1>3, <1>4, Replace

LEMMA GotoFields ==
  ASSUME Requests, NEW r \in Reqs, NEW pc \in Pcs, Goto(r, pc)
  PROVE  /\ Requests' /\ Others(r)
         /\ req'[r].pc = pc /\ req'[r].status = req[r].status
         /\ req'[r].op = req[r].op /\ req'[r].id = req[r].id
         /\ req'[r].code = req[r].code /\ req'[r].rec = req[r].rec
<1> DEFINE q == [req[r] EXCEPT !.pc = pc]
<1>1. req[r] \in Request
  BY DEF Requests
<1>2. q \in Request
  BY <1>1 DEF Request
<1>3. q.pc = pc /\ q.status = req[r].status /\ q.op = req[r].op /\ q.id = req[r].id /\ q.code = req[r].code /\ q.rec = req[r].rec
  BY <1>1 DEF Request
<1>4. req' = [req EXCEPT ![r] = q]
  BY <1>1 DEF Goto, Requests
<1> HIDE DEF q
<1> QED BY <1>2, <1>3, <1>4, Replace

LEMMA CarryFields ==
  ASSUME Requests, NEW r \in Reqs, NEW pc \in Pcs, NEW rec \in Rec, Carry(r, pc, rec)
  PROVE  /\ Requests' /\ Others(r)
         /\ req'[r].pc = pc /\ req'[r].status = req[r].status
         /\ req'[r].op = req[r].op /\ req'[r].id = req[r].id
         /\ req'[r].code = req[r].code /\ req'[r].rec = rec
<1> DEFINE q == [req[r] EXCEPT !.pc = pc, !.rec = rec]
<1>1. req[r] \in Request
  BY DEF Requests
<1>2. q \in Request
  <2> DEFINE m == [req[r] EXCEPT !.pc = pc]
  <2>1. m \in Request
    BY <1>1 DEF Request
  <2>2. [m EXCEPT !.rec = rec] \in Request
    <3> HIDE DEF m
    <3> QED BY <2>1 DEF Request
  <2> QED BY <2>2
<1>3. q.pc = pc /\ q.status = req[r].status /\ q.op = req[r].op /\ q.id = req[r].id /\ q.code = req[r].code /\ q.rec = rec
  BY <1>1 DEF Request
<1>4. req' = [req EXCEPT ![r] = q]
  BY <1>1 DEF Carry, Requests
<1> HIDE DEF q
<1> QED BY <1>2, <1>3, <1>4, Replace

\* RefreshToken and CreateTTL also set a number.
Number(r, pc, t) ==
  \/ req' = [req EXCEPT ![r] = [@ EXCEPT !.pc = pc, !.newExpiry = t]]
  \/ req' = [req EXCEPT ![r] = [@ EXCEPT !.pc = pc, !.ttl = t]]

LEMMA NumberFields ==
  ASSUME Requests, NEW r \in Reqs, NEW pc \in Pcs, NEW t \in Nat, Number(r, pc, t)
  PROVE  /\ Requests' /\ Others(r)
         /\ req'[r].pc = pc /\ req'[r].status = req[r].status
         /\ req'[r].op = req[r].op /\ req'[r].id = req[r].id
         /\ req'[r].code = req[r].code /\ req'[r].rec = req[r].rec
<1> DEFINE m == [req[r] EXCEPT !.pc = pc]
           q == [m EXCEPT !.newExpiry = t]
           p == [m EXCEPT !.ttl = t]
<1>1. req[r] \in Request
  BY DEF Requests
<1>2. m \in Request
  BY <1>1 DEF Request
<1>3. m.pc = pc /\ m.status = req[r].status /\ m.op = req[r].op /\ m.id = req[r].id /\ m.code = req[r].code /\ m.rec = req[r].rec
  BY <1>1 DEF Request
<1>4. req' = [req EXCEPT ![r] = q] \/ req' = [req EXCEPT ![r] = p]
  BY <1>1 DEF Requests, Number
<1> HIDE DEF m
<1>5. q \in Request /\ p \in Request
  BY <1>2 DEF Request
<1>6. \A x \in {p, q} : x.pc = m.pc /\ x.status = m.status /\ x.op = m.op /\ x.id = m.id /\ x.code = m.code /\ x.rec = m.rec
  BY <1>2 DEF Request
<1> HIDE DEF q, p
<1> QED BY <1>3, <1>4, <1>5, <1>6, Replace

-----------------------------------------------------------------------------
(* Types, the shape of a request and the keys of Redis. *)

LEMMA InitTInv == Init => TInv
<1> SUFFICES ASSUME Init PROVE TInv
    OBVIOUS
<1> USE ReqsAndIds, CodesAssumption, UsersAssumption, TTLs, NoRecAssumption
<1>1. Idle \in Request /\ Idle.pc = "idle"
  BY IdleRequest
<1>2. TypeOK
  BY <1>1 DEF Init, TypeOK, Unissued
<1>3. Shape
  BY <1>1 DEF Init, Shape, WellShaped, HasRecord, HasId, HasCode
<1>4. KeyedById
  BY DEF Init, KeyedById, Exists
<1> QED BY <1>2, <1>3, <1>4 DEF TInv

-----------------------------------------------------------------------------
(* TInv in four parts, and what each kind of step does to each part. *)

Redis ==
  /\ store \in [Ids -> Rec \cup {NoRec}]
  /\ deadline \in [Ids -> Nat]
  /\ KeyedById

World ==
  /\ now \in Nat
  /\ states \subseteq Ids /\ sessions \subseteq Ids
  /\ codes \in [Codes -> [user : Users \cup {NoUser}, used : BOOLEAN]]
  /\ known \subseteq Ids

LEMMA Parts ==
  /\ TInv <=> Requests /\ Shape /\ Redis /\ World
  /\ TInv' <=> Requests' /\ Shape' /\ Redis' /\ World'
  BY DEF TInv, TypeOK, Requests, Redis, World

Moved(r) == Requests' /\ Others(r) /\ WellShaped(req'[r])

LEMMA MovedShape ==
  ASSUME Shape, NEW r \in Reqs, Moved(r)
  PROVE  Requests' /\ Shape'
  BY DEF Shape, Moved, Others

LEMMA Kept ==
  /\ Redis /\ UNCHANGED storeVars => Redis'
  /\ World /\ UNCHANGED envVars => World'
  BY DEF Redis, World, storeVars, envVars, KeyedById, Exists

LEMMA SetKeyRedis ==
  ASSUME Redis, World, NEW rec \in Rec, NEW ttl \in Nat, SetKey(rec.id, rec, ttl)
  PROVE  Redis'
  BY RecFields, TTLs, Bounds, NoRecAssumption DEF Redis, World, SetKey, KeyedById, Exists, Forever

LEMMA DelKeyRedis ==
  ASSUME Redis, NEW id, DelKey(id)
  PROVE  Redis'
  BY DEF Redis, DelKey, KeyedById, Exists

LEMMA BeginLoginTInv ==
  ASSUME TInv, NEW r \in Reqs, BeginLogin(r)
  PROVE  TInv'
<1>0. Requests /\ Shape /\ Redis /\ World
  BY Parts
<1>1. Moved(r)
  <2>1. PICK s \in Fresh : Start(r, "login", s, NoCode, "create",
            [id |-> s, code |-> NoCode, user |-> NoUser,
             expiresAt |-> now + StateTTL, by |-> "login"], 0)
    BY DEF BeginLogin
  <2> DEFINE rec == [id |-> s, code |-> NoCode, user |-> NoUser,
                    expiresAt |-> now + StateTTL, by |-> "login"]
  <2>2. rec \in Rec
    BY <1>0, TTLs DEF World, Rec, Fresh, Writers
  <2>3. rec # NoRec
    BY <2>2, NoRecAssumption
  <2>4. "login" \in Ops /\ s \in Ids \cup {NoId} /\ NoCode \in Codes \cup {NoCode} /\ "create" \in Pcs /\ 0 \in Statuses
    BY DEF Fresh, Ops, Pcs, Statuses
  <2>5. Start(r, "login", s, NoCode, "create", rec, 0)
    BY <2>1
  <2> HIDE DEF rec
  <2> QED BY <1>0, <2>5, <2>2, <2>3, <2>4, StartFields DEF WellShaped, HasRecord, HasId, HasCode, Moved
<1>2. Redis' /\ World'
  BY <1>0, Kept DEF BeginLogin, World, Fresh, storeVars
<1> QED BY <1>0, <1>1, <1>2, MovedShape, Parts

LEMMA BeginCallbackTInv ==
  ASSUME TInv, NEW r \in Reqs, BeginCallback(r)
  PROVE  TInv'
<1>0. Requests /\ Shape /\ Redis /\ World
  BY Parts
<1>1. Moved(r)
  <2>1. PICK op \in {"callback"}, s \in Ids \cup {NoId}, c \in Codes \cup {NoCode},
             pc \in {"done", "state_get"}, status \in {0, 400} :
          /\ Start(r, op, s, c, pc, NoRec, status)
          /\ pc = "state_get" => s \in Ids /\ c \in Codes
          /\ status # 302
    BY <1>0 DEF BeginCallback, World
  <2>2. op \in Ops /\ pc \in Pcs /\ status \in Statuses
    BY DEF Pcs, Ops, Statuses
  <2>3. Start(r, op, s, c, pc, NoRec, status)
    BY <2>1
  <2>4. Begun(r, op, s, c, pc, status)
    BY <1>0, <2>2, <2>3, StartBegins
  <2> QED BY <2>1, <2>4 DEF Begun, WellShaped, HasRecord, HasId, HasCode, Moved
<1>2. Redis' /\ World'
  BY <1>0, Kept DEF BeginCallback
<1> QED BY <1>0, <1>1, <1>2, MovedShape, Parts

LEMMA BeginApiTInv ==
  ASSUME TInv, NEW r \in Reqs, BeginApi(r)
  PROVE  TInv'
<1>0. Requests /\ Shape /\ Redis /\ World
  BY Parts
<1>1. Moved(r)
  <2>1. \A header \in known \cup {NoId, NoHeader}, cookie \in known \cup {NoId} :
          ExtractSessionID(header, cookie) \in Ids \cup {NoId}
    BY <1>0 DEF ExtractSessionID, World
  <2>2. PICK op \in ApiOps, id \in Ids \cup {NoId}, pc \in {"done", "mw_get"}, status \in {0, 401} :
          /\ Start(r, op, id, NoCode, pc, NoRec, status)
          /\ pc = "mw_get" => id \in Ids
          /\ status # 302
    BY <2>1 DEF BeginApi
  <2>3. NoCode \in Codes \cup {NoCode} /\ op \in Ops /\ pc \in Pcs /\ status \in Statuses
    BY DEF Pcs, Ops, ApiOps, Statuses
  <2>4. Start(r, op, id, NoCode, pc, NoRec, status)
    BY <2>2
  <2>5. Begun(r, op, id, NoCode, pc, status)
    BY <1>0, <2>3, <2>4, StartBegins
  <2> QED BY <2>2, <2>5 DEF Begun, WellShaped, HasRecord, HasId, HasCode, Moved
<1>2. Redis' /\ World'
  BY <1>0, Kept DEF BeginApi
<1> QED BY <1>0, <1>1, <1>2, MovedShape, Parts

LEMMA StateGetTInv ==
  ASSUME TInv, NEW r \in Reqs, StateGet(r)
  PROVE  TInv'
<1>0. Requests /\ Shape /\ Redis /\ World
  BY Parts
<1>1. Moved(r)
  BY <1>0, RespondFields, GotoFields DEF StateGet, Shape, Statuses, Pcs, WellShaped, HasRecord, HasId, HasCode, Moved
<1>2. Redis' /\ World'
  BY <1>0, Kept DEF StateGet
<1> QED BY <1>0, <1>1, <1>2, MovedShape, Parts

LEMMA StateDelTInv ==
  ASSUME TInv, NEW r \in Reqs, StateDel(r)
  PROVE  TInv'
<1>0. Requests /\ Shape /\ Redis /\ World
  BY Parts
<1>1. Moved(r)
  BY <1>0, GotoFields DEF StateDel, Shape, Statuses, Pcs, WellShaped, HasRecord, HasId, HasCode, Moved
<1>2. Redis' /\ World'
  BY <1>0, Kept, DelKeyRedis DEF StateDel
<1> QED BY <1>0, <1>1, <1>2, MovedShape, Parts

LEMMA ExchangeTInv ==
  ASSUME TInv, NEW r \in Reqs, Exchange(r)
  PROVE  TInv'
<1>0. Requests /\ Shape /\ Redis /\ World
  BY Parts
<1>1. Moved(r)
  BY <1>0, RespondFields, GotoFields DEF Exchange, Shape, Statuses, Pcs, WellShaped, HasRecord, HasId, HasCode, Moved
<1>2. Redis' /\ World'
  <2>1. codes' \in [Codes -> [user : Users \cup {NoUser}, used : BOOLEAN]]
    <3>1. req[r].code \in Codes
      BY <1>0 DEF Exchange, Shape, WellShaped, HasCode
    <3>2. \/ codes' = [codes EXCEPT ![req[r].code] = [@ EXCEPT !.used = TRUE]]
          \/ UNCHANGED codes
      BY DEF Exchange
    <3> QED BY <1>0, <3>1, <3>2 DEF World
  <2> QED BY <1>0, <2>1, Kept DEF Exchange, World
<1> QED BY <1>0, <1>1, <1>2, MovedShape, Parts

LEMMA LookupTInv ==
  ASSUME TInv, NEW r \in Reqs, Lookup(r)
  PROVE  TInv'
<1>0. Requests /\ Shape /\ Redis /\ World
  BY Parts
<1>1. Moved(r)
  <2>1. CASE Respond(r, 401)
    BY <1>0, <2>1, RespondFields DEF Shape, Statuses, Lookup, WellShaped, HasRecord, HasId, HasCode, Moved
  <2>2. CASE \E rec \in Rec : Carry(r, "create", rec)
    BY <1>0, <2>2, CarryFields, NoRecAssumption DEF Pcs, WellShaped, HasRecord, HasId, HasCode, Moved
  <2>3. \A id \in Fresh : [id |-> id, code |-> req[r].code, user |-> codes[req[r].code].user,
                             expiresAt |-> now + SessionTTL, by |-> "callback"] \in Rec
    BY <1>0, TTLs DEF Lookup, Shape, WellShaped, HasCode, World, Rec, Fresh, Writers
  <2> QED BY <2>1, <2>2, <2>3 DEF Lookup
<1>2. Redis' /\ World'
  BY <1>0, Kept DEF Lookup, World, Fresh, storeVars
<1> QED BY <1>0, <1>1, <1>2, MovedShape, Parts

LEMMA MwGetTInv ==
  ASSUME TInv, NEW r \in Reqs, MwGet(r)
  PROVE  TInv'
<1>0. Requests /\ Shape /\ Redis /\ World
  BY Parts
<1>1. Moved(r)
  BY <1>0, RespondFields, CarryFields DEF MwGet, Shape, Redis, Exists, Statuses, Pcs, WellShaped, HasRecord, HasId, HasCode, Moved
<1>2. Redis' /\ World'
  BY <1>0, Kept DEF MwGet
<1> QED BY <1>0, <1>1, <1>2, MovedShape, Parts

LEMMA MwCheckTInv ==
  ASSUME TInv, NEW r \in Reqs, MwCheck(r)
  PROVE  TInv'
<1>0. Requests /\ Shape /\ Redis /\ World
  BY Parts
<1>1. Moved(r)
  BY <1>0, RespondFields, GotoFields DEF MwCheck, Shape, Statuses, Pcs, WellShaped, HasRecord, HasId, HasCode, Moved
<1>2. Redis' /\ World'
  BY <1>0, Kept DEF MwCheck
<1> QED BY <1>0, <1>1, <1>2, MovedShape, Parts

LEMMA GetCurrentUserTInv ==
  ASSUME TInv, NEW r \in Reqs, GetCurrentUser(r)
  PROVE  TInv'
<1>0. Requests /\ Shape /\ Redis /\ World
  BY Parts
<1>1. Moved(r)
  BY <1>0, RespondFields DEF GetCurrentUser, Shape, Statuses, Pcs, WellShaped, HasRecord, HasId, HasCode, Moved
<1>2. Redis' /\ World'
  BY <1>0, Kept DEF GetCurrentUser
<1> QED BY <1>0, <1>1, <1>2, MovedShape, Parts

LEMMA LogoutTInv ==
  ASSUME TInv, NEW r \in Reqs, Logout(r)
  PROVE  TInv'
<1>0. Requests /\ Shape /\ Redis /\ World
  BY Parts
<1>1. Moved(r)
  BY <1>0, RespondFields DEF Logout, Shape, Statuses, Pcs, WellShaped, HasRecord, HasId, HasCode, Moved
<1>2. Redis' /\ World'
  BY <1>0, Kept, DelKeyRedis DEF Logout
<1> QED BY <1>0, <1>1, <1>2, MovedShape, Parts

LEMMA RefreshTokenTInv ==
  ASSUME TInv, NEW r \in Reqs, RefreshToken(r)
  PROVE  TInv'
<1>0. Requests /\ Shape /\ Redis /\ World
  BY Parts
<1>1. Moved(r)
  <2>1. now + SessionTTL \in Nat
    BY <1>0, TTLs DEF World
  <2>2. Number(r, "refresh_get", now + SessionTTL)
    BY DEF RefreshToken, Number
  <2>3. "refresh_get" \in Pcs
    BY DEF Pcs
  <2> QED BY <1>0, <2>1, <2>2, <2>3, NumberFields DEF RefreshToken, Shape, WellShaped, HasRecord, HasId, HasCode, Moved
<1>2. Redis' /\ World'
  BY <1>0, Kept DEF RefreshToken
<1> QED BY <1>0, <1>1, <1>2, MovedShape, Parts

LEMMA RefreshGetTInv ==
  ASSUME TInv, NEW r \in Reqs, RefreshGet(r)
  PROVE  TInv'
<1>0. Requests /\ Shape /\ Redis /\ World
  BY Parts
<1>1. Moved(r)
  <2>1. CASE Respond(r, 401)
    BY <1>0, <2>1, RespondFields DEF Shape, Statuses, RefreshGet, WellShaped, HasRecord, HasId, HasCode, Moved
  <2>2. CASE Exists(req[r].rec.id) /\ Carry(r, "create", [store[req[r].rec.id] EXCEPT !.expiresAt = req[r].newExpiry, !.by = "refresh"])
    <3>1. store[req[r].rec.id] \in Rec /\ req[r].newExpiry \in Nat
      BY <1>0, <2>2, Fields, RecFields DEF RefreshGet, Shape, WellShaped, HasRecord, Redis, Exists, Requests
    <3>2. [store[req[r].rec.id] EXCEPT !.expiresAt = req[r].newExpiry, !.by = "refresh"] \in Rec
      BY <3>1 DEF Rec, Writers
    <3> QED BY <1>0, <2>2, <3>2, CarryFields, NoRecAssumption DEF Pcs, WellShaped, HasRecord, HasId, HasCode, Moved
  <2> QED BY <2>1, <2>2 DEF RefreshGet
<1>2. Redis' /\ World'
  BY <1>0, Kept DEF RefreshGet
<1> QED BY <1>0, <1>1, <1>2, MovedShape, Parts

LEMMA CreateTTLTInv ==
  ASSUME TInv, NEW r \in Reqs, CreateTTL(r)
  PROVE  TInv'
<1>0. Requests /\ Shape /\ Redis /\ World
  BY Parts
<1>1. Moved(r)
  <2>1. req[r].rec \in Rec
    BY <1>0, Fields DEF CreateTTL, Shape, WellShaped, HasRecord, Requests
  <2>2. (IF TimeUntil(req[r].rec.expiresAt) = 0 THEN StoreTTL(req[r].op) ELSE TimeUntil(req[r].rec.expiresAt)) \in Nat
    BY <1>0, <2>1, RecFields, TTLs DEF TimeUntil, StoreTTL, World
  <2>3. PICK t \in Nat : Number(r, "set", t)
    BY <2>2 DEF CreateTTL, Number
  <2>4. "set" \in Pcs
    BY DEF Pcs
  <2> QED BY <1>0, <2>3, <2>4, NumberFields DEF CreateTTL, Shape, WellShaped, HasRecord, HasId, HasCode, Moved
<1>2. Redis' /\ World'
  BY <1>0, Kept DEF CreateTTL
<1> QED BY <1>0, <1>1, <1>2, MovedShape, Parts

LEMMA CreateSetTInv ==
  ASSUME TInv, NEW r \in Reqs, CreateSet(r)
  PROVE  TInv'
<1>0. Requests /\ Shape /\ Redis /\ World
  BY Parts
<1>1. Moved(r)
  BY <1>0, RespondFields DEF CreateSet, Created, CreateFailed, Shape, Statuses, Pcs, WellShaped, HasRecord, HasId, HasCode, Moved
<1>2. Redis' /\ World'
  <2>1. req[r].rec \in Rec /\ req[r].ttl \in Nat
    BY <1>0, Fields DEF CreateSet, Shape, WellShaped, HasRecord, Requests
  <2> QED BY <1>0, <2>1, Kept, SetKeyRedis DEF CreateSet
<1> QED BY <1>0, <1>1, <1>2, MovedShape, Parts

LEMMA DeliverTInv ==
  ASSUME TInv, NEW r \in Reqs, Deliver(r)
  PROVE  TInv'
<1>0. Requests /\ Shape /\ Redis /\ World
  BY Parts
<1>1. Moved(r)
  BY <1>0, IdleRequest, Replace DEF Deliver, WellShaped, HasRecord, HasId, HasCode, Moved
<1>2. Redis' /\ World'
  <2>1. req[r].status = 302 => req[r].rec.id \in Ids
    BY <1>0, Fields, RecFields DEF Deliver, Shape, WellShaped, Requests
  <2>2. known' \subseteq Ids
    BY <1>0, <2>1 DEF Deliver, World
  <2> QED BY <1>0, <2>2, Kept DEF Deliver, World, storeVars
<1> QED BY <1>0, <1>1, <1>2, MovedShape, Parts

LEMMA LoseResponseTInv ==
  ASSUME TInv, NEW r \in Reqs, LoseResponse(r)
  PROVE  TInv'
<1>0. Requests /\ Shape /\ Redis /\ World
  BY Parts
<1>1. Moved(r)
  BY <1>0, IdleRequest, Replace DEF LoseResponse, WellShaped, HasRecord, HasId, HasCode, Moved
<1>2. Redis' /\ World'
  BY <1>0, Kept DEF LoseResponse
<1> QED BY <1>0, <1>1, <1>2, MovedShape, Parts

LEMMA SignInTInv ==
  ASSUME TInv, SignIn
  PROVE  TInv'
<1>0. Requests /\ Shape /\ Redis /\ World
  BY Parts
<1>1. Requests' /\ Shape'
  BY <1>0 DEF SignIn, Requests, Shape
<1>2. World'
  BY <1>0 DEF SignIn, World
<1>3. Redis'
  BY <1>0, Kept DEF SignIn
<1> QED BY <1>1, <1>2, <1>3, Parts

LEMMA CrashTInv ==
  ASSUME TInv, Crash
  PROVE  TInv'
<1>0. Requests /\ Shape /\ Redis /\ World
  BY Parts
<1>1. Requests' /\ \A r \in Reqs : req'[r] = Idle
  BY IdleRequest DEF Crash, Requests
<1>2. Shape'
  BY <1>1, IdleRequest DEF Shape, WellShaped, HasRecord, HasId, HasCode
<1>3. Redis' /\ World'
  BY <1>0, Kept DEF Crash
<1> QED BY <1>1, <1>2, <1>3, Parts

LEMMA TickTInv ==
  ASSUME TInv, Tick
  PROVE  TInv'
<1>0. Requests /\ Shape /\ Redis /\ World
  BY Parts
<1>1. Requests' /\ Shape' /\ World'
  BY <1>0 DEF Tick, Requests, Shape, World
<1>2. Redis'
  BY <1>0 DEF Tick, Redis, KeyedById, Exists
<1> QED BY <1>1, <1>2, Parts

LEMMA StepTInv ==
  ASSUME TInv, [Next]_vars
  PROVE  TInv'
<1>1. ASSUME NEW r \in Reqs, Arrive(r) PROVE TInv'
  BY <1>1, BeginLoginTInv, BeginCallbackTInv, BeginApiTInv DEF Arrive
<1>2. ASSUME NEW r \in Reqs, ServerStep(r) PROVE TInv'
  BY <1>2, StateGetTInv, StateDelTInv, MwGetTInv, MwCheckTInv, GetCurrentUserTInv, LogoutTInv,
     RefreshTokenTInv, RefreshGetTInv, CreateTTLTInv, CreateSetTInv DEF ServerStep
<1>3. ASSUME NEW r \in Reqs, GitHubStep(r) PROVE TInv'
  BY <1>3, ExchangeTInv, LookupTInv DEF GitHubStep
<1>4. ASSUME NEW r \in Reqs, Leave(r) PROVE TInv'
  BY <1>4, DeliverTInv, LoseResponseTInv DEF Leave
<1>5. CASE UNCHANGED vars
  BY <1>5 DEF vars, TInv, TypeOK, Shape, KeyedById, Exists
<1> QED BY <1>1, <1>2, <1>3, <1>4, <1>5, SignInTInv, CrashTInv, TickTInv DEF Next

LEMMA AlwaysTInv == Spec => []TInv
  BY InitTInv, StepTInv, PTL DEF Spec

\* Every variable of the authentication core keeps its type: no handler uses a
\* record it does not have, in any interleaving.
THEOREM TypeCorrect == Spec => []TypeOK
<1>1. TInv => TypeOK
  BY DEF TInv
<1> QED BY <1>1, AlwaysTInv, PTL

-----------------------------------------------------------------------------
(* An id that has ended stays so.                                          *)

\* A step of r writes no key, or deletes one, unless r was writing it; and r
\* begins to write only an id that is new or whose key exists.
Harmless(r) ==
  /\ \A id \in Ids : store'[id] # NoRec => store[id] # NoRec \/ Writes(r, id)
  /\ \A id \in Ids : Writes(r, id)' => \/ Writes(r, id) \/ Exists(id)
                                       \/ id \notin states \cup sessions
  /\ states \subseteq states' /\ sessions \subseteq sessions'

LEMMA HarmlessKeepsEnded ==
  ASSUME NEW r \in Reqs, Others(r), Harmless(r), NEW id \in Ids, Ended(id)
  PROVE  Ended(id)'
  BY DEF Others, Harmless, Ended, Exists, Writes

\* A step that only moves r, and not to a write.
LEMMA QuietHarmless ==
  ASSUME NEW r \in Reqs, req'[r].pc \notin {"create", "set"}, UNCHANGED <<store, states>>,
         sessions \subseteq sessions'
  PROVE  Harmless(r)
  BY DEF Harmless, Writes

\* The steps that neither touch Redis nor start to.
Quiet(r) ==
  \/ BeginCallback(r) \/ BeginApi(r) \/ StateGet(r) \/ Exchange(r)
  \/ MwGet(r) \/ MwCheck(r) \/ GetCurrentUser(r) \/ RefreshToken(r)
  \/ Deliver(r) \/ LoseResponse(r)

LEMMA QuietSteps ==
  ASSUME TInv, NEW r \in Reqs, Quiet(r)
  PROVE  Others(r) /\ Harmless(r)
<1>0. Requests /\ Redis /\ World /\ Shape
  BY Parts
<1>1. UNCHANGED <<store, states, sessions>>
  BY DEF Quiet, BeginCallback, BeginApi, StateGet, Exchange, MwGet, MwCheck, GetCurrentUser,
         RefreshToken, Deliver, LoseResponse, envVars, storeVars
<1>2. Others(r) /\ req'[r].pc \notin {"create", "set"}
  <2>1. CASE BeginCallback(r)
    <3>1. PICK op \in {"callback"}, s \in Ids \cup {NoId}, c \in Codes \cup {NoCode},
               pc \in {"done", "state_get"}, status \in {0, 400} :
            Start(r, op, s, c, pc, NoRec, status)
      BY <1>0, <2>1 DEF BeginCallback, World
    <3>2. op \in Ops /\ pc \in Pcs /\ status \in Statuses
      BY DEF Pcs, Ops, Statuses
    <3>3. Begun(r, op, s, c, pc, status)
      BY <1>0, <3>1, <3>2, StartBegins
    <3> QED BY <3>3 DEF Begun
  <2>2. CASE BeginApi(r)
    <3>1. \A header \in known \cup {NoId, NoHeader}, cookie \in known \cup {NoId} :
            ExtractSessionID(header, cookie) \in Ids \cup {NoId}
      BY <1>0 DEF ExtractSessionID, World
    <3>2. PICK op \in ApiOps, id \in Ids \cup {NoId}, pc \in {"done", "mw_get"}, status \in {0, 401} :
            Start(r, op, id, NoCode, pc, NoRec, status)
      BY <2>2, <3>1 DEF BeginApi
    <3>3. NoCode \in Codes \cup {NoCode} /\ op \in Ops /\ pc \in Pcs /\ status \in Statuses
      BY DEF Pcs, Ops, ApiOps, Statuses
    <3>4. Begun(r, op, id, NoCode, pc, status)
      BY <1>0, <3>2, <3>3, StartBegins
    <3> QED BY <3>4 DEF Begun
  <2>3. CASE StateGet(r) \/ Exchange(r) \/ MwCheck(r) \/ GetCurrentUser(r)
    <3>1. {"state_del", "lookup", "admitted"} \subseteq Pcs /\ {200, 401} \subseteq Statuses
      BY DEF Pcs, Statuses
    <3>2. \/ \E status \in {200, 401} : Respond(r, status)
          \/ \E pc \in {"state_del", "lookup", "admitted"} : Goto(r, pc)
      BY <2>3 DEF StateGet, Exchange, MwCheck, GetCurrentUser
    <3> QED BY <1>0, <3>1, <3>2, RespondFields, GotoFields
  <2>4. CASE MwGet(r)
    BY <1>0, <2>4, RespondFields, CarryFields
       DEF MwGet, Shape, WellShaped, HasId, Redis, Exists, Statuses, Pcs
  <2>5. CASE RefreshToken(r)
    <3>1. now + SessionTTL \in Nat /\ "refresh_get" \in Pcs
      BY <1>0, TTLs DEF World, Pcs
    <3>2. Number(r, "refresh_get", now + SessionTTL)
      BY <2>5 DEF RefreshToken, Number
    <3> QED BY <1>0, <3>1, <3>2, NumberFields
  <2>6. CASE Deliver(r) \/ LoseResponse(r)
    BY <1>0, <2>6, IdleRequest, Replace DEF Deliver, LoseResponse
  <2> QED BY <2>1, <2>2, <2>3, <2>4, <2>5, <2>6 DEF Quiet
<1> QED BY <1>1, <1>2, QuietHarmless

LEMMA DeletingSteps ==
  ASSUME TInv, NEW r \in Reqs, StateDel(r) \/ Logout(r)
  PROVE  Others(r) /\ Harmless(r)
<1>0. Requests /\ Redis
  BY Parts
<1>1. Others(r) /\ req'[r].pc \notin {"create", "set"}
  BY <1>0, RespondFields, GotoFields DEF StateDel, Logout, Statuses, Pcs
<1>2. \A id \in Ids : store'[id] # NoRec => store[id] # NoRec
  BY <1>0 DEF StateDel, Logout, DelKey, storeVars, Redis
<1> QED BY <1>1, <1>2 DEF Harmless, Writes, StateDel, Logout, envVars

LEMMA NewIdSteps ==
  ASSUME TInv, NEW r \in Reqs, BeginLogin(r) \/ Lookup(r)
  PROVE  Others(r) /\ Harmless(r)
<1>0. Requests /\ Shape /\ Redis /\ World
  BY Parts
<1>1. CASE BeginLogin(r)
  <2>1. PICK s \in Fresh : /\ states' = states \cup {s}
          /\ Start(r, "login", s, NoCode, "create",
                   [id |-> s, code |-> NoCode, user |-> NoUser,
             expiresAt |-> now + StateTTL, by |-> "login"], 0)
    BY <1>1 DEF BeginLogin
  <2> DEFINE rec == [id |-> s, code |-> NoCode, user |-> NoUser,
                    expiresAt |-> now + StateTTL, by |-> "login"]
  <2>2. rec \in Rec /\ rec.id = s
    BY <1>0, TTLs DEF World, Rec, Fresh, Writers
  <2>3. "login" \in Ops /\ s \in Ids \cup {NoId} /\ NoCode \in Codes \cup {NoCode} /\ "create" \in Pcs /\ 0 \in Statuses
    BY DEF Fresh, Ops, Pcs, Statuses
  <2>4. Start(r, "login", s, NoCode, "create", rec, 0)
    BY <2>1
  <2> HIDE DEF rec
  <2>5. Others(r) /\ req'[r].rec.id = s
    BY <1>0, <2>2, <2>3, <2>4, StartFields
  <2> QED BY <1>1, <2>1, <2>5 DEF BeginLogin, Harmless, Writes, Fresh, storeVars
<1>2. CASE Lookup(r)
  <2>1. CASE Respond(r, 401) /\ UNCHANGED sessions
    <3>1. Others(r) /\ req'[r].pc = "done"
      BY <1>0, <2>1, RespondFields DEF Statuses
    <3> QED BY <1>2, <2>1, <3>1, QuietHarmless DEF Lookup, storeVars
  <2>2. CASE \E id \in Fresh : /\ sessions' = sessions \cup {id}
                               /\ \E rec \in Rec : rec.id = id /\ Carry(r, "create", rec)
    <3>1. PICK id \in Fresh, rec \in Rec :
            sessions' = sessions \cup {id} /\ rec.id = id /\ Carry(r, "create", rec)
      BY <2>2
    <3>2. Others(r) /\ req'[r].rec.id = id
      BY <1>0, <3>1, CarryFields DEF Pcs
    <3> QED BY <1>2, <3>1, <3>2 DEF Lookup, Harmless, Writes, Fresh, storeVars
  <2>3. \A id \in Fresh :
          LET rec == [id |-> id, code |-> req[r].code, user |-> codes[req[r].code].user,
                      expiresAt |-> now + SessionTTL, by |-> "callback"]
          IN  rec \in Rec /\ rec.id = id
    BY <1>0, <1>2, TTLs DEF Lookup, Shape, WellShaped, HasCode, World, Rec, Fresh, Writers
  <2> QED BY <1>2, <2>1, <2>2, <2>3 DEF Lookup
<1> QED BY <1>1, <1>2

LEMMA RefreshGetHarmless ==
  ASSUME TInv, NEW r \in Reqs, RefreshGet(r)
  PROVE  Others(r) /\ Harmless(r)
<1>0. Requests /\ Shape /\ Redis
  BY Parts
<1>1. CASE Respond(r, 401)
  <2>1. Others(r) /\ req'[r].pc = "done"
    BY <1>0, <1>1, RespondFields DEF Statuses
  <2> QED BY <2>1, QuietHarmless DEF RefreshGet, envVars, storeVars
<1>2. CASE Exists(req[r].rec.id) /\ Carry(r, "create", [store[req[r].rec.id] EXCEPT !.expiresAt = req[r].newExpiry, !.by = "refresh"])
  <2> DEFINE key == req[r].rec.id
             rec == [store[key] EXCEPT !.expiresAt = req[r].newExpiry, !.by = "refresh"]
  <2>1. key \in Ids /\ store[key] \in Rec /\ req[r].newExpiry \in Nat /\ store[key].id = key
    BY <1>0, <1>2, Fields, RecFields
       DEF RefreshGet, Shape, WellShaped, HasRecord, Redis, KeyedById, Exists, Requests
  <2>2. rec \in Rec /\ rec.id = key
    BY <2>1 DEF Rec, Writers
  <2>3. Carry(r, "create", rec) /\ Exists(key)
    BY <1>2
  <2> HIDE DEF rec, key
  <2>4. Others(r) /\ req'[r].rec.id = key
    BY <1>0, <2>2, <2>3, CarryFields DEF Pcs
  <2> QED BY <2>1, <2>3, <2>4 DEF RefreshGet, Harmless, Writes, envVars, storeVars
<1> QED BY <1>1, <1>2 DEF RefreshGet

LEMMA CreateSteps ==
  ASSUME TInv, NEW r \in Reqs, CreateTTL(r) \/ CreateSet(r)
  PROVE  Others(r) /\ Harmless(r)
<1>0. Requests /\ Shape /\ Redis /\ World
  BY Parts
<1>1. CASE CreateTTL(r)
  <2>1. req[r].rec \in Rec
    BY <1>0, <1>1, Fields DEF CreateTTL, Shape, WellShaped, HasRecord, Requests
  <2>2. (IF TimeUntil(req[r].rec.expiresAt) = 0 THEN StoreTTL(req[r].op) ELSE TimeUntil(req[r].rec.expiresAt)) \in Nat
    BY <1>0, <2>1, RecFields, TTLs DEF TimeUntil, StoreTTL, World
  <2>3. PICK t \in Nat : Number(r, "set", t)
    BY <1>1, <2>2 DEF CreateTTL, Number
  <2>4. Others(r) /\ req'[r].rec = req[r].rec
    BY <1>0, <2>3, NumberFields DEF Pcs
  <2> QED BY <1>1, <2>4 DEF CreateTTL, Harmless, Writes, envVars, storeVars
<1>2. CASE CreateSet(r)
  <2>1. Others(r) /\ req'[r].pc = "done"
    BY <1>0, <1>2, RespondFields DEF CreateSet, Created, CreateFailed, Statuses
  <2>2. \A id \in Ids : store'[id] # NoRec => store[id] # NoRec \/ Writes(r, id)
    BY <1>0, <1>2 DEF CreateSet, SetKey, storeVars, Redis, Writes
  <2> QED BY <1>2, <2>1, <2>2 DEF CreateSet, Harmless, Writes, envVars
<1> QED BY <1>1, <1>2

LEMMA StepKeepsEnded ==
  ASSUME TInv, [Next]_vars, NEW id \in Ids, Ended(id)
  PROVE  Ended(id)'
<1>1. ASSUME NEW r \in Reqs, Arrive(r) \/ ServerStep(r) \/ GitHubStep(r) \/ Leave(r)
      PROVE  Ended(id)'
  <2>1. Others(r) /\ Harmless(r)
    BY <1>1, QuietSteps, DeletingSteps, NewIdSteps, RefreshGetHarmless, CreateSteps
       DEF Arrive, ServerStep, GitHubStep, Leave, Quiet
  <2> QED BY <2>1, HarmlessKeepsEnded
<1>2. CASE Crash
  <2>1. \A r \in Reqs : req'[r] = Idle
    BY <1>2 DEF Crash
  <2> QED BY <1>2, <2>1, IdleRequest DEF Crash, Ended, Exists, Writes, envVars, storeVars
<1>3. CASE Tick
  BY <1>3 DEF Tick, Ended, Exists, Writes
<1>4. CASE SignIn
  BY <1>4 DEF SignIn, Ended, Exists, Writes, storeVars
<1>5. CASE UNCHANGED vars
  BY <1>5 DEF vars, Ended, Exists, Writes
<1> QED BY <1>1, <1>2, <1>3, <1>4, <1>5 DEF Next

\* An id that has ended (logged out, expired, or never stored) with no write
\* of it under way is never a session again: the only writes of a key are
\* those of ids just generated and those of a refresh that found the key.
THEOREM EndedForever == Spec => EndedStaysEnded
<1>1. TInv /\ [Next]_vars => (\A id \in Ids : Ended(id) => Ended(id)')
  BY StepKeepsEnded
<1> QED BY <1>1, AlwaysTInv, PTL DEF Spec, EndedStaysEnded
=============================================================================
