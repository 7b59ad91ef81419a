--------------------------- MODULE AuthOwnerProofs ---------------------------
(***************************************************************************)
(* Proofs that a session belongs to an allowed user who signed in, and that *)
(* a sign-in gives one session, for every number of requests, ids and      *)
(* accounts and for every list of allowed organisations.                   *)
(*                                                                         *)
(* Both depend on what the requests under way may still do with a code: a *)
(* callback has a code somebody signed in for, and a callback whose code   *)
(* was accepted must be the only one with it, no session having come of it *)
(* so far (Callbacks).                                                     *)
(***************************************************************************)
EXTENDS AuthSessionProofs

CallbackPcs == {"state_get", "state_del", "exchange", "lookup"}

\* Only codes that were issued are used.
Issued == \A c \in Codes : codes[c].used => codes[c].user # NoUser

\* A callback has a code of somebody who signed in; once GitHub accepted it the
\* callback is the only one with that code, and no session has come of it.
Callbacks ==
  /\ \A r \in Reqs : req[r].pc \in CallbackPcs => codes[req[r].code].user # NoUser
  /\ \A r \in Reqs : req[r].pc = "lookup" =>
       codes[req[r].code].used /\ \A rec \in SessionRecs : rec.code # req[r].code
  /\ \A r, x \in Reqs : req[r].pc = "lookup" /\ req[x].pc = "lookup" /\ req[r].code = req[x].code => r = x

OwnerInv == Issued /\ Callbacks /\ OwnerSignedIn /\ OneSessionPerSignIn

-----------------------------------------------------------------------------
(* Where session records come from. *)

Same(a, b) == a.id = b.id /\ a.code = b.code /\ a.user = b.user

\* A login state, nothing, or a session that exists already.
Known(rec) == rec = NoRec \/ rec.user = NoUser \/ \E b \in SessionRecs : Same(rec, b)

Held(rec) == (\E id \in Ids : rec = store[id]) \/ (\E r \in Reqs : rec = req[r].rec)

LEMMA MemberRecs ==
  /\ \A rec : rec \in SessionRecs <=> Held(rec) /\ rec # NoRec /\ rec.user # NoUser
  /\ \A rec : (rec \in SessionRecs)' <=> Held(rec)' /\ rec # NoRec /\ rec.user # NoUser
  BY DEF SessionRecs, Held

LEMMA HeldKnown ==
  /\ \A id \in Ids : Known(store[id])
  /\ \A r \in Reqs : Known(req[r].rec)
  BY MemberRecs DEF Known, Held, Same

\* No session appears that is not a copy of one.
Copied == \A a : (a \in SessionRecs)' => \E b \in SessionRecs : Same(a, b)

LEMMA CopiedFrom ==
  ASSUME NEW r \in Reqs, Others(r), Known(req'[r].rec),
         \A id \in Ids : Known(store'[id])
  PROVE  Copied
<1> SUFFICES ASSUME NEW a, (a \in SessionRecs)'
             PROVE  \E b \in SessionRecs : Same(a, b)
    BY DEF Copied
<1>1. Held(a)' /\ a # NoRec /\ a.user # NoUser
  BY MemberRecs
<1>2. CASE \E id \in Ids : a = store'[id]
  BY <1>1, <1>2 DEF Known
<1>3. CASE a = req'[r].rec
  BY <1>1, <1>3 DEF Known
<1>4. CASE \E x \in Reqs \ {r} : a = req'[x].rec
  BY <1>1, <1>4, HeldKnown DEF Others, Known
<1> QED BY <1>1, <1>2, <1>3, <1>4 DEF Held

\* Sessions that are copies keep their owners, as long as accepted codes stay.
LEMMA CopiesKeep ==
  ASSUME OwnerSignedIn, OneSessionPerSignIn, Copied,
         sessions \subseteq sessions',
         \A c \in Codes : codes[c].used => codes'[c] = codes[c],
         \A rec \in SessionRecs : rec.code \in Codes
  PROVE  OwnerSignedIn' /\ OneSessionPerSignIn'
<1>1. OwnerSignedIn'
  <2> SUFFICES ASSUME NEW a, (a \in SessionRecs)'
               PROVE  /\ a.id \in sessions'
                      /\ a.code # NoCode /\ codes'[a.code] = [user |-> a.user, used |-> TRUE]
                      /\ AllowedOrgs # {} => \E org \in AllowedOrgs : org \in OrgsOf[a.user]
      BY DEF OwnerSignedIn
  <2>1. PICK b \in SessionRecs : Same(a, b)
    BY DEF Copied
  <2>2. b.code # NoCode /\ codes[b.code] = [user |-> b.user, used |-> TRUE] /\ b.id \in sessions
        /\ (AllowedOrgs # {} => \E org \in AllowedOrgs : org \in OrgsOf[b.user])
    BY DEF OwnerSignedIn
  <2>3. codes'[b.code] = codes[b.code]
    BY <2>2
  <2> QED BY <2>1, <2>2, <2>3 DEF Same
<1>2. OneSessionPerSignIn'
  <2> SUFFICES ASSUME NEW a, NEW c, (a \in SessionRecs)', (c \in SessionRecs)', a.code = c.code
               PROVE  a.id = c.id
      BY DEF OneSessionPerSignIn
  <2> QED BY DEF Copied, Same, OneSessionPerSignIn
<1> QED BY <1>1, <1>2

LEMMA RecsTyped ==
  ASSUME TInv, OwnerSignedIn
  PROVE  \A rec \in SessionRecs : rec \in Rec /\ rec.code \in Codes /\ rec.id \in Ids
<1>1. \A id \in Ids : store[id] \in Rec \cup {NoRec}
  BY Parts DEF Redis
<1>2. \A r \in Reqs : req[r].rec \in Rec \cup {NoRec}
  BY Parts, Fields DEF Requests
<1>3. \A rec \in SessionRecs : rec.code # NoCode
  BY DEF OwnerSignedIn
<1> QED BY <1>1, <1>2, <1>3, MemberRecs, RecFields DEF Held

-----------------------------------------------------------------------------
(* Steps that leave the codes and the ids alone. *)

Tame(r) ==
  /\ Others(r) /\ UNCHANGED <<codes, states, sessions>>
  /\ \A id \in Ids : store'[id] \in {store[id], NoRec, req[r].rec}
  /\ Known(req'[r].rec)
  /\ req'[r].pc \in CallbackPcs => codes[req'[r].code].user # NoUser
  /\ req'[r].pc # "lookup"

LEMMA TameKeeps ==
  ASSUME TInv, OwnerInv, NEW r \in Reqs, Tame(r)
  PROVE  OwnerInv'
<1>0. Issued /\ Callbacks /\ OwnerSignedIn /\ OneSessionPerSignIn
  BY DEF OwnerInv
<1>1. Copied
  <2>1. \A id \in Ids : Known(store'[id])
    BY HeldKnown DEF Tame, Known
  <2> QED BY <2>1, CopiedFrom DEF Tame
<1>2. Issued'
  BY <1>0 DEF Issued, Tame
<1>4. Callbacks'
  <2>1. \A x \in Reqs : req'[x].pc \in CallbackPcs => codes[req'[x].code].user # NoUser
    BY <1>0 DEF Callbacks, Tame, Others
  <2>2. \A x \in Reqs : req'[x].pc = "lookup" => req'[x] = req[x]
    BY DEF Tame, Others
  <2>3. \A x \in Reqs : req'[x].pc = "lookup" =>
          codes[req'[x].code].used /\ \A a : (a \in SessionRecs)' => a.code # req'[x].code
    BY <1>0, <1>1, <2>2 DEF Callbacks, Copied, Same
  <2> QED BY <1>0, <2>1, <2>2, <2>3 DEF Callbacks, Tame
<1>5. OwnerSignedIn' /\ OneSessionPerSignIn'
  BY <1>0, <1>1, RecsTyped, CopiesKeep DEF Tame
<1> QED BY <1>2, <1>4, <1>5 DEF OwnerInv

\* The steps of a request that are tame.
LEMMA ArriveTame ==
  ASSUME TInv, OwnerInv, NEW r \in Reqs, BeginCallback(r) \/ BeginApi(r)
  PROVE  Tame(r)
<1>0. Requests /\ World
  BY Parts
<1>1. UNCHANGED <<store, codes, states, sessions>>
  BY DEF BeginCallback, BeginApi, envVars, storeVars
<1>2. CASE BeginCallback(r)
  <2>1. PICK op \in {"callback"}, s \in Ids \cup {NoId}, c \in Codes \cup {NoCode},
             pc \in {"done", "state_get"}, status \in {0, 400} :
          /\ Start(r, op, s, c, pc, NoRec, status)
          /\ pc = "state_get" => c \in Codes /\ codes[c] # Unissued
    BY <1>0, <1>2 DEF BeginCallback, World
  <2>2. op \in Ops /\ pc \in Pcs /\ status \in Statuses
    BY DEF Pcs, Ops, Statuses
  <2>3. pc = "state_get" => codes[c].user # NoUser
    BY <1>0, <2>1 DEF OwnerInv, Issued, World, Unissued
  <2>4. Start(r, op, s, c, pc, NoRec, status)
    BY <2>1
  <2>5. Begun(r, op, s, c, pc, status)
    BY <1>0, <2>2, <2>4, StartBegins
  <2> QED BY <1>1, <2>1, <2>3, <2>5 DEF Begun, Tame, Known, CallbackPcs
<1>3. CASE BeginApi(r)
  <2>1. \A header \in known \cup {NoId, NoHeader}, cookie \in known \cup {NoId} :
          ExtractSessionID(header, cookie) \in Ids \cup {NoId}
    BY <1>0 DEF ExtractSessionID, World
  <2>2. PICK op \in ApiOps, id \in Ids \cup {NoId}, pc \in {"done", "mw_get"}, status \in {0, 401} :
          Start(r, op, id, NoCode, pc, NoRec, status)
    BY <1>3, <2>1 DEF BeginApi
  <2>3. NoCode \in Codes \cup {NoCode} /\ op \in Ops /\ pc \in Pcs /\ status \in Statuses
    BY DEF Pcs, Ops, ApiOps, Statuses
  <2>4. Begun(r, op, id, NoCode, pc, status)
    BY <1>0, <2>2, <2>3, StartBegins
  <2> QED BY <1>1, <2>2, <2>4 DEF ApiOps, Begun, Tame, Known, CallbackPcs
<1> QED BY <1>2, <1>3

LEMMA MoveTame ==
  ASSUME TInv, OwnerInv, NEW r \in Reqs,
         StateGet(r) \/ StateDel(r) \/ MwCheck(r) \/ GetCurrentUser(r) \/ Logout(r)
  PROVE  Tame(r)
<1>0. Requests /\ Redis
  BY Parts
<1>1. Others(r) /\ req'[r].rec = req[r].rec /\ req'[r].code = req[r].code
  BY <1>0, RespondFields, GotoFields
     DEF StateGet, StateDel, MwCheck, GetCurrentUser, Logout, Statuses, Pcs
<1>2. req'[r].pc \in {"done", "state_del", "exchange", "admitted"}
  BY <1>0, RespondFields, GotoFields
     DEF StateGet, StateDel, MwCheck, GetCurrentUser, Logout, Statuses, Pcs
<1>3. req'[r].pc \in CallbackPcs => req[r].pc \in CallbackPcs
  BY <1>0, RespondFields, GotoFields
     DEF StateGet, StateDel, MwCheck, GetCurrentUser, Logout, Statuses, Pcs, CallbackPcs
<1>4. \A id \in Ids : store'[id] \in {store[id], NoRec}
  BY <1>0 DEF StateGet, StateDel, MwCheck, GetCurrentUser, Logout, DelKey, storeVars, Redis
<1>5. UNCHANGED <<codes, states, sessions>>
  BY DEF StateGet, StateDel, MwCheck, GetCurrentUser, Logout, envVars
<1>6. req[r].pc \in CallbackPcs => codes[req[r].code].user # NoUser
  BY DEF OwnerInv, Callbacks
<1> QED BY <1>1, <1>2, <1>3, <1>4, <1>5, <1>6, HeldKnown DEF Tame

LEMMA CarryTame ==
  ASSUME TInv, NEW r \in Reqs, MwGet(r) \/ RefreshGet(r)
  PROVE  Tame(r)
<1>0. Requests /\ Shape /\ Redis
  BY Parts
<1>1. UNCHANGED <<store, codes, states, sessions>>
  BY DEF MwGet, RefreshGet, envVars, storeVars
<1>2. CASE Respond(r, 401) \/ Respond(r, 500)
  BY <1>0, <1>1, <1>2, RespondFields, HeldKnown DEF Statuses, Tame, CallbackPcs
<1>3. CASE \E rec \in Rec : Known(rec) /\ (Carry(r, "mw_check", rec) \/ Carry(r, "create", rec))
  BY <1>0, <1>1, <1>3, CarryFields DEF Pcs, Tame, CallbackPcs
<1>4. CASE MwGet(r) /\ Exists(req[r].id) /\ Carry(r, "mw_check", store[req[r].id])
  <2>1. req[r].id \in Ids /\ store[req[r].id] \in Rec
    BY <1>0, <1>4 DEF MwGet, Shape, WellShaped, HasId, Redis, Exists
  <2> QED BY <1>3, <1>4, <2>1, HeldKnown
<1>5. CASE /\ RefreshGet(r) /\ Exists(req[r].rec.id)
           /\ Carry(r, "create", [store[req[r].rec.id] EXCEPT !.expiresAt = req[r].newExpiry, !.by = "refresh"])
  <2> DEFINE key == req[r].rec.id
             rec == [store[key] EXCEPT !.expiresAt = req[r].newExpiry, !.by = "refresh"]
  <2>1. key \in Ids /\ store[key] \in Rec /\ req[r].newExpiry \in Nat
    BY <1>0, <1>5, Fields, RecFields
       DEF RefreshGet, Shape, WellShaped, HasRecord, Redis, Exists, Requests
  <2>2. rec \in Rec /\ Same(rec, store[key])
    BY <2>1 DEF Rec, Same, Writers
  <2>3. Carry(r, "create", rec)
    BY <1>5
  <2>4. store[key] # NoRec
    BY <1>5 DEF Exists
  <2> HIDE DEF rec, key
  <2>5. Known(rec)
    BY <2>1, <2>2, <2>4, HeldKnown DEF Known, Same
  <2> QED BY <1>3, <2>2, <2>3, <2>5
<1> QED BY <1>2, <1>4, <1>5 DEF MwGet, RefreshGet

LEMMA NumberTame ==
  ASSUME TInv, NEW r \in Reqs, RefreshToken(r) \/ CreateTTL(r)
  PROVE  Tame(r)
<1>0. Requests /\ Shape /\ Redis /\ World
  BY Parts
<1>1. UNCHANGED <<store, codes, states, sessions>>
  BY DEF RefreshToken, CreateTTL, envVars, storeVars
<1>2. PICK t \in Nat, pc \in {"refresh_get", "set"} : Number(r, pc, t)
  <2>1. CASE RefreshToken(r)
    <3>1. now + SessionTTL \in Nat
      BY <1>0, TTLs DEF World
    <3> QED BY <2>1, <3>1 DEF RefreshToken, Number
  <2>2. CASE CreateTTL(r)
    <3>1. req[r].rec \in Rec
      BY <1>0, <2>2, Fields DEF CreateTTL, Shape, WellShaped, HasRecord, Requests
    <3>2. (IF TimeUntil(req[r].rec.expiresAt) = 0 THEN StoreTTL(req[r].op) ELSE TimeUntil(req[r].rec.expiresAt)) \in Nat
      BY <1>0, <3>1, RecFields, TTLs DEF TimeUntil, StoreTTL, World
    <3> QED BY <2>2, <3>2 DEF CreateTTL, Number
  <2> QED BY <2>1, <2>2
<1>3. pc \in Pcs
  BY DEF Pcs
<1> QED BY <1>0, <1>1, <1>2, <1>3, NumberFields, HeldKnown DEF Tame, CallbackPcs

LEMMA CreateSetTame ==
  ASSUME TInv, NEW r \in Reqs, CreateSet(r)
  PROVE  Tame(r)
<1>0. Requests /\ Redis
  BY Parts
<1>1. Others(r) /\ req'[r].pc = "done" /\ req'[r].rec = req[r].rec
  BY <1>0, RespondFields DEF CreateSet, Created, CreateFailed, Statuses
<1>2. \A id \in Ids : store'[id] \in {store[id], req[r].rec}
  BY <1>0 DEF CreateSet, SetKey, storeVars, Redis
<1> QED BY <1>1, <1>2, HeldKnown DEF Tame, CreateSet, envVars, CallbackPcs

\* A slot that becomes free.
LEMMA LeaveTame ==
  ASSUME TInv, NEW r \in Reqs, Deliver(r) \/ LoseResponse(r)
  PROVE  Tame(r)
<1>0. Requests
  BY Parts
<1>1. Others(r) /\ req'[r] = Idle
  BY <1>0, IdleRequest, Replace DEF Deliver, LoseResponse
<1> QED BY <1>1, IdleRequest DEF Deliver, LoseResponse, Tame, Known, envVars, storeVars, CallbackPcs

-----------------------------------------------------------------------------
(* The steps that change codes or ids. *)

\* A step of r that is not a callback, and leaves the codes that were
\* issued alone, keeps Callbacks.
LEMMA QuietCallbacks ==
  ASSUME Callbacks, Copied, NEW r \in Reqs, Others(r), Requests, Shape,
         req'[r].pc \notin CallbackPcs,
         \A c \in Codes : codes[c].user # NoUser => codes'[c] = codes[c]
  PROVE  Callbacks'
<1>1. \A x \in Reqs : req'[x].pc \in CallbackPcs =>
        /\ x # r /\ req'[x] = req[x] /\ req[x].code \in Codes
        /\ codes[req[x].code].user # NoUser /\ codes'[req[x].code] = codes[req[x].code]
  BY DEF Callbacks, Others, Shape, WellShaped, HasCode, CallbackPcs
<1>2. \A x \in Reqs : req'[x].pc = "lookup" => req'[x].pc \in CallbackPcs
  BY DEF CallbackPcs
<1>3. \A x \in Reqs : req'[x].pc = "lookup" =>
        codes'[req'[x].code].used /\ \A a : (a \in SessionRecs)' => a.code # req'[x].code
  BY <1>1, <1>2 DEF Callbacks, Copied, Same
<1> QED BY <1>1, <1>2, <1>3 DEF Callbacks

LEMMA BeginLoginKeeps ==
  ASSUME TInv, OwnerInv, NEW r \in Reqs, BeginLogin(r)
  PROVE  OwnerInv'
<1>0. /\ Requests /\ Shape /\ World
      /\ Issued /\ Callbacks /\ OwnerSignedIn /\ OneSessionPerSignIn
  BY Parts DEF OwnerInv
<1>1. PICK s \in Fresh : /\ states' = states \cup {s}
        /\ Start(r, "login", s, NoCode, "create",
                 [id |-> s, code |-> NoCode, user |-> NoUser,
                  expiresAt |-> now + StateTTL, by |-> "login"], 0)
  BY DEF BeginLogin
<1> DEFINE rec == [id |-> s, code |-> NoCode, user |-> NoUser,
                   expiresAt |-> now + StateTTL, by |-> "login"]
<1>2. rec \in Rec /\ rec.user = NoUser
  BY <1>0, TTLs DEF World, Rec, Fresh, Writers
<1>3. "login" \in Ops /\ s \in Ids \cup {NoId} /\ NoCode \in Codes \cup {NoCode} /\ "create" \in Pcs /\ 0 \in Statuses
  BY DEF Fresh, Ops, Pcs, Statuses
<1>4. Start(r, "login", s, NoCode, "create", rec, 0)
  BY <1>1
<1> HIDE DEF rec
<1>5. Others(r) /\ req'[r].pc = "create" /\ req'[r].rec = rec
  BY <1>0, <1>2, <1>3, <1>4, StartFields
<1>6. UNCHANGED <<codes, sessions, store>>
  BY DEF BeginLogin, storeVars
<1>7. Copied
  BY <1>2, <1>5, <1>6, CopiedFrom, HeldKnown DEF Known
<1>8. Issued'
  BY <1>0, <1>6 DEF Issued
<1>10. Callbacks'
  BY <1>0, <1>5, <1>6, <1>7, QuietCallbacks DEF CallbackPcs
<1>11. OwnerSignedIn' /\ OneSessionPerSignIn'
  BY <1>0, <1>6, <1>7, RecsTyped, CopiesKeep
<1> QED BY <1>8, <1>10, <1>11 DEF OwnerInv

LEMMA ExchangeKeeps ==
  ASSUME TInv, OwnerInv, NEW r \in Reqs, Exchange(r)
  PROVE  OwnerInv'
<1>0. /\ Requests /\ Shape /\ World
      /\ Issued /\ Callbacks /\ OwnerSignedIn /\ OneSessionPerSignIn
  BY Parts DEF OwnerInv
<1> DEFINE s == req[r].code
<1>1. s \in Codes /\ codes[s].user # NoUser
  BY <1>0 DEF Exchange, Shape, WellShaped, HasCode, Callbacks, CallbackPcs
<1>2. /\ \/ codes' = [codes EXCEPT ![s] = [@ EXCEPT !.used = TRUE]]
         \/ UNCHANGED codes
      /\ req'[r].pc = "lookup" => codes' = [codes EXCEPT ![s] = [@ EXCEPT !.used = TRUE]]
  BY <1>0, RespondFields, GotoFields DEF Exchange, Statuses, Pcs
<1>3. /\ \A x \in Codes : codes'[x].user = codes[x].user
      /\ \A x \in Codes \ {s} : codes'[x] = codes[x]
      /\ codes[s].used => codes'[s] = codes[s]
      /\ req'[r].pc = "lookup" => codes'[s].used
  <2>1. codes[s] \in [user : Users \cup {NoUser}, used : BOOLEAN]
    BY <1>0, <1>1 DEF World
  <2>2. codes'[s] = [codes[s] EXCEPT !.used = TRUE] \/ codes'[s] = codes[s]
    BY <1>0, <1>1, <1>2 DEF World
  <2>3. \A x \in Codes \ {s} : codes'[x] = codes[x]
    BY <1>0, <1>1, <1>2 DEF World
  <2>4. codes'[s].user = codes[s].user
    BY <2>1, <2>2
  <2>5. codes[s].used => codes'[s] = codes[s]
    BY <2>1, <2>2
  <2>6. req'[r].pc = "lookup" => codes'[s] = [codes[s] EXCEPT !.used = TRUE]
    BY <1>0, <1>1, <1>2 DEF World
  <2> QED BY <2>1, <2>3, <2>4, <2>5, <2>6
<1>4. /\ Others(r) /\ req'[r].rec = req[r].rec
      /\ req'[r].code = s
      /\ req'[r].pc = "done" \/ (req'[r].pc = "lookup" /\ ~codes[s].used)
  BY <1>0, RespondFields, GotoFields DEF Exchange, Statuses, Pcs
<1>5. UNCHANGED <<states, sessions, store>>
  BY DEF Exchange, storeVars
<1> HIDE DEF s
<1>6. Copied
  BY <1>4, <1>5, CopiedFrom, HeldKnown
<1>7. Issued'
  BY <1>0, <1>1, <1>3 DEF Issued
<1>9. Callbacks'
  <2>1. \A x \in Reqs : req'[x].pc \in CallbackPcs =>
          req'[x].code \in Codes /\ codes[req'[x].code].user # NoUser
    BY <1>0, <1>1, <1>4 DEF Callbacks, Others, Shape, WellShaped, HasCode, CallbackPcs
  <2>2. \A x \in Reqs : req'[x].pc = "lookup" =>
          /\ codes'[req'[x].code].used
          /\ \A rec \in SessionRecs : rec.code # req'[x].code
    <3>1. \A x \in Reqs \ {r} : req'[x] = req[x]
      BY <1>4 DEF Others
    <3>2. ASSUME NEW x \in Reqs \ {r}, req'[x].pc = "lookup"
          PROVE  /\ codes'[req'[x].code].used
                 /\ \A rec \in SessionRecs : rec.code # req'[x].code
      <4>1. req[x].pc = "lookup" /\ req[x].code \in Codes
        BY <1>0, <3>1, <3>2 DEF Shape, WellShaped, HasCode
      <4>2. codes[req[x].code].used /\ \A rec \in SessionRecs : rec.code # req[x].code
        BY <1>0, <4>1 DEF Callbacks
      <4> QED BY <1>3, <3>1, <4>1, <4>2
    <3>3. ASSUME req'[r].pc = "lookup"
          PROVE  codes'[s].used /\ \A rec \in SessionRecs : rec.code # s
      <4>1. ~codes[s].used /\ codes'[s].used
        BY <1>3, <1>4, <3>3
      <4> SUFFICES ASSUME NEW rec \in SessionRecs, rec.code = s
                   PROVE  FALSE
          BY <4>1
      <4>2. codes[rec.code] = [user |-> rec.user, used |-> TRUE]
        BY <1>0 DEF OwnerSignedIn
      <4>3. codes[rec.code].used
        BY <4>2
      <4> QED BY <4>1, <4>3
    <3> QED BY <1>4, <3>2, <3>3
  <2>3. \A x \in Reqs \ {r} : req'[x].pc = "lookup" /\ req'[r].pc = "lookup" => req'[x].code # s
    BY <1>0, <1>4 DEF Callbacks, Others
  <2>4. \A x, y \in Reqs :
          req'[x].pc = "lookup" /\ req'[y].pc = "lookup" /\ req'[x].code = req'[y].code => x = y
    BY <1>0, <1>4, <2>3 DEF Callbacks, Others
  <2> QED BY <1>3, <1>6, <2>1, <2>2, <2>4 DEF Callbacks, Copied, Same
<1>10. OwnerSignedIn' /\ OneSessionPerSignIn'
  BY <1>0, <1>3, <1>5, <1>6, RecsTyped, CopiesKeep
<1> QED BY <1>7, <1>9, <1>10 DEF OwnerInv

LEMMA LookupKeeps ==
  ASSUME TInv, OwnerInv, NEW r \in Reqs, Lookup(r)
  PROVE  OwnerInv'
<1>0. /\ Requests /\ Shape /\ World
      /\ Issued /\ Callbacks /\ OwnerSignedIn /\ OneSessionPerSignIn
  BY Parts DEF OwnerInv
<1> DEFINE s == req[r].code
           New(id) == [id |-> id, code |-> s, user |-> codes[s].user,
                       expiresAt |-> now + SessionTTL, by |-> "callback"]
<1>1. UNCHANGED <<codes, states, store>>
  BY DEF Lookup, storeVars
<1>2. CASE Respond(r, 401) /\ UNCHANGED sessions
  <2>1. Tame(r)
    BY <1>0, <1>1, <1>2, RespondFields, HeldKnown DEF Statuses, Tame, CallbackPcs
  <2> QED BY <2>1, TameKeeps
<1>3. CASE /\ ValidateOrgMembership(codes[s].user)
           /\ \E id \in Fresh : sessions' = sessions \cup {id} /\ Carry(r, "create", New(id))
  <2>1. PICK id \in Fresh : sessions' = sessions \cup {id} /\ Carry(r, "create", New(id))
    BY <1>3
  <2>2. s \in Codes /\ codes[s].user # NoUser /\ codes[s] = [user |-> codes[s].user, used |-> TRUE]
    BY <1>0 DEF Lookup, Shape, WellShaped, HasCode, World, Callbacks, CallbackPcs
  <2> DEFINE rec == New(id)
  <2>3. rec \in Rec /\ rec.id = id /\ rec.code = s /\ rec.user = codes[s].user
    BY <1>0, <2>2, TTLs DEF World, Rec, Fresh, Writers
  <2>4. Carry(r, "create", rec)
    BY <2>1
  <2> HIDE DEF rec
  <2>5. /\ Others(r) /\ req'[r].pc = "create" /\ req'[r].rec = rec
    BY <1>0, <2>3, <2>4, CarryFields DEF Pcs
  <2>6. \A a : (a \in SessionRecs)' => a = rec \/ \E b \in SessionRecs : Same(a, b)
    <3>1. \A a : Held(a)' => a = rec \/ Known(a)
      BY <1>1, <2>5, HeldKnown DEF Held, Others
    <3> QED BY <3>1, MemberRecs DEF Known
  <2>7. \A b \in SessionRecs : b.code # s
    BY <1>0 DEF Callbacks, Lookup
  <2> HIDE DEF s
  <2>8. Issued'
    BY <1>0, <1>1 DEF Issued
  <2>10. Callbacks'
    <3>1. \A x \in Reqs : req'[x].pc \in CallbackPcs => req'[x] = req[x] /\ x # r
      BY <2>5 DEF Others, CallbackPcs
    <3>2. \A x \in Reqs : req'[x].pc = "lookup" => req'[x] = req[x] /\ req[x].code # s
      <4>1. req[r].pc = "lookup" /\ req[r].code = s
        BY DEF Lookup, s
      <4> QED BY <1>0, <3>1, <4>1 DEF Callbacks, CallbackPcs
    <3>3. \A x \in Reqs : req'[x].pc = "lookup" =>
            codes'[req'[x].code].used /\ \A a : (a \in SessionRecs)' => a.code # req'[x].code
      BY <1>0, <1>1, <2>3, <2>6, <3>2 DEF Callbacks, Same
    <3> QED BY <1>0, <1>1, <3>1, <3>2, <3>3 DEF Callbacks
  <2>11. OwnerSignedIn'
    <3> SUFFICES ASSUME NEW a, (a \in SessionRecs)'
                 PROVE  /\ a.id \in sessions'
                        /\ a.code # NoCode /\ codes'[a.code] = [user |-> a.user, used |-> TRUE]
                        /\ AllowedOrgs # {} => \E org \in AllowedOrgs : org \in OrgsOf[a.user]
        BY DEF OwnerSignedIn
    <3>1. CASE a = rec
      <4>1. AllowedOrgs # {} => \E org \in AllowedOrgs : org \in OrgsOf[codes[s].user]
        BY <1>3 DEF ValidateOrgMembership
      <4>2. s # NoCode
        BY <2>2, CodesAssumption
      <4> QED BY <1>1, <2>1, <2>2, <2>3, <3>1, <4>1, <4>2
    <3>2. ASSUME NEW b \in SessionRecs, Same(a, b)
          PROVE  /\ a.id \in sessions'
                 /\ a.code # NoCode /\ codes'[a.code] = [user |-> a.user, used |-> TRUE]
                 /\ AllowedOrgs # {} => \E org \in AllowedOrgs : org \in OrgsOf[a.user]
      BY <1>0, <1>1, <2>1, <3>2 DEF OwnerSignedIn, Same
    <3> QED BY <2>6, <3>1, <3>2
  <2>12. OneSessionPerSignIn'
    <3> SUFFICES ASSUME NEW a, NEW c, (a \in SessionRecs)', (c \in SessionRecs)', a.code = c.code
                 PROVE  a.id = c.id
        BY DEF OneSessionPerSignIn
    <3> QED BY <1>0, <2>3, <2>6, <2>7 DEF OneSessionPerSignIn, Same
  <2> QED BY <2>8, <2>10, <2>11, <2>12 DEF OwnerInv
<1> QED BY <1>2, <1>3 DEF Lookup

\* A user signs in at GitHub and is given a code nobody had.
LEMMA SignInKeeps ==
  ASSUME TInv, OwnerInv, SignIn
  PROVE  OwnerInv'
<1>0. /\ Shape /\ World
      /\ Issued /\ Callbacks /\ OwnerSignedIn /\ OneSessionPerSignIn
  BY Parts DEF OwnerInv
<1>1. PICK s \in Codes, u \in Users :
        codes[s] = Unissued /\ codes' = [codes EXCEPT ![s] = [user |-> u, used |-> FALSE]]
  BY DEF SignIn
<1>2. codes[s].user = NoUser /\ ~codes[s].used
  BY <1>1 DEF Unissued
<1>3. codes'[s].user # NoUser /\ \A x \in Codes \ {s} : codes'[x] = codes[x]
  BY <1>0, <1>1, UsersAssumption DEF World
<1>4. UNCHANGED <<store, req, sessions>>
  BY DEF SignIn, storeVars
<1>5. UNCHANGED SessionRecs
  BY <1>4 DEF SessionRecs
<1>6. Issued'
  BY <1>0, <1>3 DEF Issued
<1>7. Callbacks'
  <2>1. \A x \in Reqs : req[x].pc = "lookup" => req[x].pc \in CallbackPcs
    BY DEF CallbackPcs
  <2>2. \A x \in Reqs : req[x].pc \in CallbackPcs =>
          /\ req[x].code \in Codes /\ codes[req[x].code].user # NoUser
          /\ codes'[req[x].code] = codes[req[x].code]
    BY <1>0, <1>2, <1>3 DEF Callbacks, Shape, WellShaped, HasCode, CallbackPcs
  <2> QED BY <1>0, <1>4, <1>5, <2>1, <2>2 DEF Callbacks
<1>8. OwnerSignedIn' /\ OneSessionPerSignIn'
  <2>1. Copied
    BY <1>5 DEF Copied, Same
  <2> QED BY <1>0, <1>2, <1>3, <1>4, <2>1, RecsTyped, CopiesKeep
<1> QED BY <1>6, <1>7, <1>8 DEF OwnerInv

LEMMA CrashKeeps ==
  ASSUME TInv, OwnerInv, Crash
  PROVE  OwnerInv'
<1>0. Issued /\ Callbacks /\ OwnerSignedIn /\ OneSessionPerSignIn
  BY DEF OwnerInv
<1>1. \A r \in Reqs : req'[r] = Idle
  BY DEF Crash
<1>2. UNCHANGED <<store, codes, states, sessions>>
  BY DEF Crash, envVars, storeVars
<1>3. Copied
  <2>1. \A a : Held(a)' => Known(a)
    BY <1>1, <1>2, IdleRequest, HeldKnown DEF Held, Known
  <2> QED BY <2>1, MemberRecs DEF Copied, Known
<1>4. Issued' /\ Callbacks'
  BY <1>0, <1>1, <1>2, IdleRequest DEF Issued, Callbacks, CallbackPcs
<1>5. OwnerSignedIn' /\ OneSessionPerSignIn'
  BY <1>0, <1>2, <1>3, RecsTyped, CopiesKeep
<1> QED BY <1>4, <1>5 DEF OwnerInv

LEMMA TickKeeps ==
  ASSUME TInv, OwnerInv, Tick
  PROVE  OwnerInv'
<1>0. Issued /\ Callbacks /\ OwnerSignedIn /\ OneSessionPerSignIn
  BY DEF OwnerInv
<1>1. UNCHANGED <<req, codes, states, sessions>>
  BY DEF Tick
<1>2. Copied
  <2>1. \A id \in Ids : store'[id] \in {store[id], NoRec}
    BY DEF Tick
  <2>2. \A a : Held(a)' => Known(a)
    BY <1>1, <2>1, HeldKnown DEF Held, Known
  <2> QED BY <2>2, MemberRecs DEF Copied, Known
<1>3. Issued'
  BY <1>0, <1>1 DEF Issued
<1>4. Callbacks'
  BY <1>0, <1>1, <1>2 DEF Callbacks, Copied, Same
<1>5. OwnerSignedIn' /\ OneSessionPerSignIn'
  BY <1>0, <1>1, <1>2, RecsTyped, CopiesKeep
<1> QED BY <1>3, <1>4, <1>5 DEF OwnerInv

-----------------------------------------------------------------------------
LEMMA InitOwnerInv == Init => OwnerInv
<1> SUFFICES ASSUME Init PROVE OwnerInv
    OBVIOUS
<1>1. \A rec : rec \notin SessionRecs
  BY IdleRequest, MemberRecs DEF Init, Held
<1>2. \A c \in Codes : codes[c].user = NoUser /\ ~codes[c].used
  BY DEF Init, Unissued
<1>3. \A r \in Reqs : req[r] = Idle
  BY DEF Init
<1> QED BY <1>1, <1>2, <1>3, IdleRequest
        DEF OwnerInv, Issued, Callbacks, CallbackPcs, OwnerSignedIn, OneSessionPerSignIn

LEMMA StepOwnerInv ==
  ASSUME TInv, OwnerInv, [Next]_vars
  PROVE  OwnerInv'
<1>1. ASSUME NEW r \in Reqs, Arrive(r) PROVE OwnerInv'
  BY <1>1, BeginLoginKeeps, ArriveTame, TameKeeps DEF Arrive
<1>2. ASSUME NEW r \in Reqs, ServerStep(r) PROVE OwnerInv'
  BY <1>2, MoveTame, CarryTame, NumberTame, CreateSetTame, TameKeeps DEF ServerStep
<1>3. ASSUME NEW r \in Reqs, GitHubStep(r) PROVE OwnerInv'
  BY <1>3, ExchangeKeeps, LookupKeeps DEF GitHubStep
<1>4. ASSUME NEW r \in Reqs, Leave(r) PROVE OwnerInv'
  BY <1>4, LeaveTame, TameKeeps DEF Leave
<1>5. CASE UNCHANGED vars
  <2>1. UNCHANGED SessionRecs
    BY <1>5 DEF vars, SessionRecs
  <2> QED BY <1>5, <2>1
          DEF vars, OwnerInv, Issued, Callbacks, OwnerSignedIn, OneSessionPerSignIn
<1> QED BY <1>1, <1>2, <1>3, <1>4, <1>5, SignInKeeps, CrashKeeps, TickKeeps DEF Next

LEMMA AlwaysOwnerInv == Spec => []OwnerInv
<1>1. TInv /\ OwnerInv /\ [Next]_vars => OwnerInv'
  BY StepOwnerInv
<1> QED BY <1>1, AlwaysTInv, InitOwnerInv, PTL DEF Spec

\* Every session, in Redis or in the hands of a request, belongs to an account
\* that signed in with a code GitHub accepted and that is in an allowed
\* organisation, whatever callbacks, refreshes, retries and crashes came
\* between (createCallbackHandler, RedisStore.Create and Refresh).
THEOREM OwnersSignedIn == Spec => []OwnerSignedIn
<1>1. OwnerInv => OwnerSignedIn
  BY DEF OwnerInv
<1> QED BY <1>1, AlwaysOwnerInv, PTL

\* No two session ids come from the same code of GitHub, although two callbacks
\* may come with it, under one login state that both find before either deletes
\* it or under two: GitHub's acceptance of the code decides between them, and
\* the one it accepts for creates one session (createCallbackHandler).
THEOREM OneSession == Spec => []OneSessionPerSignIn
<1>1. OwnerInv => OneSessionPerSignIn
  BY DEF OwnerInv
<1> QED BY <1>1, AlwaysOwnerInv, PTL
=============================================================================
