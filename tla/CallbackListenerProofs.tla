------------------------ MODULE CallbackListenerProofs ------------------------
(***************************************************************************)
(* Proofs about CallbackListener, for any number of requests of the        *)
(* browser and any set of tokens.                                          *)
(*                                                                         *)
(* ReturnsValidToken is not inductive: a token travels from its handler    *)
(* through tokenCh to the result, and what was checked in the handler must *)
(* still hold at each of these places.                                     *)
(***************************************************************************)
EXTENDS CallbackListener, FiniteSetTheorems, TLAPS

\* What a handler knows of its token at each point.
Knows(q) ==
  /\ q.pc = "validate" => q.token \in Tokens
  /\ q.pc = "send_token" => q.token \in valid

HandlersKnow == \A h \in Handlers : Knows(handler[h])
ChannelValid == tokenCh \subseteq valid
ResultSet == cli # "select" => result # NoToken

CInv == TypeOK /\ HandlersKnow /\ ChannelValid /\ ResultSet /\ ReturnsValidToken

-----------------------------------------------------------------------------
Handler == [pc : HandlerPcs, method : {"GET", "POST"}, token : Tokens \cup {NoToken}]

LEMMA HandlerFields ==
  ASSUME TypeOK, NEW h \in Handlers
  PROVE  /\ handler[h] \in Handler /\ handler[h].pc \in HandlerPcs
         /\ handler[h].method \in {"GET", "POST"} /\ handler[h].token \in Tokens \cup {NoToken}
  BY DEF TypeOK, Handler

\* A handler goes to a point where nothing more is asked of its token than
\* valid, which only grows, will hold.
LEMMA ToKeeps ==
  ASSUME TypeOK, HandlersKnow, NEW h \in Handlers, NEW pc \in HandlerPcs, To(h, pc),
         valid \subseteq valid',
         pc = "validate" => handler[h].token \in Tokens,
         pc = "send_token" => handler[h].token \in valid'
  PROVE  handler' \in [Handlers -> Handler] /\ HandlersKnow'
<1> DEFINE q == [handler[h] EXCEPT !.pc = pc]
<1>1. q \in Handler /\ q.pc = pc /\ q.token = handler[h].token
  BY HandlerFields DEF Handler
<1>2. handler' = [handler EXCEPT ![h] = q] /\ handler \in [Handlers -> Handler]
  BY DEF To, TypeOK, Handler
<1> HIDE DEF q
<1>3. handler' \in [Handlers -> Handler] /\ handler'[h] = q /\ \A x \in Handlers : x # h => handler'[x] = handler[x]
  BY <1>1, <1>2
<1>4. ASSUME NEW x \in Handlers PROVE Knows(handler[x])'
  <2>1. CASE x = h
    BY <2>1, <1>1, <1>3 DEF Knows
  <2>2. CASE x # h
    BY <2>2, <1>3 DEF Knows, HandlersKnow
  <2> QED BY <2>1, <2>2
<1> QED BY <1>3, <1>4 DEF HandlersKnow

\* Handlers and valid stay as they are.
LEMMA HandlersStay ==
  ASSUME HandlersKnow, UNCHANGED <<handler, valid>>
  PROVE  HandlersKnow'
  BY DEF HandlersKnow, Knows

-----------------------------------------------------------------------------
LEMMA InitCInv == Init => CInv
<1> SUFFICES ASSUME Init PROVE CInv
  OBVIOUS
<1>1. tokenCh \subseteq Tokens /\ Cardinality(tokenCh) <= 1
  BY FS_EmptySet DEF Init
<1>2. handler \in [Handlers -> [pc : HandlerPcs, method : {"GET", "POST"}, token : Tokens \cup {NoToken}]]
  BY DEF Init, HandlerPcs
<1>3. TypeOK
  <2>1. timeout \in [flow : {"running", "over"}, shutdown : {"off", "running", "over"}]
    BY DEF Init
  <2>2. valid \subseteq Tokens /\ errCh \in 0..1
    BY DEF Init
  <2> QED BY <1>1, <1>2, <2>1, <2>2 DEF Init, TypeOK
<1>4. HandlersKnow
  BY DEF Init, HandlersKnow, Knows
<1> QED BY <1>3, <1>4, ResultsAssumption DEF Init, CInv, ChannelValid, ResultSet, ReturnsValidToken

LEMMA ArriveCInv ==
  ASSUME CInv, NEW h \in Handlers, Arrive(h)
  PROVE  CInv'
<1> USE DEF CInv
<1>1. handler' \in [Handlers -> Handler] /\ HandlersKnow'
  <2>1. CASE To(h, "refused")
    BY <2>1, ToKeeps DEF Arrive, HandlerPcs
  <2>2. ASSUME NEW t \in Tokens, NEW m \in {"GET", "POST"},
               handler' = [handler EXCEPT ![h] = [pc |-> "validate", method |-> m, token |-> t]]
        PROVE  handler' \in [Handlers -> Handler] /\ HandlersKnow'
    <3> DEFINE q == [pc |-> "validate", method |-> m, token |-> t]
    <3>1. q \in Handler /\ q.pc = "validate" /\ q.token = t
      BY DEF Handler, HandlerPcs
    <3>2. handler' = [handler EXCEPT ![h] = q] /\ handler \in [Handlers -> Handler]
      BY <2>2 DEF TypeOK, Handler
    <3> HIDE DEF q
    <3>3. handler' \in [Handlers -> Handler] /\ handler'[h] = q /\ \A x \in Handlers : x # h => handler'[x] = handler[x]
      BY <3>1, <3>2
    <3> QED BY <3>1, <3>3 DEF Arrive, HandlersKnow, Knows
  <2> QED BY <2>1, <2>2 DEF Arrive
<1> QED BY <1>1 DEF Arrive, flowVars, TypeOK, Handler, ChannelValid, ResultSet, ReturnsValidToken

LEMMA ValidateCInv ==
  ASSUME CInv, NEW h \in Handlers, Validate(h)
  PROVE  CInv'
<1> USE DEF CInv
<1>1. handler[h].token \in Tokens
  BY DEF Validate, HandlersKnow, Knows
<1>2. valid \subseteq valid' /\ valid' \subseteq Tokens
  BY <1>1 DEF Validate, TypeOK
<1>3. handler' \in [Handlers -> Handler] /\ HandlersKnow'
  <2>1. CASE To(h, "send_token") /\ valid' = valid \cup {handler[h].token}
    BY <2>1, <1>2, ToKeeps DEF HandlerPcs
  <2>2. CASE To(h, "send_err")
    BY <2>2, <1>2, ToKeeps DEF HandlerPcs
  <2> QED BY <2>1, <2>2 DEF Validate
<1> QED BY <1>2, <1>3 DEF Validate, flowVars, TypeOK, Handler, ChannelValid, ResultSet, ReturnsValidToken

LEMMA SendTokenCInv ==
  ASSUME CInv, NEW h \in Handlers, SendToken(h)
  PROVE  CInv'
<1> USE DEF CInv
<1>1. handler[h].token \in valid /\ valid \subseteq Tokens
  BY DEF SendToken, HandlersKnow, Knows, TypeOK
<1>2. tokenCh' \subseteq valid /\ Cardinality(tokenCh') <= 1
  BY SMTT(30), <1>1, FS_Singleton DEF SendToken, TypeOK, ChannelValid
<1>3. handler' \in [Handlers -> Handler] /\ HandlersKnow'
  BY ToKeeps DEF SendToken, HandlerPcs
<1> QED BY <1>1, <1>2, <1>3 DEF SendToken, flowVars, TypeOK, Handler, ChannelValid, ResultSet, ReturnsValidToken

LEMMA SendErrCInv ==
  ASSUME CInv, NEW h \in Handlers, SendErr(h)
  PROVE  CInv'
<1> USE DEF CInv
<1>1. AfterErr(h) \in HandlerPcs /\ AfterErr(h) \notin {"validate", "send_token"}
  BY DEF AfterErr, HandlerPcs
<1>2. handler' \in [Handlers -> Handler] /\ HandlersKnow'
  BY <1>1, ToKeeps DEF SendErr
<1> QED BY <1>2 DEF SendErr, flowVars, TypeOK, Handler, ChannelValid, ResultSet, ReturnsValidToken

\* The goroutine of Serve touches neither tokens nor the result.
LEMMA ServeCInv ==
  ASSUME CInv, ServeReturns \/ ServeSendsErr
  PROVE  CInv'
<1> USE DEF CInv
<1>1. HandlersKnow'
  BY HandlersStay DEF ServeReturns, ServeSendsErr
<1> QED BY <1>1 DEF ServeReturns, ServeSendsErr, flowVars, TypeOK, ChannelValid, ResultSet, ReturnsValidToken

LEMMA CliCInv ==
  ASSUME CInv, Cli \/ Cancelled
  PROVE  CInv'
<1> USE DEF CInv
<1>1. HandlersKnow' /\ handler' = handler /\ valid' = valid /\ serving' = serving
  BY HandlersStay DEF Cli, Cancelled, TakeToken, TakeErr, GiveUp, Slept, Close, Return, chanVars
<1>2. CASE TakeToken
  <2>1. PICK t \in tokenCh : Outcome("sleep", t)
    BY <1>2 DEF TakeToken
  <2>2. t \in valid /\ t \in Tokens /\ t # NoToken
    BY <2>1, ResultsAssumption DEF TypeOK, ChannelValid
  <2>3. tokenCh' = {} /\ Cardinality(tokenCh') <= 1
    BY <1>2, FS_EmptySet DEF TakeToken
  <2> QED BY <1>1, <1>2, <2>1, <2>2, <2>3
        DEF TakeToken, Outcome, TypeOK, ChannelValid, ResultSet, ReturnsValidToken
<1>3. CASE TakeErr
  BY <1>1, <1>3, ResultsAssumption DEF TakeErr, Outcome, TypeOK, ChannelValid, ResultSet, ReturnsValidToken
<1>4. CASE GiveUp \/ Cancelled
  BY <1>1, <1>4, ResultsAssumption DEF GiveUp, Cancelled, Outcome, TypeOK, ChannelValid, ResultSet, ReturnsValidToken
<1>5. CASE Slept \/ Return
  BY <1>1, <1>5 DEF Slept, Return, TypeOK, ChannelValid, ResultSet, ReturnsValidToken
<1>6. CASE Close
  <2>1. timeout' \in [flow : {"running", "over"}, shutdown : {"off", "running", "over"}]
    BY <1>6 DEF Close, TypeOK
  <2> QED BY <1>1, <1>6, <2>1 DEF Close, TypeOK, ChannelValid, ResultSet, ReturnsValidToken
<1> QED BY <1>2, <1>3, <1>4, <1>5, <1>6 DEF Cli

LEMMA TimePassesCInv ==
  ASSUME CInv, TimePasses
  PROVE  CInv'
<1> USE DEF CInv
<1>1. HandlersKnow'
  BY HandlersStay DEF TimePasses, chanVars
<1>2. timeout' \in [flow : {"running", "over"}, shutdown : {"off", "running", "over"}]
  BY DEF TimePasses, TypeOK
<1> QED BY <1>1, <1>2 DEF TimePasses, chanVars, TypeOK, ChannelValid, ResultSet, ReturnsValidToken

LEMMA StepCInv == CInv /\ [Next]_vars => CInv'
<1> SUFFICES ASSUME CInv, [Next]_vars PROVE CInv'
  OBVIOUS
<1>1. CASE UNCHANGED vars
  <2>1. HandlersKnow'
    BY <1>1, HandlersStay DEF vars, CInv
  <2> QED BY <1>1, <2>1 DEF vars, CInv, TypeOK, ChannelValid, ResultSet, ReturnsValidToken
<1>2. ASSUME NEW h \in Handlers, Arrive(h) \/ HandlerStep(h) PROVE CInv'
  BY <1>2, ArriveCInv, ValidateCInv, SendTokenCInv, SendErrCInv DEF HandlerStep
<1>3. CASE ServeReturns \/ ServeSendsErr
  BY <1>3, ServeCInv
<1>4. CASE Cli \/ Cancelled
  BY <1>4, CliCInv
<1>5. CASE TimePasses
  BY <1>5, TimePassesCInv
<1> QED BY <1>1, <1>2, <1>3, <1>4, <1>5 DEF Next

\* The flow returns only a token that the API server vouched for, and never
\* without a result, however many requests the browser makes and however they
\* overlap.
THEOREM TokenValid == Spec => []ReturnsValidToken
<1>1. CInv => ReturnsValidToken
  BY DEF CInv
<1> QED BY InitCInv, StepCInv, <1>1, PTL DEF Spec

\* The channels never hold more than one value, whatever is sent to them: the
\* type invariant of the listener.
THEOREM ListenerTypes == Spec => []TypeOK
<1>1. CInv => TypeOK
  BY DEF CInv
<1> QED BY InitCInv, StepCInv, <1>1, PTL DEF Spec
===============================================================================
