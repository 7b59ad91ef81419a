--------------------------- MODULE CallbackListener ---------------------------
(***************************************************************************)
(* The local HTTP server with which the CLI receives its token              *)
(* (waitForCallbackWithListener of pkg/client/auth/token.go): the handlers  *)
(* of the browser's requests, the goroutine that serves, and the CLI, which *)
(* waits in a select for a token, an error, the timeout or a cancellation.  *)
(* Both channels hold one value; a token is sent without waiting, an error  *)
(* is sent with waiting.                                                    *)
(***************************************************************************)
EXTENDS Naturals, FiniteSets

CONSTANTS
  Handlers,      \* the requests the browser makes on /callback
  Tokens,        \* the tokens they may bring
  NoToken, Failed

ASSUME ResultsAssumption == NoToken \notin Tokens /\ Failed \notin Tokens /\ NoToken # Failed

VARIABLES
  cli,         \* "select", "sleep", "closing", "returned"
  result,      \* what the flow returns: a token, Failed, or NoToken while it waits
  tokenCh,     \* the tokens in tokenCh, at most one
  errCh,       \* the number of errors in errCh, at most one
  serving,     \* the goroutine: "serving", "send_err", "over"
  closed,      \* Shutdown has closed the listener
  timeout,     \* the five minutes, the five seconds of Shutdown: "running" or "over"
  handler,     \* per request: [pc, method, token]; "shown": its page says success
  valid        \* the tokens the API server has vouched for

vars == <<cli, result, tokenCh, errCh, serving, closed, timeout, handler, valid>>

HandlerPcs == {"waiting", "validate", "send_token", "send_err", "shown", "refused"}

Init ==
  /\ cli = "select" /\ result = NoToken
  /\ tokenCh = {} /\ errCh = 0
  /\ serving = "serving" /\ closed = FALSE
  /\ timeout = [flow |-> "running", shutdown |-> "off"]
  /\ handler = [h \in Handlers |-> [pc |-> "waiting", method |-> "GET", token |-> NoToken]]
  /\ valid = {}

-----------------------------------------------------------------------------
(* The requests of the browser. *)

To(h, pc) == handler' = [handler EXCEPT ![h].pc = pc]
flowVars == <<cli, result, timeout>>

\* A request without a token is answered with a page (GET) or an error (POST);
\* one with a token is validated.  The page takes a token from the fragment of
\* its own URL and sends it with a POST, which is a request like the others.
Arrive(h) ==
  /\ handler[h].pc = "waiting" /\ ~closed /\ serving = "serving"
  /\ \/ \E t \in Tokens, m \in {"GET", "POST"} :
          handler' = [handler EXCEPT ![h] = [pc |-> "validate", method |-> m, token |-> t]]
     \/ To(h, "refused")
  /\ UNCHANGED <<flowVars, tokenCh, errCh, serving, closed, valid>>

\* Mutant of Validate: only a refusal of the request counts, not its status.
ValidateNothing(h) ==
  /\ handler[h].pc = "validate"
  /\ \/ To(h, "send_token") \/ To(h, "send_err")
  /\ UNCHANGED <<flowVars, tokenCh, errCh, serving, closed, valid>>

\* GetCurrentUser against the API server.
Validate(h) ==
  /\ handler[h].pc = "validate"
  /\ \/ To(h, "send_token") /\ valid' = valid \cup {handler[h].token}
     \/ To(h, "send_err") /\ UNCHANGED valid
  /\ UNCHANGED <<flowVars, tokenCh, errCh, serving, closed>>

\* The success page, then select { case tokenCh <- token: default: }.
SendToken(h) ==
  /\ handler[h].pc = "send_token"
  /\ tokenCh' = IF tokenCh = {} THEN {handler[h].token} ELSE tokenCh
  /\ To(h, "shown")
  /\ UNCHANGED <<flowVars, errCh, serving, closed, valid>>

\* The page that sent a POST says success whatever the status of the answer.
AfterErr(h) == IF handler[h].method = "POST" THEN "shown" ELSE "refused"

\* Mutant of SendErr: the error is sent without looking for room.
SendErrAnyway(h) ==
  /\ handler[h].pc = "send_err"
  /\ errCh' = errCh + 1
  /\ To(h, AfterErr(h))
  /\ UNCHANGED <<flowVars, tokenCh, serving, closed, valid>>

\* errCh <- err waits for room; the 401 is not flushed before the handler ends.
SendErr(h) ==
  /\ handler[h].pc = "send_err" /\ errCh = 0
  /\ errCh' = 1
  /\ To(h, AfterErr(h))
  /\ UNCHANGED <<flowVars, tokenCh, serving, closed, valid>>

HandlerStep(h) == Validate(h) \/ SendToken(h) \/ SendErr(h)

\* Serve returns: after Shutdown silently, else with an error to send.
ServeReturns ==
  /\ serving = "serving"
  /\ serving' = IF closed THEN "over" ELSE "send_err"
  /\ UNCHANGED <<flowVars, tokenCh, errCh, closed, handler, valid>>

ServeSendsErr ==
  /\ serving = "send_err" /\ errCh = 0
  /\ errCh' = 1 /\ serving' = "over"
  /\ UNCHANGED <<flowVars, tokenCh, closed, handler, valid>>

-----------------------------------------------------------------------------
(* The CLI. *)

chanVars == <<serving, handler, valid>>
Outcome(pc, res) == cli' = pc /\ result' = res

\* The select takes one of the cases that are ready.
TakeToken ==
  /\ cli = "select"
  /\ \E t \in tokenCh : Outcome("sleep", t)
  /\ tokenCh' = {}
  /\ UNCHANGED <<errCh, closed, timeout, chanVars>>

TakeErr ==
  /\ cli = "select" /\ errCh = 1
  /\ Outcome("closing", Failed) /\ errCh' = 0
  /\ UNCHANGED <<tokenCh, closed, timeout, chanVars>>

\* Mutant of GiveUp: no case for the timeout.
GiveUpNever == FALSE /\ UNCHANGED vars

GiveUp ==
  /\ cli = "select" /\ timeout.flow = "over"
  /\ Outcome("closing", Failed)
  /\ UNCHANGED <<tokenCh, errCh, closed, timeout, chanVars>>

Cancelled ==
  /\ cli = "select"
  /\ Outcome("closing", Failed)
  /\ UNCHANGED <<tokenCh, errCh, closed, timeout, chanVars>>

\* The short delay after a token.
Slept ==
  /\ cli = "sleep"
  /\ cli' = "closing"
  /\ UNCHANGED <<result, tokenCh, errCh, closed, timeout, chanVars>>

\* The deferred Shutdown: it closes the listener and waits for the handlers
\* that are running, five seconds at most.
Close ==
  /\ cli = "closing" /\ ~closed
  /\ closed' = TRUE /\ timeout' = [timeout EXCEPT !.shutdown = "running"]
  /\ UNCHANGED <<cli, result, tokenCh, errCh, chanVars>>

Running(h) == handler[h].pc \in {"validate", "send_token", "send_err"}

Return ==
  /\ cli = "closing" /\ closed
  /\ (\A h \in Handlers : ~Running(h)) \/ timeout.shutdown = "over"
  /\ cli' = "returned"
  /\ UNCHANGED <<result, tokenCh, errCh, closed, timeout, chanVars>>

Cli == TakeToken \/ TakeErr \/ GiveUp \/ Slept \/ Close \/ Return

\* Five minutes, or the five seconds of the shutdown, have passed.
TimePasses ==
  /\ \E t \in {"flow", "shutdown"} :
       timeout[t] = "running" /\ timeout' = [timeout EXCEPT ![t] = "over"]
  /\ UNCHANGED <<cli, result, tokenCh, errCh, closed, chanVars>>

Next ==
  \/ \E h \in Handlers : Arrive(h) \/ HandlerStep(h)
  \/ ServeReturns \/ ServeSendsErr
  \/ Cli \/ Cancelled \/ TimePasses

Spec == Init /\ [][Next]_vars

\* Goroutines are scheduled, the HTTP client of Validate has a timeout, and
\* time passes.  The browser need not come, nobody need cancel.
FairSpec ==
  /\ Spec
  /\ \A h \in Handlers : WF_vars(HandlerStep(h))
  /\ WF_vars(ServeSendsErr) /\ WF_vars(closed /\ ServeReturns)
  /\ WF_vars(Cli) /\ WF_vars(TimePasses)

-----------------------------------------------------------------------------
(* Properties. *)

TypeOK ==
  /\ cli \in {"select", "sleep", "closing", "returned"}
  /\ result \in Tokens \cup {NoToken, Failed}
  /\ tokenCh \subseteq Tokens /\ Cardinality(tokenCh) <= 1 /\ errCh \in 0..1
  /\ serving \in {"serving", "send_err", "over"} /\ closed \in BOOLEAN
  /\ timeout \in [flow : {"running", "over"}, shutdown : {"off", "running", "over"}]
  /\ handler \in [Handlers -> [pc : HandlerPcs, method : {"GET", "POST"}, token : Tokens \cup {NoToken}]]
  /\ valid \subseteq Tokens

\* The flow returns only a token that the API server vouched for, whichever
\* request brought it and whatever the other requests did meanwhile, and it
\* never returns without a result.
ReturnsValidToken ==
  /\ result \in Tokens => result \in valid
  /\ cli \in {"closing", "returned"} => result # NoToken

\* The CLI never waits forever: not for a browser that does not come back, nor
\* for handlers that are stuck.
FlowReturns == <>(cli = "returned")

\* "Authentication Successful!" and, for a request that failed, "Authentication
\* Failed": a page says success only when its token was found valid.
SuccessIsTrue ==
  \A h \in Handlers : handler[h].pc = "shown" => handler[h].token \in valid
=============================================================================
