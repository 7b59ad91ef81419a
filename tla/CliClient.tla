------------------------------- MODULE CliClient -------------------------------
(***************************************************************************)
(* The CLI's client (pkg/client/v1alpha1/client.go) and its token file     *)
(* (pkg/client/auth/storage.go).  Several processes of one user share the  *)
(* file: each loads it once, when it starts, and writes or removes it      *)
(* later; nothing locks it, and writing it is a truncation and a write.  A *)
(* process runs one command or, interactively, one after the other, and    *)
(* may be killed at any moment.  Sessions end on the server's side.        *)
(***************************************************************************)
EXTENDS Naturals

CONSTANTS
    Procs,      \* processes of the CLI
    Tokens,     \* the tokens there will be: bounds the number of sign-ins
    BearerToken, \* BEARER_TOKEN in the environment of each process
    None,       \* no token; no BEARER_TOKEN
    Missing,    \* there is no file
    Partial     \* a file that is no JSON: empty, or two writes mixed up

ASSUME TokensAssumption == {None, Missing, Partial} \cap Tokens = {}
ASSUME EnvAssumption == BearerToken \in [Procs -> Tokens \cup {None}]

VARIABLES
    file,       \* the token file
    session,    \* what the server makes of a token
    cli         \* the processes

vars == <<file, session, cli>>

Pcs == {"off", "ready", "logout", "check", "discard", "environment", "sign in", "verify",
        "truncate", "write", "send"}

(* pc: the next step.  op: what the command is.  token: bearerToken.        *)
(* cand: the token being checked or stored.  opened: the file of that name  *)
(* is the one the process has opened to write.  Two ghosts: vouched is the  *)
(* token the server accepted in this command, doubted says that in this     *)
(* command the check of the process's own token failed.                     *)
Off == [pc |-> "off", op |-> "call", token |-> None, cand |-> None, opened |-> FALSE,
        vouched |-> None, doubted |-> FALSE]

Init ==
    /\ file = Missing
    /\ session = [t \in Tokens |-> IF \E p \in Procs : BearerToken[p] = t THEN "open" ELSE "unused"]
    /\ cli = [p \in Procs |-> Off]

Move(p, c) == cli' = [cli EXCEPT ![p] = c]

\* The file is gone: what other processes still write goes nowhere.
Unlink(p, c) ==
    /\ file' = Missing
    /\ cli' = [q \in Procs |-> IF q = p THEN c ELSE [cli[q] EXCEPT !.opened = FALSE]]

\* GET /v1alpha1/auth/me with a token: accepted only while the session is open;
\* the request may also fail.
Accepted(t) == session[t] = "open"

-------------------------------------------------------------------------------
(* A process starts, takes a command and ends.                             *)

\* NewDefaultClient: a file that cannot be read or parsed is no token.
Start(p) ==
    /\ cli[p].pc = "off"
    /\ \E t \in ({file} \cap Tokens) \cup {None} : Move(p, [Off EXCEPT !.pc = "ready", !.token = t])
    /\ UNCHANGED <<file, session>>

\* Every call checks its token first; login and logout forget it.
Command(p, op) ==
    /\ cli[p].pc = "ready"
    /\ Move(p, [cli[p] EXCEPT
                  !.op = op,
                  !.token = IF op = "call" THEN @ ELSE None,
                  !.pc = IF op = "logout" THEN "logout" ELSE "check"])
    /\ UNCHANGED <<file, session>>

\* A signal ends the process wherever it is.
Killed(p) ==
    /\ cli[p].pc # "off"
    /\ Move(p, Off)
    /\ UNCHANGED <<file, session>>

\* The command has ended: only bearerToken is kept for the next one.
Ready(c) == [Off EXCEPT !.pc = "ready", !.token = c.token]

Logout(p) ==
    /\ cli[p].pc = "logout"
    /\ \/ Unlink(p, Ready(cli[p]))
       \/ Move(p, Ready(cli[p])) /\ UNCHANGED file
    /\ UNCHANGED session

-------------------------------------------------------------------------------
(* ensureAuthenticated.                                                    *)

Sendable(c, t) == [c EXCEPT !.pc = "send", !.token = t, !.vouched = t]

Check(p) ==
    /\ cli[p].pc = "check"
    /\ LET c == cli[p]
       IN  IF c.token = None THEN Move(p, [c EXCEPT !.pc = "environment"])
           ELSE \/ Accepted(c.token) /\ Move(p, Sendable(c, c.token))
                \/ Move(p, [c EXCEPT !.pc = "discard", !.doubted = TRUE])
    /\ UNCHANGED <<file, session>>

\* Mutant of Discard: the token stays in memory and is checked once more.
DiscardAndRetry(p) ==
    /\ cli[p].pc = "discard"
    /\ LET c == [cli[p] EXCEPT !.pc = "check"]
       IN  Unlink(p, c) \/ (Move(p, c) /\ UNCHANGED file)
    /\ UNCHANGED session

\* Whatever the error was, the file goes, and with it a token that another
\* process may have stored since.
Discard(p) ==
    /\ cli[p].pc = "discard"
    /\ LET c == [cli[p] EXCEPT !.pc = "environment", !.token = None]
       IN  Unlink(p, c) \/ (Move(p, c) /\ UNCHANGED file)
    /\ UNCHANGED session

\* Mutant of Environment: BEARER_TOKEN is used without asking the server.
EnvironmentTrusted(p) ==
    /\ cli[p].pc = "environment"
    /\ LET c == cli[p]
       IN  Move(p, IF BearerToken[p] = None THEN [c EXCEPT !.pc = "sign in"]
                   ELSE [c EXCEPT !.token = BearerToken[p], !.cand = BearerToken[p], !.pc = "truncate"])
    /\ UNCHANGED <<file, session>>

\* Mutant of Environment: a refused BEARER_TOKEN removes the stored token, too.
EnvironmentDiscards(p) ==
    /\ cli[p].pc = "environment"
    /\ LET c == cli[p]
           t == BearerToken[p]
       IN  IF t = None THEN Move(p, [c EXCEPT !.pc = "sign in"])
           ELSE \/ Accepted(t) /\ Move(p, [Sendable(c, t) EXCEPT !.cand = t, !.pc = "truncate"])
                \/ Move(p, [c EXCEPT !.token = t, !.pc = "discard"])
    /\ UNCHANGED <<file, session>>

\* A BEARER_TOKEN that is refused stays in memory while the user signs in.
Environment(p) ==
    /\ cli[p].pc = "environment"
    /\ LET c == cli[p]
           t == BearerToken[p]
       IN  IF t = None THEN Move(p, [c EXCEPT !.pc = "sign in"])
           ELSE \/ Accepted(t) /\ Move(p, [Sendable(c, t) EXCEPT !.cand = t, !.pc = "truncate"])
                \/ Move(p, [c EXCEPT !.token = t, !.pc = "sign in"])
    /\ UNCHANGED <<file, session>>

\* The browser flow (CallbackListener) brings a new token; when it fails the
\* user types one, or nothing.
SignIn(p) ==
    /\ cli[p].pc = "sign in"
    /\ \/ \E t \in Tokens :
            /\ session[t] = "unused"
            /\ session' = [session EXCEPT ![t] = "open"]
            /\ Move(p, [cli[p] EXCEPT !.pc = "verify", !.cand = t])
       \/ \E t \in Tokens :
            /\ session[t] # "unused"
            /\ Move(p, [cli[p] EXCEPT !.pc = "verify", !.cand = t])
            /\ UNCHANGED session
       \/ Move(p, Ready(cli[p])) /\ UNCHANGED session
    /\ UNCHANGED file

\* Mutant of Verify: the token is stored although its check failed.
VerifyLate(p) ==
    /\ cli[p].pc = "verify"
    /\ LET c == cli[p]
       IN  \/ Accepted(c.cand) /\ Move(p, [Sendable(c, c.cand) EXCEPT !.pc = "truncate"])
           \/ Move(p, [c EXCEPT !.pc = "truncate"])
    /\ UNCHANGED <<file, session>>

Verify(p) ==
    /\ cli[p].pc = "verify"
    /\ LET c == cli[p]
       IN  \/ Accepted(c.cand) /\ Move(p, [Sendable(c, c.cand) EXCEPT !.pc = "truncate"])
           \/ Move(p, Ready(c))
    /\ UNCHANGED <<file, session>>

\* Mutant of Truncate: the file is emptied by storing no token.
TruncateUnnamed(p) ==
    /\ cli[p].pc = "truncate"
    /\ Move(p, [cli[p] EXCEPT !.pc = "write", !.opened = TRUE])
    /\ file' = None
    /\ UNCHANGED session

\* SaveToken: os.WriteFile truncates the file, or creates it, and writes.  An
\* error is logged and the token used all the same.
Truncate(p) ==
    /\ cli[p].pc = "truncate"
    /\ \/ /\ Move(p, [cli[p] EXCEPT !.pc = "write", !.opened = TRUE])
          /\ file' = Partial
       \/ /\ Move(p, [cli[p] EXCEPT !.pc = "send", !.cand = None])
          /\ UNCHANGED file
    /\ UNCHANGED session

\* Into an empty file, over what another process wrote (the tail of a longer
\* record stays), or into a file that has been removed.  The write may fail, with
\* some of it written or nothing.
WriteFile(p) ==
    /\ cli[p].pc = "write"
    /\ file' \in (IF cli[p].opened THEN {cli[p].cand, Partial, file} ELSE {file})
    /\ Move(p, [cli[p] EXCEPT !.pc = "send", !.opened = FALSE, !.cand = None])
    /\ UNCHANGED session

\* The command's own request, if it has one: what it was authenticated for.  It is
\* answered, or fails, or is waited for: its http.Client has no timeout.
Send(p) ==
    /\ cli[p].pc = "send"
    /\ Move(p, Ready(cli[p]))
    /\ UNCHANGED <<file, session>>

SessionEnds(t) ==
    /\ session[t] = "open"
    /\ session' = [session EXCEPT ![t] = "ended"]
    /\ UNCHANGED <<file, cli>>

Steps(p) ==
    \/ Logout(p) \/ Check(p) \/ Discard(p) \/ Environment(p) \/ Verify(p)
    \/ Truncate(p) \/ WriteFile(p)

Next ==
    \/ \E p \in Procs :
        \/ Start(p) \/ Killed(p) \/ SignIn(p) \/ Steps(p) \/ Send(p)
        \/ \E op \in {"call", "login", "logout"} : Command(p, op)
    \/ \E t \in Tokens : SessionEnds(t)

Spec == Init /\ [][Next]_vars

\* A process runs, and the checks of its tokens end: their http.Client has a timeout
\* of 30 seconds.  Nothing is assumed of the user, nor of the server: the command's
\* own request may never be answered.
FairSpec == Spec /\ \A p \in Procs : WF_vars(Steps(p))

-------------------------------------------------------------------------------
(* Properties.                                                             *)

Process == [pc : Pcs, op : {"call", "login", "logout"}, token : Tokens \cup {None},
            cand : Tokens \cup {None}, opened : BOOLEAN, vouched : Tokens \cup {None},
            doubted : BOOLEAN]

TypeOK ==
    /\ file \in Tokens \cup {Missing, Partial}
    /\ session \in [Tokens -> {"unused", "open", "ended"}]
    /\ cli \in [Procs -> Process]

\* What a command sends after ensureAuthenticated carries a token, and one that
\* the server accepted in this very command: never one left over from a refused
\* BEARER_TOKEN, from the file, or from a sign-in that came to nothing.
SentIsVouched ==
    \A p \in Procs : cli[p].pc = "send" =>
        cli[p].vouched # None /\ cli[p].token = cli[p].vouched

\* The token file changes into a token only when a process stores the one the
\* server accepted in its command, whatever other processes write or remove at
\* the same time: what a later process loads was good when it was stored.
StoredIsVouched ==
    [][file' # file /\ file' \in Tokens =>
        \E p \in Procs : cli[p].pc = "write" /\ file' = cli[p].vouched]_vars

\* A stored token goes only at a logout, when it is replaced, or when a process
\* has seen the check of the token it holds itself fail in the same command.  (It
\* need not be the token in the file, and the failure need not be a refusal.)
KeptUnlessDoubted ==
    [][file' # file /\ file \in Tokens =>
        \E p \in Procs :
            \/ (cli[p].op = "logout" /\ cli[p].pc = "logout")
            \/ cli[p].pc \in {"truncate", "write"} /\ cli[p].vouched # None
            \/ (cli[p].pc = "discard" /\ cli[p].doubted)]_vars

\* A command ends, or waits for its user to sign in, or comes to send its own
\* request, however its checks, its files and other processes' doings turn out: it
\* never asks again for ever.  (How long it waits for the answer to that request,
\* without a timeout, is the server's.)
CommandEnds ==
    \A p \in Procs :
        cli[p].pc \notin {"off", "ready"} ~> cli[p].pc \in {"off", "ready", "sign in", "send"}
===============================================================================
