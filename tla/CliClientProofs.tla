--------------------------- MODULE CliClientProofs ---------------------------
(***************************************************************************)
(* Proofs about CliClient, for any number of processes on one token file   *)
(* and any set of tokens.                                                  *)
(*                                                                         *)
(* What a command may do depends on how it came to its point: Steady says  *)
(* what ensureAuthenticated has established there.  It speaks only of the  *)
(* process itself, and it has to: the file and the sessions may change     *)
(* under it at every step.                                                 *)
(***************************************************************************)
EXTENDS CliClient, TLAPS

Steady(c) ==
  /\ c.pc = "send" => c.vouched # None /\ c.token = c.vouched
  /\ c.pc \in {"truncate", "write"} =>
       /\ c.vouched \in Tokens
       /\ c.token = c.vouched /\ c.cand = c.vouched
  /\ c.pc = "verify" => c.cand \in Tokens
  /\ c.pc = "check" => c.op # "logout"
  /\ c.pc = "discard" => c.doubted
  /\ c.pc = "logout" => c.op = "logout"

AllSteady == \A p \in Procs : Steady(cli[p])

PInv == TypeOK /\ AllSteady

-----------------------------------------------------------------------------
Processes == cli \in [Procs -> Process]

LEMMA Fields ==
  ASSUME NEW c \in Process
  PROVE  /\ c.pc \in Pcs /\ c.op \in {"call", "login", "logout"}
         /\ c.token \in Tokens \cup {None} /\ c.cand \in Tokens \cup {None}
         /\ c.vouched \in Tokens \cup {None}
         /\ c.opened \in BOOLEAN /\ c.doubted \in BOOLEAN
  BY DEF Process

LEMMA NoneIsNoToken == None \notin Tokens
  BY TokensAssumption

LEMMA OffSteady == Off \in Process /\ Steady(Off)
  BY DEF Off, Process, Pcs, Steady

LEMMA ReadySteady ==
  ASSUME NEW c \in Process
  PROVE  Ready(c) \in Process /\ Steady(Ready(c))
  BY ZenonT(40), Fields DEF Ready, Off, Process, Pcs, Steady

LEMMA SendableSteady ==
  ASSUME NEW c \in Process, NEW t \in Tokens
  PROVE  Sendable(c, t) \in Process /\ Steady(Sendable(c, t))
  BY Fields, NoneIsNoToken DEF Sendable, Process, Pcs, Steady

\* A token that was accepted and is now to be stored.
LEMMA StorableSteady ==
  ASSUME NEW c \in Process, NEW t \in Tokens
  PROVE  LET d == [Sendable(c, t) EXCEPT !.cand = t, !.pc = "truncate"] IN
         d \in Process /\ Steady(d)
  BY Fields, NoneIsNoToken DEF Sendable, Process, Pcs, Steady

\* One process moves, the others do not.
LEMMA MoveKeeps ==
  ASSUME PInv, NEW p \in Procs, NEW c \in Process, Steady(c), Move(p, c)
  PROVE  Processes' /\ AllSteady'
  BY DEF PInv, TypeOK, Processes, AllSteady, Move

\* The file is removed: the others only learn that what they write is lost.
LEMMA UnlinkKeeps ==
  ASSUME PInv, NEW p \in Procs, NEW c \in Process, Steady(c), Unlink(p, c)
  PROVE  Processes' /\ AllSteady'
<1>1. ASSUME NEW q \in Procs
      PROVE  cli'[q] \in Process /\ Steady(cli'[q])
  <2>1. cli[q] \in Process /\ Steady(cli[q])
    BY DEF PInv, TypeOK, AllSteady
  <2> DEFINE d == [cli[q] EXCEPT !.opened = FALSE]
  <2>2. d \in Process /\ Steady(d)
    <3>1. d \in Process
      BY <2>1 DEF Process
    <3>2. /\ d.pc = cli[q].pc /\ d.op = cli[q].op /\ d.token = cli[q].token
          /\ d.cand = cli[q].cand /\ d.vouched = cli[q].vouched /\ d.doubted = cli[q].doubted
      BY <2>1 DEF Process
    <3> HIDE DEF d
    <3> QED BY <2>1, <3>1, <3>2 DEF Steady
  <2>3. cli'[q] = IF q = p THEN c ELSE d
    BY DEF Unlink
  <2> HIDE DEF d
  <2> QED BY <2>2, <2>3
<1>2. cli' = [q \in Procs |-> cli'[q]]
  BY DEF Unlink
<1> QED BY <1>1, <1>2 DEF Processes, AllSteady

-----------------------------------------------------------------------------
LEMMA InitPInv == Init => PInv
<1> SUFFICES ASSUME Init PROVE PInv
  OBVIOUS
<1>1. cli = [p \in Procs |-> Off] /\ file = Missing
  BY DEF Init
<1>2. cli \in [Procs -> Process] /\ AllSteady
  BY <1>1, OffSteady DEF AllSteady
<1>3. session \in [Tokens -> {"unused", "open", "ended"}]
  BY DEF Init
<1> QED BY <1>1, <1>2, <1>3 DEF PInv, TypeOK

\* A process starts, takes a command or is killed.
LEMMA CommandPInv ==
  ASSUME PInv, NEW p \in Procs,
         Start(p) \/ Killed(p) \/ \E op \in {"call", "login", "logout"} : Command(p, op)
  PROVE  PInv'
<1>1. cli[p] \in Process
  BY DEF PInv, TypeOK
<1>2. UNCHANGED <<file, session>>
  BY DEF Start, Killed, Command
<1>3. CASE Start(p)
  <2>1. PICK t \in Tokens \cup {None} : Move(p, [Off EXCEPT !.pc = "ready", !.token = t])
    BY <1>3 DEF Start
  <2>2. [Off EXCEPT !.pc = "ready", !.token = t] \in Process /\ Steady([Off EXCEPT !.pc = "ready", !.token = t])
    BY DEF Off, Process, Pcs, Steady
  <2> QED BY <1>2, <2>1, <2>2, MoveKeeps DEF PInv, TypeOK, Processes
<1>4. CASE Killed(p)
  BY <1>2, <1>4, OffSteady, MoveKeeps DEF Killed, PInv, TypeOK, Processes
<1>5. ASSUME NEW op \in {"call", "login", "logout"}, Command(p, op)
      PROVE  PInv'
  <2> DEFINE c == [cli[p] EXCEPT
                    !.op = op,
                    !.token = IF op = "call" THEN @ ELSE None,
                    !.pc = IF op = "logout" THEN "logout" ELSE "check"]
  <2>1. c \in Process /\ Steady(c)
    BY ZenonT(40), <1>1, Fields DEF Process, Pcs, Steady
  <2>2. Move(p, c)
    BY <1>5 DEF Command
  <2> HIDE DEF c
  <2> QED BY <1>2, <2>1, <2>2, MoveKeeps DEF PInv, TypeOK, Processes
<1> QED BY <1>3, <1>4, <1>5

LEMMA LogoutPInv ==
  ASSUME PInv, NEW p \in Procs, Logout(p)
  PROVE  PInv'
<1>1. Ready(cli[p]) \in Process /\ Steady(Ready(cli[p]))
  BY ReadySteady DEF PInv, TypeOK
<1> QED BY <1>1, MoveKeeps, UnlinkKeeps DEF Logout, Unlink, PInv, TypeOK, Processes

LEMMA CheckPInv ==
  ASSUME PInv, NEW p \in Procs, Check(p)
  PROVE  PInv'
<1> DEFINE c == cli[p]
<1>1. c \in Process /\ Steady(c) /\ c.pc = "check" /\ UNCHANGED <<file, session>>
  BY DEF PInv, TypeOK, AllSteady, Check
<1>2. CASE c.token = None
  <2> DEFINE d == [c EXCEPT !.pc = "environment"]
  <2>1. d \in Process /\ Steady(d)
    BY <1>1, Fields DEF Process, Pcs, Steady
  <2>2. Move(p, d)
    BY <1>2 DEF Check
  <2> HIDE DEF d
  <2> QED BY <1>1, <2>1, <2>2, MoveKeeps DEF PInv, TypeOK, Processes
<1>3. CASE c.token # None /\ Move(p, Sendable(c, c.token))
  <2>1. c.token \in Tokens
    BY <1>1, <1>3, Fields
  <2> QED BY <1>1, <1>3, <2>1, SendableSteady, MoveKeeps DEF PInv, TypeOK, Processes
<1>4. CASE Move(p, [c EXCEPT !.pc = "discard", !.doubted = TRUE])
  <2> DEFINE d == [c EXCEPT !.pc = "discard", !.doubted = TRUE]
  <2>1. d \in Process /\ Steady(d)
    BY <1>1, Fields DEF Process, Pcs, Steady
  <2>2. Move(p, d)
    BY <1>4
  <2> HIDE DEF d
  <2> QED BY <1>1, <2>1, <2>2, MoveKeeps DEF PInv, TypeOK, Processes
<1> QED BY <1>2, <1>3, <1>4 DEF Check

LEMMA DiscardPInv ==
  ASSUME PInv, NEW p \in Procs, Discard(p)
  PROVE  PInv'
<1> DEFINE d == [cli[p] EXCEPT !.pc = "environment", !.token = None]
<1>1. d \in Process /\ Steady(d)
  <2>1. cli[p] \in Process
    BY DEF PInv, TypeOK
  <2> QED BY <2>1, Fields DEF Process, Pcs, Steady
<1>2. (Unlink(p, d) \/ (Move(p, d) /\ UNCHANGED file)) /\ UNCHANGED session
  BY DEF Discard
<1> HIDE DEF d
<1> QED BY <1>1, <1>2, MoveKeeps, UnlinkKeeps DEF Unlink, PInv, TypeOK, Processes

LEMMA EnvironmentPInv ==
  ASSUME PInv, NEW p \in Procs, Environment(p)
  PROVE  PInv'
<1> DEFINE c == cli[p]
           t == BearerToken[p]
<1>1. c \in Process /\ Steady(c) /\ c.pc = "environment" /\ UNCHANGED <<file, session>>
  BY DEF PInv, TypeOK, AllSteady, Environment
<1>2. t \in Tokens \cup {None}
  BY EnvAssumption
<1>3. CASE t = None
  <2> DEFINE d == [c EXCEPT !.pc = "sign in"]
  <2>1. d \in Process /\ Steady(d)
    BY <1>1, Fields DEF Process, Pcs, Steady
  <2>2. Move(p, d)
    BY <1>3 DEF Environment
  <2> HIDE DEF d
  <2> QED BY <1>1, <2>1, <2>2, MoveKeeps DEF PInv, TypeOK, Processes
<1>4. CASE t # None
  <2>1. CASE Move(p, [Sendable(c, t) EXCEPT !.cand = t, !.pc = "truncate"])
    BY <1>1, <1>2, <1>4, <2>1, StorableSteady, MoveKeeps DEF PInv, TypeOK, Processes
  <2>2. CASE Move(p, [c EXCEPT !.token = t, !.pc = "sign in"])
    <3> DEFINE d == [c EXCEPT !.token = t, !.pc = "sign in"]
    <3>1. d \in Process /\ Steady(d)
      BY <1>1, <1>2, Fields DEF Process, Pcs, Steady
    <3>2. Move(p, d)
      BY <2>2
    <3> HIDE DEF d
    <3> QED BY <1>1, <3>1, <3>2, MoveKeeps DEF PInv, TypeOK, Processes
  <2> QED BY <1>4, <2>1, <2>2 DEF Environment
<1> QED BY <1>3, <1>4

LEMMA SignInPInv ==
  ASSUME PInv, NEW p \in Procs, SignIn(p)
  PROVE  PInv'
<1>1. cli[p] \in Process /\ session' \in [Tokens -> {"unused", "open", "ended"}] /\ UNCHANGED file
  BY DEF PInv, TypeOK, SignIn
<1>2. ASSUME NEW t \in Tokens, Move(p, [cli[p] EXCEPT !.pc = "verify", !.cand = t])
      PROVE  Processes' /\ AllSteady'
  <2> DEFINE d == [cli[p] EXCEPT !.pc = "verify", !.cand = t]
  <2>1. d \in Process /\ Steady(d)
    BY <1>1, Fields DEF Process, Pcs, Steady
  <2>2. Move(p, d)
    BY <1>2
  <2> HIDE DEF d
  <2> QED BY <2>1, <2>2, MoveKeeps
<1>3. CASE Move(p, Ready(cli[p]))
  BY <1>1, <1>3, ReadySteady, MoveKeeps DEF PInv, TypeOK, Processes
<1>4. CASE \E t \in Tokens : Move(p, [cli[p] EXCEPT !.pc = "verify", !.cand = t])
  BY <1>1, <1>2, <1>4 DEF PInv, TypeOK, Processes
<1> QED BY <1>3, <1>4 DEF SignIn

LEMMA VerifyPInv ==
  ASSUME PInv, NEW p \in Procs, Verify(p)
  PROVE  PInv'
<1> DEFINE c == cli[p]
           t == c.cand
<1>1. c \in Process /\ t \in Tokens /\ UNCHANGED <<file, session>>
  BY DEF PInv, TypeOK, AllSteady, Steady, Verify
<1>2. CASE Move(p, [Sendable(c, t) EXCEPT !.pc = "truncate"])
  <2> DEFINE d == [Sendable(c, t) EXCEPT !.pc = "truncate"]
  <2>1. d \in Process /\ Steady(d)
    BY <1>1, Fields, NoneIsNoToken DEF Sendable, Process, Pcs, Steady
  <2>2. Move(p, d)
    BY <1>2
  <2> HIDE DEF d
  <2> QED BY <1>1, <2>1, <2>2, MoveKeeps DEF PInv, TypeOK, Processes
<1>3. CASE Move(p, Ready(c))
  BY <1>1, <1>3, ReadySteady, MoveKeeps DEF PInv, TypeOK, Processes
<1> QED BY <1>2, <1>3 DEF Verify

LEMMA TruncatePInv ==
  ASSUME PInv, NEW p \in Procs, Truncate(p)
  PROVE  PInv'
<1>1. cli[p] \in Process /\ Steady(cli[p]) /\ cli[p].pc = "truncate"
  BY DEF PInv, TypeOK, AllSteady, Truncate
<1>2. file' \in Tokens \cup {Missing, Partial} /\ UNCHANGED session
  BY DEF PInv, TypeOK, Truncate
<1>3. CASE Move(p, [cli[p] EXCEPT !.pc = "write", !.opened = TRUE])
  <2> DEFINE d == [cli[p] EXCEPT !.pc = "write", !.opened = TRUE]
  <2>1. d \in Process /\ Steady(d)
    BY <1>1, Fields DEF Process, Pcs, Steady
  <2>2. Move(p, d)
    BY <1>3
  <2> HIDE DEF d
  <2> QED BY <1>2, <2>1, <2>2, MoveKeeps DEF PInv, TypeOK, Processes
<1>4. CASE Move(p, [cli[p] EXCEPT !.pc = "send", !.cand = None])
  <2> DEFINE d == [cli[p] EXCEPT !.pc = "send", !.cand = None]
  <2>1. d \in Process /\ Steady(d)
    BY <1>1, Fields, NoneIsNoToken DEF Process, Pcs, Steady
  <2>2. Move(p, d)
    BY <1>4
  <2> HIDE DEF d
  <2> QED BY <1>2, <2>1, <2>2, MoveKeeps DEF PInv, TypeOK, Processes
<1> QED BY <1>3, <1>4 DEF Truncate

LEMMA WriteFilePInv ==
  ASSUME PInv, NEW p \in Procs, WriteFile(p)
  PROVE  PInv'
<1>1. cli[p] \in Process /\ Steady(cli[p]) /\ cli[p].pc = "write"
  BY DEF PInv, TypeOK, AllSteady, WriteFile
<1>2. cli[p].cand \in Tokens
  BY <1>1 DEF Steady
<1>3. file' \in Tokens \cup {Missing, Partial} /\ UNCHANGED session
  BY <1>2 DEF PInv, TypeOK, WriteFile
<1> DEFINE d == [cli[p] EXCEPT !.pc = "send", !.opened = FALSE, !.cand = None]
<1>4. d \in Process /\ Steady(d)
  BY <1>1, Fields, NoneIsNoToken DEF Process, Pcs, Steady
<1>5. Move(p, d)
  BY DEF WriteFile
<1> HIDE DEF d
<1> QED BY <1>3, <1>4, <1>5, MoveKeeps DEF PInv, TypeOK, Processes

LEMMA SendPInv ==
  ASSUME PInv, NEW p \in Procs, Send(p)
  PROVE  PInv'
<1>1. Ready(cli[p]) \in Process /\ Steady(Ready(cli[p]))
  BY ReadySteady DEF PInv, TypeOK
<1> QED BY <1>1, MoveKeeps DEF Send, PInv, TypeOK, Processes

LEMMA StepPInv == PInv /\ [Next]_vars => PInv'
<1> SUFFICES ASSUME PInv, [Next]_vars PROVE PInv'
  OBVIOUS
<1>1. CASE UNCHANGED vars
  BY <1>1 DEF vars, PInv, TypeOK, AllSteady, Steady
<1>2. ASSUME NEW p \in Procs, Start(p) \/ Killed(p) \/ SignIn(p) \/ \E op \in {"call", "login", "logout"} : Command(p, op)
      PROVE  PInv'
  BY <1>2, CommandPInv, SignInPInv
<1>3. ASSUME NEW p \in Procs, Steps(p) \/ Send(p)
      PROVE  PInv'
  BY <1>3, LogoutPInv, CheckPInv, DiscardPInv, EnvironmentPInv, VerifyPInv, TruncatePInv, WriteFilePInv, SendPInv
     DEF Steps
<1>4. ASSUME NEW t \in Tokens, SessionEnds(t)
      PROVE  PInv'
  BY <1>4 DEF SessionEnds, PInv, TypeOK, AllSteady, Steady
<1> QED BY <1>1, <1>2, <1>3, <1>4 DEF Next

-----------------------------------------------------------------------------
\* Only four actions touch the file.
LEMMA FileSteps ==
  ASSUME PInv, [Next]_vars, file' # file
  PROVE  \E p \in Procs : Logout(p) \/ Discard(p) \/ Truncate(p) \/ WriteFile(p)
<1>1. ~UNCHANGED vars
  BY DEF vars
<1>2. ASSUME NEW p \in Procs,
             Start(p) \/ Killed(p) \/ SignIn(p) \/ Check(p) \/ Environment(p) \/ Verify(p) \/ Send(p)
               \/ \E op \in {"call", "login", "logout"} : Command(p, op)
      PROVE  FALSE
  BY <1>2 DEF Start, Killed, SignIn, Check, Environment, Verify, Send, Command
<1>3. ASSUME NEW t \in Tokens, SessionEnds(t)
      PROVE  FALSE
  BY <1>3 DEF SessionEnds
<1> QED BY <1>1, <1>2, <1>3 DEF Next, Steps

LEMMA StepStores ==
  ASSUME PInv, [Next]_vars, file' # file, file' \in Tokens
  PROVE  \E p \in Procs : cli[p].pc = "write" /\ file' = cli[p].vouched
<1>1. PICK p \in Procs : Logout(p) \/ Discard(p) \/ Truncate(p) \/ WriteFile(p)
  BY FileSteps
<1>2. CASE Logout(p) \/ Discard(p) \/ Truncate(p)
  BY <1>2, TokensAssumption DEF Logout, Discard, Truncate, Unlink
<1>3. CASE WriteFile(p)
  <2>1. cli[p].cand = cli[p].vouched
    BY <1>3 DEF PInv, AllSteady, Steady, WriteFile
  <2>2. file' = cli[p].cand
    BY <1>3, TokensAssumption DEF WriteFile
  <2> QED BY <1>3, <2>1, <2>2 DEF WriteFile
<1> QED BY <1>1, <1>2, <1>3

LEMMA StepKeeps ==
  ASSUME PInv, [Next]_vars, file' # file, file \in Tokens
  PROVE  \E p \in Procs :
           \/ (cli[p].op = "logout" /\ cli[p].pc = "logout")
           \/ cli[p].pc \in {"truncate", "write"} /\ cli[p].vouched # None
           \/ (cli[p].pc = "discard" /\ cli[p].doubted)
<1>1. PICK p \in Procs : Logout(p) \/ Discard(p) \/ Truncate(p) \/ WriteFile(p)
  BY FileSteps
<1>2. Steady(cli[p])
  BY DEF PInv, AllSteady
<1>3. cli[p].pc \in {"logout", "discard", "truncate", "write"}
  BY <1>1 DEF Logout, Discard, Truncate, WriteFile
<1> QED BY <1>2, <1>3, NoneIsNoToken DEF Steady

\* The type invariant of the client and its token file.
THEOREM ClientTypes == Spec => []TypeOK
<1>1. PInv => TypeOK
  BY DEF PInv
<1> QED BY InitPInv, StepPInv, <1>1, PTL DEF Spec

\* What a command sends was accepted by the server in this very command, for any
\* number of processes that share the file.
THEOREM SentVouched == Spec => []SentIsVouched
<1>1. PInv => SentIsVouched
  BY DEF PInv, AllSteady, Steady, SentIsVouched
<1> QED BY InitPInv, StepPInv, <1>1, PTL DEF Spec

\* The token file becomes a token only by a process that stores the one the
\* server accepted in its command.
THEOREM StoredVouched == Spec => StoredIsVouched
<1>1. PInv /\ [Next]_vars =>
        [file' # file /\ file' \in Tokens =>
           \E p \in Procs : cli[p].pc = "write" /\ file' = cli[p].vouched]_vars
  BY StepStores
<1> QED BY InitPInv, StepPInv, <1>1, PTL DEF Spec, StoredIsVouched

\* A stored token goes only at a logout, when it is replaced, or when a process
\* has seen the check of its own token fail in the same command.
THEOREM StoredKept == Spec => KeptUnlessDoubted
<1>1. PInv /\ [Next]_vars =>
        [file' # file /\ file \in Tokens =>
           \E p \in Procs :
             \/ (cli[p].op = "logout" /\ cli[p].pc = "logout")
             \/ cli[p].pc \in {"truncate", "write"} /\ cli[p].vouched # None
             \/ (cli[p].pc = "discard" /\ cli[p].doubted)]_vars
  BY StepKeeps
<1> QED BY InitPInv, StepPInv, <1>1, PTL DEF Spec, KeptUnlessDoubted
===============================================================================
