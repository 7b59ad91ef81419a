----------------------------- MODULE MCCliClient -----------------------------
(* A small instance of CliClient: two processes, one of them started with     *)
(* BEARER_TOKEN, and two more tokens to sign in with.                         *)
EXTENDS CliClient

CONSTANTS p1, p2, e, t1, t2

MCProcs == {p1, p2}
MCTokens == {e, t1, t2}
MCBearerToken == [p \in MCProcs |-> IF p = p1 THEN e ELSE None]
=============================================================================
