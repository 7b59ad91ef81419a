-------------------------- MODULE MCServerLifecycle --------------------------
(* Files and environments for ServerLifecycle. *)
EXTENDS ServerLifecycle

Files ==
  {NoFile} \cup
  [port : {"8080"}, initial_conn_retry : {0, 3}, tls_enabled : BOOLEAN,
   telemetry_enabled : BOOLEAN, session_ttl : {24}, allowed_orgs : {{}}]

Envs ==
  [port : {Unset, "9090"}, initial_conn_retry : {Unset, Unparsable, -1, 2},
   tls_enabled : {Unset, TRUE, FALSE}, telemetry_enabled : {Unset, TRUE},
   session_ttl : {Unset, Unparsable}, allowed_orgs : {Unset}]

AllSetups == [file : Files, env : Envs]

TellsTLS(s) ==
  s.file # NoFile /\ (IF s.env.tls_enabled = Unset THEN s.file ELSE s.env).tls_enabled

PlainSetups == {s \in AllSetups : ~TellsTLS(s)}
TLSSetups == {s \in AllSetups : TellsTLS(s)}
OrgSetups ==
  {[s EXCEPT !.env.allowed_orgs = orgs] : s \in PlainSetups, orgs \in {Unset, {"tacokumo"}}}
=============================================================================
