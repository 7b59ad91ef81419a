------------------------------- MODULE EnvConfig -------------------------------
(***************************************************************************)
(* The configuration of the server: a YAML file (pkg/config), overridden   *)
(* by environment variables (pkg/envconfig).  One setting stands for each  *)
(* kind of field and for each switch that changes what the process does.   *)
(*                                                                         *)
(* A file and a configuration are functions of the settings; a setting the *)
(* file leaves out has its zero value.  An environment gives each setting  *)
(* a value, Unset (not set, or empty) or Unparsable (no value of its kind, *)
(* out of its range).                                                      *)
(***************************************************************************)
CONSTANTS
    NoFile,         \* the file cannot be read or is no YAML of this shape
    Unset, Unparsable

ASSUME ValuesAssumption == Unset # Unparsable

\* The kind of the field that reflection sees.
Kind ==
    [port               |-> "string",
     initial_conn_retry |-> "int",
     tls_enabled        |-> "bool",
     telemetry_enabled  |-> "bool",
     session_ttl        |-> "duration",
     allowed_orgs       |-> "slice"]

Settings == DOMAIN Kind

Parses(env, s) == env[s] # Unparsable \/ Kind[s] \notin {"int", "bool", "duration"}

\* Fields of other kinds than these, such as lists, keep the value of the file.
loadFromEnvRecursive(cfg, env) ==
    [s \in Settings |->
        IF env[s] # Unset /\ Kind[s] \in {"string", "int", "bool", "duration"} THEN env[s] ELSE cfg[s]]

\* Mutant of Loads: a variable that cannot be parsed is passed over.
LoadsAnyway(file, env) == file # NoFile

\* LoadFromYAMLWithEnvOverride fails when the file does, and at the first
\* variable that cannot be parsed.
Loads(file, env) == file # NoFile /\ \A s \in Settings : Parses(env, s)
===============================================================================
