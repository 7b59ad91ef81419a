------------------------------- MODULE MCApiCall -------------------------------
(* Constants of ApiCall for TLC. *)
EXTENDS ApiCall

\* An id with a slash, one that looks like it escaped, and an empty one.
MCIds == {"a/b", "a%2Fb", ""}

\* Escaping, for the segments that occur in a run.
MCPathEscape(s) == CASE s = "a/b" -> "a%2Fb" [] s = "a%2Fb" -> "a%252Fb" [] OTHER -> s

\* What net/url writes for a segment: as escaped, but a slash stays a slash.
MCPathEncode(s) == IF s = "a/b" THEN s ELSE MCPathEscape(s)

\* A letter needs no escape; a slash and a percent sign do.
MCNormalize(s) ==
    CASE s = "%6De"      -> "me"
      [] s = "%6Cogin"   -> "login"
      [] s = "%6Civeness" -> "liveness"
      [] OTHER           -> s

MCPathUnescape(s) ==
    CASE s = "a%2Fb"             -> "a/b"
      [] s = "%6De"              -> "me"
      [] s = "%6Cogin"           -> "login"
      [] s = "%6Civeness"        -> "liveness"
      [] s = "a%252Fb"           -> "a%2Fb"
      [] s = "health%2Fliveness" -> "health/liveness"
      [] s = "auth%2Flogin"      -> "auth/login"
      [] OTHER                   -> s

MCSlash(a, b) == a \o "/" \o b

Slashed ==
    {"a/b"} \cup {MCSlash(a, b) : a, b \in Segments}
            \cup {MCSlash(a, MCSlash(b, c)) : a, b, c \in Segments}

MCHasSlash(s) == s \in Slashed

MCLimits == {0, 1, MaxLimit + 1}
MCOffsets == {-1, 1}
MCCodes == {"c", ""}

V1(path) == <<"v1alpha1">> \o path

OddPaths ==
    {V1(<<"health%2Fliveness">>), V1(<<"health", "liveness">>), V1(<<"auth%2Flogin">>),
     V1(<<"auth", "login">>), V1(<<"auth", "callback">>), V1(<<"auth", "none">>), V1(<<"none">>),
     V1(<<"projects">>), V1(<<"projects", "a", "roles", "">>), V1(<<"projects", "a", "roles", "b">>),
     V1(<<"projects", "a%2Fb">>),
     V1(<<"projects", "a", "usergroups", "b", "c">>), V1(<<"projects", "a", "none">>),
     V1(<<"auth", "%6De">>), V1(<<"auth", "%6Cogin">>), V1(<<"health", "%6Civeness">>),
     V1(<<"users">>), V1(<<"users", "a">>), <<"none">>}

AllFields == UNION {f.required : f \in {CreateProjectRequest, CreateUserRequest}}

OddBodies ==
    {NoBody, Text, [ctype |-> "json", fields |-> AllFields, wrong |-> {"email"}],
     [ctype |-> "json", fields |-> {"name"}, wrong |-> {}]}

MCOtherRequests ==
    [method : {"GET", "PUT", "OPTIONS"}, path : OddPaths,
     query : {<<>>, [limit |-> 1], [code |-> "c"]}, body : {NoBody}]
    \cup
    [method : {"POST", "PUT"}, path : OddPaths, query : {<<>>}, body : OddBodies]
===============================================================================
