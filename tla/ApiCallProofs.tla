---------------------------- MODULE ApiCallProofs ----------------------------
(***************************************************************************)
(* Proofs about ApiCall, for every set of ids, pages, codes and foreign    *)
(* requests and for every escaping of path segments that can be undone.    *)
(*                                                                         *)
(* They rest on three facts about the generated tables.  The stages of     *)
(* every handler come in one order (StagesOrdered).  Encoder and decoder   *)
(* of every operation mirror each other, and no decoder takes a body that  *)
(* another layer writes (Mirror).  And whatever the client sends for a     *)
(* call is routed to the operation called and decoded to the parameters    *)
(* given, or refused (AllArrive); whatever the middleware takes for public *)
(* is routed to a public operation or to none (PublicServed).              *)
(*                                                                         *)
(* The invariant Inv then follows a request through the server.            *)
(***************************************************************************)
EXTENDS ApiCall, TLAPS, SequenceTheorems


-----------------------------------------------------------------------------
(* The operations and the stages of their handlers.                        *)

\* The names of the operations.
Names ==
  {"CreateProject", "CreateRole", "CreateUser", "CreateUserGroup", "GetCurrentUser",
   "GetLivenessCheck", "GetProject", "GetReadinessCheck", "GetRole", "GetUserGroup",
   "HandleOAuthCallback", "InitiateLogin", "ListProjects", "ListRoles", "ListUserGroups",
   "ListUsers", "Logout", "RefreshToken", "UpdateProject", "UpdateRole", "UpdateUserGroup"}

LEMMA OperationNames == Operations = Names
  BY DEF Operations, Handlers, Names

\* The operations whose handler has a stage for the session, a body, parameters.
Secured ==
  {"CreateProject", "CreateUser", "GetCurrentUser", "GetProject", "ListProjects", "ListUsers",
   "Logout", "RefreshToken", "UpdateProject"}

WithBody ==
  {"CreateProject", "CreateRole", "CreateUser", "CreateUserGroup", "UpdateProject",
   "UpdateRole", "UpdateUserGroup"}

WithParams ==
  {"CreateRole", "CreateUserGroup", "GetProject", "GetRole", "GetUserGroup",
   "HandleOAuthCallback", "InitiateLogin", "ListProjects", "ListRoles", "ListUserGroups",
   "ListUsers", "UpdateProject", "UpdateRole", "UpdateUserGroup"}

\* What the order of the stages is good for.
Ordered(op) ==
  LET h == Handlers[op]
  IN  /\ Len(h) \in Nat /\ Len(h) > 1 /\ DOMAIN h = 1 .. Len(h)
      /\ \A i \in DOMAIN h : /\ h[i] \in {"security", "params", "request", "handler", "encode"}
                             /\ h[i] = "encode" <=> i = Len(h)
                             /\ h[i] = "handler" <=> i = Len(h) - 1
      /\ (\E i \in DOMAIN h : h[i] = "security") <=> op \in Secured
      /\ (\E i \in DOMAIN h : h[i] = "params") <=> op \in WithParams
      /\ (\E i \in DOMAIN h : h[i] = "request") <=> op \in WithBody
      /\ op \in Secured => h[1] = "security"

\* The stages of every handler come in the one order.
LEMMA StagesOrdered == \A op \in Operations : Ordered(op)
<1> SUFFICES ASSUME NEW op \in Names PROVE Ordered(op)
  BY OperationNames
<1> USE DEF Ordered, Secured, WithBody, WithParams
<1>1. CASE op \in {"CreateProject", "CreateUser"}
  <2>1. Handlers[op] = <<"security", "request", "handler", "encode">>
    BY <1>1 DEF Handlers, handleCreateProjectRequest, handleCreateUserRequest
  <2> QED BY <1>1, <2>1
<1>2. CASE op \in {"CreateRole", "CreateUserGroup", "UpdateRole", "UpdateUserGroup"}
  <2>1. Handlers[op] = <<"params", "request", "handler", "encode">>
    BY <1>2 DEF Handlers, handleCreateRoleRequest, handleCreateUserGroupRequest,
      handleUpdateRoleRequest, handleUpdateUserGroupRequest
  <2> QED BY <1>2, <2>1
<1>3. CASE op \in {"GetCurrentUser", "Logout", "RefreshToken"}
  <2>1. Handlers[op] = <<"security", "handler", "encode">>
    BY <1>3 DEF Handlers, handleGetCurrentUserRequest, handleLogoutRequest,
      handleRefreshTokenRequest
  <2> QED BY <1>3, <2>1
<1>4. CASE op \in {"GetLivenessCheck", "GetReadinessCheck"}
  <2>1. Handlers[op] = <<"handler", "encode">>
    BY <1>4 DEF Handlers, handleGetLivenessCheckRequest, handleGetReadinessCheckRequest
  <2> QED BY <1>4, <2>1
<1>5. CASE op \in {"GetProject", "ListProjects", "ListUsers"}
  <2>1. Handlers[op] = <<"security", "params", "handler", "encode">>
    BY <1>5 DEF Handlers, handleGetProjectRequest, handleListProjectsRequest,
      handleListUsersRequest
  <2> QED BY <1>5, <2>1
<1>6. CASE op \in {"GetRole", "GetUserGroup", "HandleOAuthCallback", "InitiateLogin",
                   "ListRoles", "ListUserGroups"}
  <2>1. Handlers[op] = <<"params", "handler", "encode">>
    BY <1>6 DEF Handlers, handleGetRoleRequest, handleGetUserGroupRequest,
      handleHandleOAuthCallbackRequest, handleInitiateLoginRequest, handleListRolesRequest,
      handleListUserGroupsRequest
  <2> QED BY <1>6, <2>1
<1>7. CASE op \in {"UpdateProject"}
  <2>1. Handlers[op] = <<"security", "params", "request", "handler", "encode">>
    BY <1>7 DEF Handlers, handleUpdateProjectRequest
  <2> QED BY <1>7, <2>1
<1> QED BY <1>1, <1>2, <1>3, <1>4, <1>5, <1>6, <1>7 DEF Names

-----------------------------------------------------------------------------
(* What one side encodes the other one decodes.                            *)

\* What answers that no operation gives consist of.
Foreign == {ErrorMessage, Message, Text, NoBody}

Refuses(form) == \A body \in Foreign : ~Decodes(form, body)

\* An answer that is encoded has its decoder, the only one for its status, which
\* takes nothing but bodies of its own unless it looks at none.
Mirrored(op) ==
  /\ \A e \in Encoders[op] : <<e[2], e[1]>> \in Decoders[op]
  /\ \A d \in Decoders[op] : <<d[2], d[1]>> \in Encoders[op]
  /\ \A d, e \in Decoders[op] : d[1] = e[1] => d = e
  /\ \A d \in Decoders[op] : d[1] \in {302, 204} \/ Refuses(d[2])

\* A body decodes as what it was encoded from.
LEMMA DecodesOwn == \A form : Decodes(form, Body(form, {}))
  BY DEF Decodes, Body

\* A form that requires anything else refuses them.
LEMMA FormRefuses ==
  \A type, required, checked :
    ~(required \subseteq {"error_message", "message"}) => Refuses(Form(type, required, checked))
  BY DEF Refuses, Foreign, ErrorMessage, Message, Text, NoBody, Decodes, Form

LEMMA ErrorRefuses == \A type : Refuses(As(type))
  BY DEF Refuses, Foreign, ErrorMessage, Message, Text, NoBody, Decodes, As, ErrorResponse, Form

LEMMA FormsRefuse ==
  /\ Refuses(AuthenticatedUser)
  /\ Refuses(HealthResponse)
  /\ Refuses(ErrorResponse)
  /\ Refuses(Project)
  /\ Refuses(Role)
  /\ Refuses(User)
  /\ Refuses(UserGroup)
  /\ Refuses(ListProjectsOKApplicationJSON)
  /\ Refuses(ListRolesOKApplicationJSON)
  /\ Refuses(ListUserGroupsOKApplicationJSON)
  /\ Refuses(ListUsersOKApplicationJSON)
  BY FormRefuses DEF AuthenticatedUser, HealthResponse, ErrorResponse, Project, Role, User,
    UserGroup,
    ListOf, ListProjectsOKApplicationJSON, ListRolesOKApplicationJSON,
    ListUserGroupsOKApplicationJSON, ListUsersOKApplicationJSON

\* The encoder and the decoder of every operation mirror each other.
LEMMA Mirror == \A op \in Operations : Mirrored(op)
<1> SUFFICES ASSUME NEW op \in Names PROVE Mirrored(op)
  BY OperationNames
<1> USE DEF Mirrored
<1>1. CASE op = "CreateProject"
  <2>1. Encoders[op] = encodeCreateProjectResponse /\ Decoders[op] = decodeCreateProjectResponse
    BY <1>1 DEF Encoders, Decoders
  <2> QED
    BY <2>1, FormsRefuse, ErrorRefuses DEF encodeCreateProjectResponse,
      decodeCreateProjectResponse, CreateProjectBadRequest,
      CreateProjectInternalServerError
<1>2. CASE op = "CreateRole"
  <2>1. Encoders[op] = encodeCreateRoleResponse /\ Decoders[op] = decodeCreateRoleResponse
    BY <1>2 DEF Encoders, Decoders
  <2> QED
    BY <2>1, FormsRefuse, ErrorRefuses DEF encodeCreateRoleResponse,
      decodeCreateRoleResponse, CreateRoleBadRequest, CreateRoleNotFound,
      CreateRoleInternalServerError
<1>3. CASE op = "CreateUser"
  <2>1. Encoders[op] = encodeCreateUserResponse /\ Decoders[op] = decodeCreateUserResponse
    BY <1>3 DEF Encoders, Decoders
  <2> QED
    BY <2>1, FormsRefuse, ErrorRefuses DEF encodeCreateUserResponse,
      decodeCreateUserResponse, CreateUserBadRequest,
      CreateUserInternalServerError
<1>4. CASE op = "CreateUserGroup"
  <2>1. Encoders[op] = encodeCreateUserGroupResponse /\ Decoders[op] = decodeCreateUserGroupResponse
    BY <1>4 DEF Encoders, Decoders
  <2> QED
    BY <2>1, FormsRefuse, ErrorRefuses DEF encodeCreateUserGroupResponse,
      decodeCreateUserGroupResponse, CreateUserGroupBadRequest,
      CreateUserGroupNotFound, CreateUserGroupInternalServerError
<1>5. CASE op = "GetCurrentUser"
  <2>1. Encoders[op] = encodeGetCurrentUserResponse /\ Decoders[op] = decodeGetCurrentUserResponse
    BY <1>5 DEF Encoders, Decoders
  <2> QED
    BY <2>1, FormsRefuse DEF encodeGetCurrentUserResponse,
      decodeGetCurrentUserResponse
<1>6. CASE op = "GetLivenessCheck"
  <2>1. /\ Encoders[op] = encodeGetLivenessCheckResponse
        /\ Decoders[op] = decodeGetLivenessCheckResponse
    BY <1>6 DEF Encoders, Decoders
  <2> QED
    BY <2>1, FormsRefuse DEF encodeGetLivenessCheckResponse,
      decodeGetLivenessCheckResponse
<1>7. CASE op = "GetProject"
  <2>1. Encoders[op] = encodeGetProjectResponse /\ Decoders[op] = decodeGetProjectResponse
    BY <1>7 DEF Encoders, Decoders
  <2> QED
    BY <2>1, FormsRefuse, ErrorRefuses DEF encodeGetProjectResponse,
      decodeGetProjectResponse, GetProjectNotFound,
      GetProjectInternalServerError
<1>8. CASE op = "GetReadinessCheck"
  <2>1. /\ Encoders[op] = encodeGetReadinessCheckResponse
        /\ Decoders[op] = decodeGetReadinessCheckResponse
    BY <1>8 DEF Encoders, Decoders
  <2> QED
    BY <2>1, FormsRefuse DEF encodeGetReadinessCheckResponse,
      decodeGetReadinessCheckResponse
<1>9. CASE op = "GetRole"
  <2>1. Encoders[op] = encodeGetRoleResponse /\ Decoders[op] = decodeGetRoleResponse
    BY <1>9 DEF Encoders, Decoders
  <2> QED
    BY <2>1, FormsRefuse, ErrorRefuses DEF encodeGetRoleResponse,
      decodeGetRoleResponse, GetRoleNotFound, GetRoleInternalServerError
<1>10. CASE op = "GetUserGroup"
  <2>1. Encoders[op] = encodeGetUserGroupResponse /\ Decoders[op] = decodeGetUserGroupResponse
    BY <1>10 DEF Encoders, Decoders
  <2> QED
    BY <2>1, FormsRefuse, ErrorRefuses DEF encodeGetUserGroupResponse,
      decodeGetUserGroupResponse, GetUserGroupNotFound,
      GetUserGroupInternalServerError
<1>11. CASE op = "HandleOAuthCallback"
  <2>1. /\ Encoders[op] = encodeHandleOAuthCallbackResponse
        /\ Decoders[op] = decodeHandleOAuthCallbackResponse
    BY <1>11 DEF Encoders, Decoders
  <2> QED
    BY <2>1, FormsRefuse, ErrorRefuses DEF encodeHandleOAuthCallbackResponse,
      decodeHandleOAuthCallbackResponse, HandleOAuthCallbackBadRequest,
      HandleOAuthCallbackUnauthorized
<1>12. CASE op = "InitiateLogin"
  <2>1. Encoders[op] = encodeInitiateLoginResponse /\ Decoders[op] = decodeInitiateLoginResponse
    BY <1>12 DEF Encoders, Decoders
  <2> QED
    BY <2>1, FormsRefuse DEF encodeInitiateLoginResponse,
      decodeInitiateLoginResponse
<1>13. CASE op = "ListProjects"
  <2>1. Encoders[op] = encodeListProjectsResponse /\ Decoders[op] = decodeListProjectsResponse
    BY <1>13 DEF Encoders, Decoders
  <2> QED
    BY <2>1, FormsRefuse DEF encodeListProjectsResponse,
      decodeListProjectsResponse
<1>14. CASE op = "ListRoles"
  <2>1. Encoders[op] = encodeListRolesResponse /\ Decoders[op] = decodeListRolesResponse
    BY <1>14 DEF Encoders, Decoders
  <2> QED
    BY <2>1, FormsRefuse, ErrorRefuses DEF encodeListRolesResponse,
      decodeListRolesResponse, ListRolesNotFound, ListRolesInternalServerError
<1>15. CASE op = "ListUserGroups"
  <2>1. Encoders[op] = encodeListUserGroupsResponse /\ Decoders[op] = decodeListUserGroupsResponse
    BY <1>15 DEF Encoders, Decoders
  <2> QED
    BY <2>1, FormsRefuse, ErrorRefuses DEF encodeListUserGroupsResponse,
      decodeListUserGroupsResponse, ListUserGroupsNotFound,
      ListUserGroupsInternalServerError
<1>16. CASE op = "ListUsers"
  <2>1. Encoders[op] = encodeListUsersResponse /\ Decoders[op] = decodeListUsersResponse
    BY <1>16 DEF Encoders, Decoders
  <2> QED
    BY <2>1, FormsRefuse DEF encodeListUsersResponse, decodeListUsersResponse
<1>17. CASE op = "Logout"
  <2>1. Encoders[op] = encodeLogoutResponse /\ Decoders[op] = decodeLogoutResponse
    BY <1>17 DEF Encoders, Decoders
  <2> QED
    BY <2>1, FormsRefuse DEF encodeLogoutResponse, decodeLogoutResponse
<1>18. CASE op = "RefreshToken"
  <2>1. Encoders[op] = encodeRefreshTokenResponse /\ Decoders[op] = decodeRefreshTokenResponse
    BY <1>18 DEF Encoders, Decoders
  <2> QED
    BY <2>1, FormsRefuse DEF encodeRefreshTokenResponse,
      decodeRefreshTokenResponse
<1>19. CASE op = "UpdateProject"
  <2>1. Encoders[op] = encodeUpdateProjectResponse /\ Decoders[op] = decodeUpdateProjectResponse
    BY <1>19 DEF Encoders, Decoders
  <2> QED
    BY <2>1, FormsRefuse, ErrorRefuses DEF encodeUpdateProjectResponse,
      decodeUpdateProjectResponse, UpdateProjectBadRequest,
      UpdateProjectNotFound, UpdateProjectInternalServerError
<1>20. CASE op = "UpdateRole"
  <2>1. Encoders[op] = encodeUpdateRoleResponse /\ Decoders[op] = decodeUpdateRoleResponse
    BY <1>20 DEF Encoders, Decoders
  <2> QED
    BY <2>1, FormsRefuse, ErrorRefuses DEF encodeUpdateRoleResponse,
      decodeUpdateRoleResponse, UpdateRoleBadRequest, UpdateRoleNotFound,
      UpdateRoleInternalServerError
<1>21. CASE op = "UpdateUserGroup"
  <2>1. Encoders[op] = encodeUpdateUserGroupResponse /\ Decoders[op] = decodeUpdateUserGroupResponse
    BY <1>21 DEF Encoders, Decoders
  <2> QED
    BY <2>1, FormsRefuse, ErrorRefuses DEF encodeUpdateUserGroupResponse,
      decodeUpdateUserGroupResponse, UpdateUserGroupBadRequest,
      UpdateUserGroupNotFound, UpdateUserGroupInternalServerError
<1> QED
  BY <1>1, <1>2, <1>3, <1>4, <1>5, <1>6, <1>7, <1>8, <1>9, <1>10, <1>11, <1>12,
    <1>13, <1>14, <1>15, <1>16, <1>17, <1>18, <1>19, <1>20, <1>21 DEF Names

-----------------------------------------------------------------------------
(* The router on paths of a known length.                                  *)

\* The branch a path of two segments or more is taken to.
LEMMA ServeBranches ==
  ASSUME NEW method, NEW path, NEW w, w = Walked(path), ~(Len(w) < 2), w[1] = "v1alpha1",
         NEW rest, rest = SubSeq(w, 3, Len(w))
  PROVE  /\ w[2] = "auth" => ServeHTTP(method, path) = RouteAuth(method, rest)
         /\ w[2] = "health" => ServeHTTP(method, path) = RouteHealth(method, rest)
         /\ w[2] = "projects" => ServeHTTP(method, path) = RouteProjects(method, rest)
         /\ w[2] = "users" => ServeHTTP(method, path) = RouteUsers(method, rest)
  BY DEF ServeHTTP

LEMMA ProjectBranches ==
  ASSUME NEW method, NEW rest
  PROVE  LET to == RouteProjects(method, rest)
             part == SubSeq(rest, 3, Len(rest))
         IN  /\ rest # <<>> /\ Len(rest) = 1 =>
                  to = Node([GET |-> "GetProject", PUT |-> "UpdateProject"], method, rest)
             /\ rest # <<>> /\ Len(rest) # 1 /\ Len(rest) > 1 =>
                  /\ rest[2] = "roles" => to = RouteRoles(method, rest[1], part)
                  /\ rest[2] = "usergroups" => to = RouteUserGroups(method, rest[1], part)
  BY DEF RouteProjects

\* Sequences of known length, put together and cut.
LEMMA Pair == \A x, y : <<x>> \o <<y>> = <<x, y>>
<1> TAKE x, y
<1> DEFINE S == {x, y}
           t == <<x>> \o <<y>>
<1>1. <<x>> \in Seq(S) /\ <<y>> \in Seq(S) /\ <<x, y>> \in Seq(S)
  OBVIOUS
<1>2. t \in Seq(S) /\ Len(t) = 2 /\ \A i \in 1 .. 2 : t[i] = <<x, y>>[i]
  BY <1>1, ConcatProperties
<1> QED BY <1>1, <1>2, SeqEqual

LEMMA Tail2 == \A a, b : SubSeq(<<a, b>>, 3, 2) = <<>>
  BY SubSeqEmpty

LEMMA Tail3 == \A a, b, c : SubSeq(<<a, b, c>>, 3, 3) = <<c>>
<1> TAKE a, b, c
<1> DEFINE S == {a, b, c}
           t == SubSeq(<<a, b, c>>, 3, 3)
<1>1. t \in Seq(S) /\ Len(t) = 1 /\ \A i \in 1 .. 1 : t[i] = <<c>>[i]
  BY SubSeqProperties
<1>2. <<c>> \in Seq(S) /\ Len(<<c>>) = 1
  OBVIOUS
<1> QED BY <1>1, <1>2, SeqEqual

LEMMA Tail4 == \A a, b, c, d : SubSeq(<<a, b, c, d>>, 3, 4) = <<c, d>>
<1> TAKE a, b, c, d
<1> DEFINE S == {a, b, c, d}
           t == SubSeq(<<a, b, c, d>>, 3, 4)
<1>1. t \in Seq(S) /\ Len(t) = 2 /\ \A i \in 1 .. 2 : t[i] = <<c, d>>[i]
  BY SubSeqProperties
<1>2. <<c, d>> \in Seq(S) /\ Len(<<c, d>>) = 2
  OBVIOUS
<1> QED BY <1>1, <1>2, SeqEqual

LEMMA Tail5 == \A a, b, c, d, e : SubSeq(<<a, b, c, d, e>>, 3, 5) = <<c, d, e>>
<1> TAKE a, b, c, d, e
<1> DEFINE S == {a, b, c, d, e}
           t == SubSeq(<<a, b, c, d, e>>, 3, 5)
<1>1. t \in Seq(S) /\ Len(t) = 3 /\ \A i \in 1 .. 3 : t[i] = <<c, d, e>>[i]
  BY SubSeqProperties
<1>2. <<c, d, e>> \in Seq(S) /\ Len(<<c, d, e>>) = 3
  OBVIOUS
<1> QED BY <1>1, <1>2, SeqEqual

\* What is left of a path of known length for the branch.
LEMMA Serve2 ==
  ASSUME NEW method, NEW path, NEW b, Walked(path) = <<"v1alpha1", b>>
  PROVE  /\ b = "auth" => ServeHTTP(method, path) = RouteAuth(method, <<>>)
         /\ b = "health" => ServeHTTP(method, path) = RouteHealth(method, <<>>)
         /\ b = "projects" => ServeHTTP(method, path) = RouteProjects(method, <<>>)
         /\ b = "users" => ServeHTTP(method, path) = RouteUsers(method, <<>>)
<1> DEFINE w == <<"v1alpha1", b>>
<1>1. Len(w) = 2 /\ ~(Len(w) < 2) /\ w[1] = "v1alpha1" /\ w[2] = b
  OBVIOUS
<1>2. SubSeq(w, 3, Len(w)) = <<>>
  BY <1>1, Tail2
<1> HIDE DEF w
<1> QED BY <1>1, <1>2, ServeBranches, ZenonT(30) DEF w

LEMMA Serve3 ==
  ASSUME NEW method, NEW path, NEW b, NEW c, Walked(path) = <<"v1alpha1", b, c>>
  PROVE  /\ b = "auth" => ServeHTTP(method, path) = RouteAuth(method, <<c>>)
         /\ b = "health" => ServeHTTP(method, path) = RouteHealth(method, <<c>>)
         /\ b = "projects" => ServeHTTP(method, path) = RouteProjects(method, <<c>>)
         /\ b = "users" => ServeHTTP(method, path) = RouteUsers(method, <<c>>)
<1> DEFINE w == <<"v1alpha1", b, c>>
<1>1. Len(w) = 3 /\ ~(Len(w) < 2) /\ w[1] = "v1alpha1" /\ w[2] = b
  OBVIOUS
<1>2. SubSeq(w, 3, Len(w)) = <<c>>
  BY <1>1, Tail3
<1> HIDE DEF w
<1> QED BY <1>1, <1>2, ServeBranches, ZenonT(30) DEF w

LEMMA Serve4 ==
  ASSUME NEW method, NEW path, NEW b, NEW c, NEW d, Walked(path) = <<"v1alpha1", b, c, d>>
  PROVE  /\ b = "auth" => ServeHTTP(method, path) = RouteAuth(method, <<c, d>>)
         /\ b = "health" => ServeHTTP(method, path) = RouteHealth(method, <<c, d>>)
         /\ b = "projects" => ServeHTTP(method, path) = RouteProjects(method, <<c, d>>)
         /\ b = "users" => ServeHTTP(method, path) = RouteUsers(method, <<c, d>>)
<1> DEFINE w == <<"v1alpha1", b, c, d>>
<1>1. Len(w) = 4 /\ ~(Len(w) < 2) /\ w[1] = "v1alpha1" /\ w[2] = b
  OBVIOUS
<1>2. SubSeq(w, 3, Len(w)) = <<c, d>>
  BY <1>1, Tail4
<1> HIDE DEF w
<1> QED BY <1>1, <1>2, ServeBranches, ZenonT(30) DEF w

LEMMA Serve5 ==
  ASSUME NEW method, NEW path, NEW b, NEW c, NEW d, NEW e, Walked(path) = <<"v1alpha1", b, c, d, e>>
  PROVE  /\ b = "auth" => ServeHTTP(method, path) = RouteAuth(method, <<c, d, e>>)
         /\ b = "health" => ServeHTTP(method, path) = RouteHealth(method, <<c, d, e>>)
         /\ b = "projects" => ServeHTTP(method, path) = RouteProjects(method, <<c, d, e>>)
         /\ b = "users" => ServeHTTP(method, path) = RouteUsers(method, <<c, d, e>>)
<1> DEFINE w == <<"v1alpha1", b, c, d, e>>
<1>1. Len(w) = 5 /\ ~(Len(w) < 2) /\ w[1] = "v1alpha1" /\ w[2] = b
  OBVIOUS
<1>2. SubSeq(w, 3, Len(w)) = <<c, d, e>>
  BY <1>1, Tail5
<1> HIDE DEF w
<1> QED BY <1>1, <1>2, ServeBranches, ZenonT(30) DEF w

\* A segment of path as the router sees it.
Seg(path, s) == IF IsRaw(path) THEN Normalize(s) ELSE PathUnescape(s)

\* A route's own segments need no escaping; an id is the same at the other end.
LEMMA PlainSeg == \A s \in Segments : PathEscape(s) = s /\ (\A path : Seg(path, s) = s)
  BY SegmentsAssumption DEF Seg, Plain

LEMMA IdSeg ==
  ASSUME NEW path, NEW id \in Ids
  PROVE  PathParam(Seg(path, PathEscape(id)), IsRaw(path)) = IF id = "" THEN Invalid ELSE id
  BY IdsAssumption DEF PathParam, Seg

Escaped(path) == [i \in DOMAIN path |-> PathEscape(path[i])]

\* The client's paths, put together.
LEMMA Prefix1 ==
  ASSUME NEW a
  PROVE  <<"v1alpha1">> \o Escaped(<<a>>) = <<"v1alpha1", PathEscape(a)>>
<1> DEFINE S == {"v1alpha1", PathEscape(a)}
           t == <<PathEscape(a)>>
           u == <<"v1alpha1", PathEscape(a)>>
           v == <<"v1alpha1">> \o t
<1>1. <<"v1alpha1">> \in Seq(S) /\ t \in Seq(S) /\ u \in Seq(S)
  OBVIOUS
<1>2. v \in Seq(S) /\ Len(v) = 2 /\ \A i \in 1 .. 2 : v[i] = u[i]
  BY <1>1, ConcatProperties
<1>3. v = u
  BY <1>1, <1>2, SeqEqual
<1> QED BY <1>3 DEF Escaped

LEMMA Prefix2 ==
  ASSUME NEW a, NEW b
  PROVE  <<"v1alpha1">> \o Escaped(<<a, b>>) = <<"v1alpha1", PathEscape(a), PathEscape(b)>>
<1> DEFINE S == {"v1alpha1", PathEscape(a), PathEscape(b)}
           t == <<PathEscape(a), PathEscape(b)>>
           u == <<"v1alpha1", PathEscape(a), PathEscape(b)>>
           v == <<"v1alpha1">> \o t
<1>1. <<"v1alpha1">> \in Seq(S) /\ t \in Seq(S) /\ u \in Seq(S)
  OBVIOUS
<1>2. v \in Seq(S) /\ Len(v) = 3 /\ \A i \in 1 .. 3 : v[i] = u[i]
  BY <1>1, ConcatProperties
<1>3. v = u
  BY <1>1, <1>2, SeqEqual
<1> QED BY <1>3 DEF Escaped

LEMMA Prefix3 ==
  ASSUME NEW a, NEW b, NEW c
  PROVE  <<"v1alpha1">> \o Escaped(<<a, b, c>>)
           = <<"v1alpha1", PathEscape(a), PathEscape(b), PathEscape(c)>>
<1> DEFINE S == {"v1alpha1", PathEscape(a), PathEscape(b), PathEscape(c)}
           t == <<PathEscape(a), PathEscape(b), PathEscape(c)>>
           u == <<"v1alpha1", PathEscape(a), PathEscape(b), PathEscape(c)>>
           v == <<"v1alpha1">> \o t
<1>1. <<"v1alpha1">> \in Seq(S) /\ t \in Seq(S) /\ u \in Seq(S)
  OBVIOUS
<1>2. v \in Seq(S) /\ Len(v) = 4 /\ \A i \in 1 .. 4 : v[i] = u[i]
  BY <1>1, ConcatProperties
<1>3. v = u
  BY <1>1, <1>2, SeqEqual
<1> QED BY <1>3 DEF Escaped

LEMMA Prefix4 ==
  ASSUME NEW a, NEW b, NEW c, NEW d
  PROVE  <<"v1alpha1">> \o Escaped(<<a, b, c, d>>)
           = <<"v1alpha1", PathEscape(a), PathEscape(b), PathEscape(c), PathEscape(d)>>
<1> DEFINE S == {"v1alpha1", PathEscape(a), PathEscape(b), PathEscape(c), PathEscape(d)}
           t == <<PathEscape(a), PathEscape(b), PathEscape(c), PathEscape(d)>>
           u == <<"v1alpha1", PathEscape(a), PathEscape(b), PathEscape(c), PathEscape(d)>>
           v == <<"v1alpha1">> \o t
<1>1. <<"v1alpha1">> \in Seq(S) /\ t \in Seq(S) /\ u \in Seq(S)
  OBVIOUS
<1>2. v \in Seq(S) /\ Len(v) = 5 /\ \A i \in 1 .. 5 : v[i] = u[i]
  BY <1>1, ConcatProperties
<1>3. v = u
  BY <1>1, <1>2, SeqEqual
<1> QED BY <1>3 DEF Escaped

\* The path the router walks, segment by segment.
LEMMA Walked2 ==
  ASSUME NEW a, NEW b, NEW path, path = <<a, b>>
  PROVE  Walked(path) = <<Seg(path, a), Seg(path, b)>>
  BY DEF Walked, Unescaped, Seg

LEMMA Walked3 ==
  ASSUME NEW a, NEW b, NEW c, NEW path, path = <<a, b, c>>
  PROVE  Walked(path) = <<Seg(path, a), Seg(path, b), Seg(path, c)>>
  BY DEF Walked, Unescaped, Seg

LEMMA Walked4 ==
  ASSUME NEW a, NEW b, NEW c, NEW d, NEW path, path = <<a, b, c, d>>
  PROVE  Walked(path) = <<Seg(path, a), Seg(path, b), Seg(path, c), Seg(path, d)>>
  BY DEF Walked, Unescaped, Seg

LEMMA Walked5 ==
  ASSUME NEW a, NEW b, NEW c, NEW d, NEW e, NEW path, path = <<a, b, c, d, e>>
  PROVE  Walked(path) = <<Seg(path, a), Seg(path, b), Seg(path, c), Seg(path, d), Seg(path, e)>>
  BY DEF Walked, Unescaped, Seg

-----------------------------------------------------------------------------
(* Where a path leads.                                                     *)

\* The routes of the collections.
LEMMA ToCollection ==
  ASSUME NEW method, NEW path, NEW a \in {"projects", "users"}, path = <<"v1alpha1", a>>
  PROVE  ServeHTTP(method, path) =
           IF a = "projects"
             THEN Node([GET |-> "ListProjects", POST |-> "CreateProject"], method, <<>>)
             ELSE Node([GET |-> "ListUsers", POST |-> "CreateUser"], method, <<>>)
<1>1. Walked(path) = <<"v1alpha1", a>>
  BY Walked2, PlainSeg DEF Segments
<1>2. a = "projects" => ServeHTTP(method, path) = RouteProjects(method, <<>>)
  BY <1>1, Serve2
<1>3. a = "users" => ServeHTTP(method, path) = RouteUsers(method, <<>>)
  BY <1>1, Serve2
<1> QED BY <1>2, <1>3 DEF RouteProjects, RouteUsers

\* The routes of the session and of the health checks.
LEMMA ToStatic ==
  ASSUME NEW method, NEW path, NEW a \in {"auth", "health"}, NEW b \in Segments,
         path = <<"v1alpha1", a, b>>
  PROVE  ServeHTTP(method, path) =
           IF a = "auth" THEN RouteAuth(method, <<b>>) ELSE RouteHealth(method, <<b>>)
<1>1. Walked(path) = <<"v1alpha1", a, b>>
  BY Walked3, PlainSeg DEF Segments
<1> QED BY <1>1, Serve3

\* The routes of a project, of what is in it and of one of those.
LEMMA ToProject ==
  ASSUME NEW method, NEW path, NEW id, path = <<"v1alpha1", "projects", id>>
  PROVE  ServeHTTP(method, path)
           = Node([GET |-> "GetProject", PUT |-> "UpdateProject"], method, <<Seg(path, id)>>)
<1> DEFINE x == Seg(path, id)
<1>1. Walked(path) = <<"v1alpha1", "projects", x>>
  BY Walked3, PlainSeg DEF Segments
<1>2. ServeHTTP(method, path) = RouteProjects(method, <<x>>)
  BY <1>1, Serve3
<1>3. <<x>> # <<>> /\ Len(<<x>>) = 1
  OBVIOUS
<1> QED BY <1>2, <1>3, ProjectBranches

LEMMA ToPart ==
  ASSUME NEW method, NEW path, NEW project, NEW part \in {"roles", "usergroups"},
         path = <<"v1alpha1", "projects", project, part>>
  PROVE  ServeHTTP(method, path) =
           IF part = "roles"
             THEN Node([GET |-> "ListRoles", POST |-> "CreateRole"], method, <<Seg(path, project)>>)
             ELSE Node([GET |-> "ListUserGroups", POST |-> "CreateUserGroup"],
                       method, <<Seg(path, project)>>)
<1> DEFINE x == Seg(path, project)
           rest == <<x, part>>
<1>1. Walked(path) = <<"v1alpha1", "projects", x, part>>
  BY Walked4, PlainSeg DEF Segments
<1>2. ServeHTTP(method, path) = RouteProjects(method, rest)
  BY <1>1, Serve4
<1>3. /\ rest # <<>> /\ Len(rest) = 2 /\ Len(rest) # 1 /\ Len(rest) > 1
      /\ rest[1] = x /\ rest[2] = part
  OBVIOUS
<1>4. SubSeq(rest, 3, Len(rest)) = <<>>
  BY <1>3, Tail2
<1> HIDE DEF rest
<1>5. part = "roles" => RouteProjects(method, rest) = RouteRoles(method, x, <<>>)
  BY <1>3, <1>4, ProjectBranches
<1>6. part = "usergroups" => RouteProjects(method, rest) = RouteUserGroups(method, x, <<>>)
  BY <1>3, <1>4, ProjectBranches
<1> QED BY <1>2, <1>5, <1>6 DEF RouteRoles, RouteUserGroups

LEMMA ToMember ==
  ASSUME NEW method, NEW path, NEW project, NEW part \in {"roles", "usergroups"}, NEW id,
         path = <<"v1alpha1", "projects", project, part, id>>
  PROVE  ServeHTTP(method, path) =
           IF part = "roles"
             THEN Node([GET |-> "GetRole", PUT |-> "UpdateRole"],
                       method, <<Seg(path, project), Seg(path, id)>>)
             ELSE Node([GET |-> "GetUserGroup", PUT |-> "UpdateUserGroup"],
                       method, <<Seg(path, project), Seg(path, id)>>)
<1> DEFINE x == Seg(path, project)
           y == Seg(path, id)
           rest == <<x, part, y>>
<1>1. Walked(path) = <<"v1alpha1", "projects", x, part, y>>
  BY Walked5, PlainSeg DEF Segments
<1>2. ServeHTTP(method, path) = RouteProjects(method, rest)
  BY <1>1, Serve5
<1>3. /\ rest # <<>> /\ Len(rest) = 3 /\ Len(rest) # 1 /\ Len(rest) > 1
      /\ rest[1] = x /\ rest[2] = part
  OBVIOUS
<1>4. SubSeq(rest, 3, Len(rest)) = <<y>>
  BY <1>3, Tail3
<1> HIDE DEF rest
<1>5. part = "roles" => RouteProjects(method, rest) = RouteRoles(method, x, <<y>>)
  BY <1>3, <1>4, ProjectBranches
<1>6. part = "usergroups" => RouteProjects(method, rest) = RouteUserGroups(method, x, <<y>>)
  BY <1>3, <1>4, ProjectBranches
<1>7. <<y>> # <<>> /\ Len(<<y>>) = 1 /\ <<x>> \o <<y>> = <<x, y>>
  BY Pair
<1> QED BY <1>2, <1>5, <1>6, <1>7 DEF RouteRoles, RouteUserGroups

-----------------------------------------------------------------------------
(* A call arrives as it was made.                                          *)

\* What Echo's own handlers read from a query.
LoginParams(q) == [redirect_uri |-> Optional(q, "redirect_uri")]
CallbackParams(q) == [code |-> QueryParam(q, "code"), state |-> QueryParam(q, "state")]

\* The request the client sends for op and p is not taken for a preflight,
\* carries a credential where the handler wants one, and is routed to op.  There
\* the parameters decoded are p, or one is refused; Echo's own handlers, where it
\* is theirs, read p.
Arrives(op, p) ==
  LET s == ClientRequest(op, p)
      to == ServeHTTP(s.method, s.path)
      q == DecodeParams(op, to.args, IsRaw(s.path), s.query)
  IN  /\ s.method # "OPTIONS"
      /\ op \in Secured => s.secured
      /\ to.op = op
      /\ op \notin WithParams => p = <<>>
      /\ op \in WithParams /\ (\A f \in DOMAIN q : q[f] # Invalid) => q = p
      /\ s.path = loginPath => op = "InitiateLogin" /\ p = LoginParams(s.query)
      /\ s.path = callbackPath => op = "HandleOAuthCallback" /\ p = CallbackParams(s.query)

\* What is decoded is what was sent, or refused.
LEMMA ParamValue ==
  ASSUME NEW path, NEW id \in Ids
  PROVE  PathParam(Seg(path, PathEscape(id)), IsRaw(path)) \in {id, Invalid}
  BY IdSeg

LEMMA PageValues ==
  ASSUME NEW p
  PROVE  LimitParam(Page(p)) \in {p.limit, Invalid} /\ OffsetParam(Page(p)) \in {p.offset, Invalid}
  BY DEF LimitParam, OffsetParam, Page, Required

\* The operations, by the form of their paths.
LEMMA RoleArrives ==
  ASSUME NEW op \in {"GetRole", "UpdateRole"}, NEW p \in Arguments(op)
  PROVE  Arrives(op, p)
<1> DEFINE s == ClientRequest(op, p)
           to == ServeHTTP(s.method, s.path)
           q == DecodeParams(op, to.args, IsRaw(s.path), s.query)
           path == <<"v1alpha1", "projects", PathEscape(p.projectId), "roles",
                     PathEscape(p.roleId)>>
           args == <<Seg(path, PathEscape(p.projectId)), Seg(path, PathEscape(p.roleId))>>
<1>1. /\ p.projectId \in Ids /\ p.roleId \in Ids
      /\ p = [projectId |-> p.projectId, roleId |-> p.roleId]
  BY DEF Arguments, ByProject
<1>2. s.path = path
  BY Prefix4, PlainSeg DEF ClientRequest, sendGetRole, sendUpdateRole, Send, Escaped, Segments
<1>3. s.method = IF op = "GetRole" THEN "GET" ELSE "PUT"
  BY DEF ClientRequest, sendGetRole, sendUpdateRole, Send
<1>4. to = [op |-> op, args |-> args]
  BY <1>2, <1>3, ToMember DEF Node
<1>5. q = [projectId |-> PathParam(args[1], IsRaw(path)),
           roleId |-> PathParam(args[2], IsRaw(path))]
  BY <1>2, <1>4 DEF DecodeParams, decodeGetRoleParams, decodeUpdateRoleParams
<1>6. ASSUME \A f \in DOMAIN q : q[f] # Invalid PROVE q = p
  <2>1. q.projectId # Invalid /\ q.roleId # Invalid
    BY <1>5, <1>6
  <2>2. q.projectId = p.projectId /\ q.roleId = p.roleId
    BY <1>1, <1>5, <2>1, ParamValue
  <2> QED BY <1>1, <1>5, <2>2
<1>7. s.path # loginPath /\ s.path # callbackPath
  BY <1>2 DEF loginPath, callbackPath
<1> QED BY <1>3, <1>4, <1>6, <1>7 DEF Arrives, Secured, WithParams

LEMMA GroupArrives ==
  ASSUME NEW op \in {"GetUserGroup", "UpdateUserGroup"}, NEW p \in Arguments(op)
  PROVE  Arrives(op, p)
<1> DEFINE s == ClientRequest(op, p)
           to == ServeHTTP(s.method, s.path)
           q == DecodeParams(op, to.args, IsRaw(s.path), s.query)
           path == <<"v1alpha1", "projects", PathEscape(p.projectId), "usergroups",
                     PathEscape(p.groupId)>>
           args == <<Seg(path, PathEscape(p.projectId)), Seg(path, PathEscape(p.groupId))>>
<1>1. /\ p.projectId \in Ids /\ p.groupId \in Ids
      /\ p = [projectId |-> p.projectId, groupId |-> p.groupId]
  BY DEF Arguments, ByProject
<1>2. s.path = path
  BY Prefix4, PlainSeg DEF ClientRequest, sendGetUserGroup, sendUpdateUserGroup, Send, Escaped,
    Segments
<1>3. s.method = IF op = "GetUserGroup" THEN "GET" ELSE "PUT"
  BY DEF ClientRequest, sendGetUserGroup, sendUpdateUserGroup, Send
<1>4. to = [op |-> op, args |-> args]
  BY <1>2, <1>3, ToMember DEF Node
<1>5. q = [projectId |-> PathParam(args[1], IsRaw(path)),
           groupId |-> PathParam(args[2], IsRaw(path))]
  BY <1>2, <1>4 DEF DecodeParams, decodeGetUserGroupParams, decodeUpdateUserGroupParams
<1>6. ASSUME \A f \in DOMAIN q : q[f] # Invalid PROVE q = p
  <2>1. q.projectId # Invalid /\ q.groupId # Invalid
    BY <1>5, <1>6
  <2>2. q.projectId = p.projectId /\ q.groupId = p.groupId
    BY <1>1, <1>5, <2>1, ParamValue
  <2> QED BY <1>1, <1>5, <2>2
<1>7. s.path # loginPath /\ s.path # callbackPath
  BY <1>2 DEF loginPath, callbackPath
<1> QED BY <1>3, <1>4, <1>6, <1>7 DEF Arrives, Secured, WithParams

LEMMA PartCreateArrives ==
  ASSUME NEW op \in {"CreateRole", "CreateUserGroup"}, NEW p \in Arguments(op)
  PROVE  Arrives(op, p)
<1> DEFINE s == ClientRequest(op, p)
           to == ServeHTTP(s.method, s.path)
           q == DecodeParams(op, to.args, IsRaw(s.path), s.query)
           part == IF op = "CreateRole" THEN "roles" ELSE "usergroups"
           path == <<"v1alpha1", "projects", PathEscape(p.projectId), part>>
           arg == Seg(path, PathEscape(p.projectId))
<1>1. p.projectId \in Ids /\ p = [projectId |-> p.projectId]
  BY DEF Arguments, ByProject
<1>2. s.path = path
  BY Prefix3, PlainSeg DEF ClientRequest, sendCreateRole, sendCreateUserGroup, Send, Escaped,
    Segments
<1>3. s.method = "POST"
  BY DEF ClientRequest, sendCreateRole, sendCreateUserGroup, Send
<1>4. to = [op |-> op, args |-> <<arg>>]
  BY <1>2, <1>3, ToPart DEF Node
<1>5. q = [projectId |-> PathParam(arg, IsRaw(path))]
  BY <1>2, <1>4 DEF DecodeParams, decodeCreateRoleParams, decodeCreateUserGroupParams
<1>6. ASSUME \A f \in DOMAIN q : q[f] # Invalid PROVE q = p
  <2>1. q.projectId # Invalid
    BY <1>5, <1>6
  <2>2. q.projectId = p.projectId
    BY <1>1, <1>5, <2>1, ParamValue
  <2> QED BY <1>1, <1>5, <2>2
<1>7. s.path # loginPath /\ s.path # callbackPath
  BY <1>2 DEF loginPath, callbackPath
<1> QED BY <1>3, <1>4, <1>6, <1>7 DEF Arrives, Secured, WithParams

LEMMA PartListArrives ==
  ASSUME NEW op \in {"ListRoles", "ListUserGroups"}, NEW p \in Arguments(op)
  PROVE  Arrives(op, p)
<1> DEFINE s == ClientRequest(op, p)
           to == ServeHTTP(s.method, s.path)
           q == DecodeParams(op, to.args, IsRaw(s.path), s.query)
           part == IF op = "ListRoles" THEN "roles" ELSE "usergroups"
           path == <<"v1alpha1", "projects", PathEscape(p.projectId), part>>
           arg == Seg(path, PathEscape(p.projectId))
<1>1. p.projectId \in Ids /\ p = [projectId |-> p.projectId, limit |-> p.limit, offset |-> p.offset]
  BY DEF Arguments, ByProject
<1>2. s.path = path
  BY Prefix3, PlainSeg DEF ClientRequest, sendListRoles, sendListUserGroups, Send, Escaped,
    Segments
<1>3. s.method = "GET" /\ s.query = Page(p)
  BY DEF ClientRequest, sendListRoles, sendListUserGroups, Send
<1>4. to = [op |-> op, args |-> <<arg>>]
  BY <1>2, <1>3, ToPart DEF Node
<1>5. q = [projectId |-> PathParam(arg, IsRaw(path)), limit |-> LimitParam(Page(p)),
           offset |-> OffsetParam(Page(p))]
  BY <1>2, <1>3, <1>4 DEF DecodeParams, decodeListRolesParams, decodeListUserGroupsParams
<1>6. ASSUME \A f \in DOMAIN q : q[f] # Invalid PROVE q = p
  <2>1. q.projectId # Invalid /\ q.limit # Invalid /\ q.offset # Invalid
    BY <1>5, <1>6
  <2>2. q.projectId = p.projectId
    BY <1>1, <1>5, <2>1, ParamValue
  <2>3. q.limit = p.limit /\ q.offset = p.offset
    BY <1>5, <2>1, PageValues
  <2> QED BY <1>1, <1>5, <2>2, <2>3
<1>7. s.path # loginPath /\ s.path # callbackPath
  BY <1>2 DEF loginPath, callbackPath
<1> QED BY <1>3, <1>4, <1>6, <1>7 DEF Arrives, Secured, WithParams

LEMMA ProjectArrives ==
  ASSUME NEW op \in {"GetProject", "UpdateProject"}, NEW p \in Arguments(op)
  PROVE  Arrives(op, p)
<1> DEFINE s == ClientRequest(op, p)
           to == ServeHTTP(s.method, s.path)
           q == DecodeParams(op, to.args, IsRaw(s.path), s.query)
           path == <<"v1alpha1", "projects", PathEscape(p.projectId)>>
           arg == Seg(path, PathEscape(p.projectId))
<1>1. p.projectId \in Ids /\ p = [projectId |-> p.projectId]
  BY DEF Arguments, ByProject
<1>2. s.path = path /\ s.secured
  BY Prefix2, PlainSeg DEF ClientRequest, sendGetProject, sendUpdateProject, Send, Escaped,
    Segments
<1>3. s.method = IF op = "GetProject" THEN "GET" ELSE "PUT"
  BY DEF ClientRequest, sendGetProject, sendUpdateProject, Send
<1>4. to = [op |-> op, args |-> <<arg>>]
  BY <1>2, <1>3, ToProject DEF Node
<1>5. q = [projectId |-> PathParam(arg, IsRaw(path))]
  BY <1>2, <1>4 DEF DecodeParams, decodeGetProjectParams, decodeUpdateProjectParams
<1>6. ASSUME \A f \in DOMAIN q : q[f] # Invalid PROVE q = p
  <2>1. q.projectId # Invalid
    BY <1>5, <1>6
  <2>2. q.projectId = p.projectId
    BY <1>1, <1>5, <2>1, ParamValue
  <2> QED BY <1>1, <1>5, <2>2
<1>7. s.path # loginPath /\ s.path # callbackPath
  BY <1>2 DEF loginPath, callbackPath
<1> QED BY <1>2, <1>3, <1>4, <1>6, <1>7 DEF Arrives, WithParams

LEMMA CreateArrives ==
  ASSUME NEW op \in {"CreateProject", "CreateUser"}, NEW p \in Arguments(op)
  PROVE  Arrives(op, p)
<1> DEFINE s == ClientRequest(op, p)
           path == <<"v1alpha1", IF op = "CreateProject" THEN "projects" ELSE "users">>
<1>1. p = <<>>
  BY DEF Arguments, ByProject
<1>2. s.path = path /\ s.method = "POST" /\ s.secured
  BY Prefix1, PlainSeg DEF ClientRequest, sendCreateProject, sendCreateUser, Send, Escaped,
    Segments
<1>3. ServeHTTP(s.method, s.path).op = op
  BY <1>2, ToCollection DEF Node
<1>4. s.path # loginPath /\ s.path # callbackPath
  BY <1>2 DEF loginPath, callbackPath
<1> QED BY <1>1, <1>2, <1>3, <1>4 DEF Arrives, WithParams

LEMMA ListArrives ==
  ASSUME NEW op \in {"ListProjects", "ListUsers"}, NEW p \in Arguments(op)
  PROVE  Arrives(op, p)
<1> DEFINE s == ClientRequest(op, p)
           to == ServeHTTP(s.method, s.path)
           q == DecodeParams(op, to.args, IsRaw(s.path), s.query)
           path == <<"v1alpha1", IF op = "ListProjects" THEN "projects" ELSE "users">>
<1>1. p = [limit |-> p.limit, offset |-> p.offset]
  BY DEF Arguments, ByProject
<1>2. s.path = path /\ s.method = "GET" /\ s.secured /\ s.query = Page(p)
  BY Prefix1, PlainSeg DEF ClientRequest, sendListProjects, sendListUsers, Send, Escaped, Segments
<1>3. to.op = op
  BY <1>2, ToCollection DEF Node
<1>4. q = [limit |-> LimitParam(Page(p)), offset |-> OffsetParam(Page(p))]
  BY <1>2 DEF DecodeParams, decodeListProjectsParams, decodeListUsersParams
<1>5. ASSUME \A f \in DOMAIN q : q[f] # Invalid PROVE q = p
  <2>1. q.limit # Invalid /\ q.offset # Invalid
    BY <1>4, <1>5
  <2>2. q.limit = p.limit /\ q.offset = p.offset
    BY <1>4, <2>1, PageValues
  <2> QED BY <1>1, <1>4, <2>2
<1>6. s.path # loginPath /\ s.path # callbackPath
  BY <1>2 DEF loginPath, callbackPath
<1> QED BY <1>2, <1>3, <1>5, <1>6 DEF Arrives, WithParams

LEMMA SessionArrives ==
  ASSUME NEW op \in {"GetCurrentUser", "Logout", "RefreshToken"}, NEW p \in Arguments(op)
  PROVE  Arrives(op, p)
<1> DEFINE s == ClientRequest(op, p)
           last == CASE op = "GetCurrentUser" -> "me"
                     [] op = "Logout" -> "logout"
                     [] OTHER -> "refresh"
           path == <<"v1alpha1", "auth", last>>
<1>1. p = <<>>
  BY DEF Arguments, ByProject
<1>2. s.path = path /\ s.secured
  BY Prefix2, PlainSeg, ZenonT(30)
    DEF ClientRequest, sendGetCurrentUser, sendLogout, sendRefreshToken, Send, Escaped, Segments
<1>3. s.method = IF op = "GetCurrentUser" THEN "GET" ELSE "POST"
  BY DEF ClientRequest, sendGetCurrentUser, sendLogout, sendRefreshToken, Send
<1>4. ServeHTTP(s.method, s.path).op = op
  BY <1>2, <1>3, ToStatic DEF Node, RouteAuth, Segments
<1>5. s.path # loginPath /\ s.path # callbackPath
  BY <1>2 DEF loginPath, callbackPath
<1> QED BY <1>1, <1>2, <1>3, <1>4, <1>5 DEF Arrives, WithParams

LEMMA HealthArrives ==
  ASSUME NEW op \in {"GetLivenessCheck", "GetReadinessCheck"}, NEW p \in Arguments(op)
  PROVE  Arrives(op, p)
<1> DEFINE s == ClientRequest(op, p)
           path == <<"v1alpha1", "health",
                     IF op = "GetLivenessCheck" THEN "liveness" ELSE "readiness">>
<1>1. p = <<>>
  BY DEF Arguments, ByProject
<1>2. s.path = path /\ s.method = "GET"
  BY Prefix2, PlainSeg DEF ClientRequest, sendGetLivenessCheck, sendGetReadinessCheck, Send,
    Escaped, Segments
<1>3. ServeHTTP(s.method, s.path).op = op
  BY <1>2, ToStatic DEF Node, RouteHealth, Segments
<1>4. s.path # loginPath /\ s.path # callbackPath
  BY <1>2 DEF loginPath, callbackPath
<1> QED BY <1>1, <1>2, <1>3, <1>4 DEF Arrives, WithParams, Secured

LEMMA LoginArrives ==
  ASSUME NEW p \in Arguments("InitiateLogin")
  PROVE  Arrives("InitiateLogin", p)
<1> DEFINE s == ClientRequest("InitiateLogin", p)
<1>1. p = [redirect_uri |-> p.redirect_uri]
  BY DEF Arguments, ByProject
<1>2. s.path = loginPath /\ s.method = "GET" /\ s.query = Sent(p)
  BY Prefix2, PlainSeg DEF ClientRequest, sendInitiateLogin, Send, Escaped, Segments, loginPath
<1>3. ServeHTTP(s.method, s.path).op = "InitiateLogin"
  <2>1. ServeHTTP(s.method, s.path) = RouteAuth("GET", <<"login">>)
    BY <1>2, ToStatic DEF Segments, loginPath
  <2> QED BY <2>1 DEF Node, RouteAuth
<1>4. Optional(s.query, "redirect_uri") = p.redirect_uri
  BY <1>2 DEF Optional, Sent, NoQuery
<1>5. DecodeParams("InitiateLogin", ServeHTTP(s.method, s.path).args, IsRaw(s.path), s.query) = p
  BY <1>1, <1>4 DEF DecodeParams, decodeInitiateLoginParams
<1>6. s.path # callbackPath
  BY <1>2 DEF loginPath, callbackPath
<1> QED BY <1>1, <1>2, <1>3, <1>4, <1>5, <1>6 DEF Arrives, Secured, WithParams, LoginParams

LEMMA CallbackValues ==
  ASSUME NEW c, NEW st, NEW q, q = [code |-> c, state |-> st]
  PROVE  /\ Required(q, "code") = c /\ Required(q, "state") = st
         /\ QueryParam(q, "code") = c /\ QueryParam(q, "state") = st
<1>1. DOMAIN q = {"code", "state"} /\ q["code"] = c /\ q["state"] = st
  OBVIOUS
<1> QED BY <1>1 DEF Required, QueryParam

LEMMA CallbackArrives ==
  ASSUME NEW p \in Arguments("HandleOAuthCallback")
  PROVE  Arrives("HandleOAuthCallback", p)
<1> DEFINE s == ClientRequest("HandleOAuthCallback", p)
<1>1. p = [code |-> p.code, state |-> p.state]
  BY DEF Arguments, ByProject
<1>2. s.path = callbackPath /\ s.method = "GET" /\ s.query = [code |-> p.code, state |-> p.state]
  BY Prefix2, PlainSeg DEF ClientRequest, sendHandleOAuthCallback, Send, Escaped, Segments,
    callbackPath
<1>3. ServeHTTP(s.method, s.path).op = "HandleOAuthCallback"
  <2>1. ServeHTTP(s.method, s.path) = RouteAuth("GET", <<"callback">>)
    BY <1>2, ToStatic DEF Segments, callbackPath
  <2> QED BY <2>1 DEF Node, RouteAuth
<1>4. /\ Required(s.query, "code") = p.code /\ Required(s.query, "state") = p.state
      /\ QueryParam(s.query, "code") = p.code /\ QueryParam(s.query, "state") = p.state
  BY <1>2, CallbackValues
<1>5. DecodeParams("HandleOAuthCallback", ServeHTTP(s.method, s.path).args, IsRaw(s.path),
                   s.query) = p
  BY <1>1, <1>4 DEF DecodeParams, decodeHandleOAuthCallbackParams
<1>6. s.path # loginPath
  BY <1>2 DEF loginPath, callbackPath
<1> QED BY <1>1, <1>2, <1>3, <1>4, <1>5, <1>6 DEF Arrives, Secured, WithParams, CallbackParams

\* Every call arrives as it was made.
LEMMA AllArrive == \A op \in Operations : \A p \in Arguments(op) : Arrives(op, p)
<1> SUFFICES ASSUME NEW op \in Names, NEW p \in Arguments(op) PROVE Arrives(op, p)
  BY OperationNames
<1> QED
  BY RoleArrives, GroupArrives, PartCreateArrives, PartListArrives, ProjectArrives, CreateArrives,
    ListArrives, SessionArrives, HealthArrives, LoginArrives, CallbackArrives DEF Names

-----------------------------------------------------------------------------
(* Whatever is sent, and what needs no session.                            *)

\* What the router answers when it finds no operation.
Refusals == {NotFound, NotAllowed}

\* The operations each branch may lead to.
LEMMA RouteAuthServes == \A method, rest :
  LET to == RouteAuth(method, rest)
  IN to \in Refusals \/ to.op \in {"HandleOAuthCallback", "InitiateLogin", "Logout",
                                   "GetCurrentUser", "RefreshToken"}
  BY DEF RouteAuth, Node, Refusals

LEMMA RouteHealthServes == \A method, rest :
  LET to == RouteHealth(method, rest)
  IN to \in Refusals \/ to.op \in {"GetLivenessCheck", "GetReadinessCheck"}
  BY DEF RouteHealth, Node, Refusals

LEMMA RouteRolesServes == \A method, project, rest :
  LET to == RouteRoles(method, project, rest)
  IN to \in Refusals \/ to.op \in {"ListRoles", "CreateRole", "GetRole", "UpdateRole"}
  BY DEF RouteRoles, Node, Refusals

LEMMA RouteUserGroupsServes == \A method, project, rest :
  LET to == RouteUserGroups(method, project, rest)
  IN to \in Refusals \/ to.op \in {"ListUserGroups", "CreateUserGroup",
                                   "GetUserGroup", "UpdateUserGroup"}
  BY DEF RouteUserGroups, Node, Refusals

LEMMA RouteProjectsServes == \A method, rest :
  LET to == RouteProjects(method, rest)
  IN to \in Refusals \/ to.op \in Names
<1> TAKE method, rest
<1> DEFINE to == RouteProjects(method, rest)
<1>1. \/ to = Node([GET |-> "ListProjects", POST |-> "CreateProject"], method, <<>>)
      \/ to = Node([GET |-> "GetProject", PUT |-> "UpdateProject"], method, rest)
      \/ to = RouteRoles(method, rest[1], SubSeq(rest, 3, Len(rest)))
      \/ to = RouteUserGroups(method, rest[1], SubSeq(rest, 3, Len(rest)))
      \/ to = NotFound
  BY DEF RouteProjects
<1>2. CASE to = Node([GET |-> "ListProjects", POST |-> "CreateProject"], method, <<>>)
  BY <1>2 DEF Node, Refusals, Names
<1>3. CASE to = Node([GET |-> "GetProject", PUT |-> "UpdateProject"], method, rest)
  BY <1>3 DEF Node, Refusals, Names
<1> QED BY <1>1, <1>2, <1>3, RouteRolesServes, RouteUserGroupsServes DEF Names, Refusals

\* The router leads to an operation or to none.
LEMMA Served == \A method, path :
  LET to == ServeHTTP(method, path) IN to \in Refusals \/ to.op \in Operations
<1> TAKE method, path
<1> DEFINE to == ServeHTTP(method, path)
           rest == SubSeq(Walked(path), 3, Len(Walked(path)))
<1>1. \/ to = NotFound
      \/ to = RouteAuth(method, rest)
      \/ to = RouteHealth(method, rest)
      \/ to = RouteProjects(method, rest)
      \/ to = RouteUsers(method, rest)
  BY DEF ServeHTTP
<1>2. to \in Refusals \/ to.op \in Names
  <2>1. CASE to = RouteUsers(method, rest)
    BY <2>1 DEF RouteUsers, Node, Refusals, Names
  <2>2. CASE to = RouteAuth(method, rest)
    BY <2>2, RouteAuthServes DEF Names
  <2>3. CASE to = RouteHealth(method, rest)
    BY <2>3, RouteHealthServes DEF Names
  <2>4. CASE to = RouteProjects(method, rest)
    BY <2>4, RouteProjectsServes
  <2> QED BY <1>1, <2>1, <2>2, <2>3, <2>4 DEF Refusals
<1> QED BY <1>2, OperationNames

\* A public path with no slash inside a segment is walked as it reads, whatever
\* in it was escaped without need.
LEMMA SpelledOut ==
  ASSUME NEW path \in Paths, NEW p \in publicPaths, Unescaped(path) = p
  PROVE  Walked(path) = p
<1>1. ASSUME NEW i \in DOMAIN path PROVE PathUnescape(path[i]) \in Segments
  <2>1. PathUnescape(path[i]) = p[i] /\ i \in DOMAIN p
    BY DEF Unescaped
  <2> QED BY <2>1 DEF publicPaths, Segments
<1>2. \A i \in DOMAIN path : Normalize(path[i]) = PathUnescape(path[i])
  BY <1>1, NormalizeAssumption
<1>3. [i \in DOMAIN path |-> Normalize(path[i])] = Unescaped(path)
  BY <1>2 DEF Unescaped
<1> QED BY <1>3 DEF Walked

\* A segment with a slash in it is no segment of a route after it is normalized.
LEMMA SlashKept ==
  ASSUME NEW path \in Paths, NEW i \in DOMAIN path, HasSlash(PathUnescape(path[i]))
  PROVE  Walked(path)[i] \notin Segments
<1>1. Walked(path)[i] = Normalize(path[i])
  BY DEF Walked, IsRaw
<1>2. PathUnescape(Normalize(path[i])) = PathUnescape(path[i])
  BY NormalizeAssumption
<1> QED BY <1>1, <1>2, SegmentsAssumption DEF Plain

\* A path that only reads like a public one leads nowhere.
LEMMA Misspelled ==
  ASSUME NEW method, NEW path \in Paths, NEW p \in publicPaths,
         Unescaped(path) \in ReadsLike(p) \ {p}
  PROVE  ServeHTTP(method, path) = NotFound
<1> DEFINE one == <<Slash(p[1], p[2]), p[3]>>
           two == <<p[1], Slash(p[2], p[3])>>
           three == <<Slash(p[1], Slash(p[2], p[3]))>>
           w == Walked(path)
<1>1. p[1] \in Segments /\ p[2] \in Segments /\ p[3] \in Segments
  BY DEF publicPaths, Segments
<1>2. /\ HasSlash(Slash(p[1], p[2])) /\ HasSlash(Slash(p[2], p[3]))
      /\ HasSlash(Slash(p[1], Slash(p[2], p[3])))
  BY <1>1, SlashAssumption
<1>3. CASE Unescaped(path) \in {one, three}
  <2>1. 1 \in DOMAIN path /\ HasSlash(PathUnescape(path[1]))
    BY <1>2, <1>3 DEF Unescaped
  <2>2. w[1] # "v1alpha1"
    BY <2>1, SlashKept DEF Segments
  <2> QED BY <2>2 DEF ServeHTTP
<1>4. CASE Unescaped(path) = two
  <2>1. 2 \in DOMAIN path /\ HasSlash(PathUnescape(path[2]))
    BY <1>2, <1>4 DEF Unescaped
  <2>2. w[2] \notin {"auth", "health", "projects", "users"}
    BY <2>1, SlashKept DEF Segments
  <2> QED BY <2>2 DEF ServeHTTP
<1> QED BY <1>3, <1>4 DEF ReadsLike

\* What the middleware lets pass without a session.
LEMMA PublicServed ==
  ASSUME NEW method, NEW path \in Paths, isPublicPath(path)
  PROVE  LET to == ServeHTTP(method, path) IN to \in Refusals \/ to.op \in PublicOperations
<1>1. PICK p \in publicPaths : Unescaped(path) \in ReadsLike(p)
  BY DEF isPublicPath
<1>2. CASE Unescaped(path) = p
  <2>1. Walked(path) = <<"v1alpha1", p[2], p[3]>>
    BY <1>2, SpelledOut DEF publicPaths
  <2>2. CASE p[2] = "health"
    <3>1. ServeHTTP(method, path) = RouteHealth(method, <<p[3]>>)
      BY <2>1, <2>2, Serve3
    <3> QED BY <3>1, RouteHealthServes DEF PublicOperations
  <2>3. CASE p[2] = "auth" /\ p[3] \in {"login", "callback"}
    <3>1. ServeHTTP(method, path) = RouteAuth(method, <<p[3]>>)
      BY <2>1, <2>3, Serve3
    <3>2. <<p[3]>> = <<"login">> \/ <<p[3]>> = <<"callback">>
      BY <2>3
    <3> QED BY <3>1, <3>2 DEF RouteAuth, Node, Refusals, PublicOperations
  <2> QED BY <2>2, <2>3 DEF publicPaths
<1> QED BY <1>1, <1>2, Misspelled DEF Refusals

-----------------------------------------------------------------------------
(* The inductive invariant.                                                *)

Early == {"cors", "middleware", "routes"}

\* The fields a request has.
Fielded ==
  srv = [pc |-> srv.pc, request |-> srv.request, ctx |-> srv.ctx, op |-> srv.op,
         args |-> srv.args, escaped |-> srv.escaped, step |-> srv.step,
         params |-> srv.params, answer |-> srv.answer]

\* Where the request is, and what there is of a run and of a response by then.
Places ==
  /\ srv = Idle \/ (Fielded /\ srv.pc \in Early \cup {"handler", "answered"})
  /\ srv = Idle => ran = None
  /\ srv.pc \in Early => srv.op = None /\ srv.params = <<>> /\ ran = None
  /\ srv.pc = "handler" /\ ~At("encode") => ran = None
  /\ srv.pc # "answered" => response = None

\* A key that is alive while a request is at the server was alive when the request
\* was sent, and beyond the middleware a path is public or what the key holds is in
\* the context.
Sessions ==
  /\ srv # Idle => srv.request.path \in Paths
  /\ srv # Idle /\ live /\ extractSessionID(srv.request.credential) => srv.request.keyed
  /\ srv.pc \in {"routes", "handler"} =>
       \/ isPublicPath(srv.request.path)
       \/ (srv.ctx /\ srv.request.keyed /\ extractSessionID(srv.request.credential))

Passed(stage) == \E i \in DOMAIN Handlers[srv.op] : i < srv.step /\ Handlers[srv.op][i] = stage

\* What the stages passed so far have found.
Stages ==
  srv.pc = "handler" =>
    /\ LET to == ServeHTTP(srv.request.method, srv.request.path)
       IN  to \notin Refusals /\ srv.op = to.op /\ srv.args = to.args
    /\ srv.escaped = IsRaw(srv.request.path)
    /\ IF Passed("params")
         THEN /\ srv.params = DecodeParams(srv.op, srv.args, srv.escaped, srv.request.query)
              /\ \A f \in DOMAIN srv.params : srv.params[f] # Invalid
         ELSE srv.params = <<>>
    /\ Passed("request") => DecodeRequest(srv.op, srv.request.body) = 0

\* What is to be encoded is what the run returned.
Encoding ==
  At("encode") => /\ \E e \in Encoders[srv.op] : e[1] = srv.answer
                  /\ ran = [op |-> srv.op, params |-> srv.params, answer |-> srv.answer.type]

\* The client's request at the server.
Own ==
  call # None =>
    /\ call = [op |-> call.op, params |-> call.params, keyed |-> call.keyed]
    /\ call.keyed \in BOOLEAN
    /\ srv # Idle =>
         LET s == ClientRequest(call.op, call.params)
         IN  /\ srv.request.method = s.method /\ srv.request.path = s.path
             /\ srv.request.query = s.query
             /\ s.secured /\ call.keyed => extractSessionID(srv.request.credential)

\* The run of the call that ended with answer.
RunOf(answer) == [op |-> call.op, params |-> call.params, answer |-> answer]

\* What no operation answers.
Refused == response.status \notin {204, 302} /\ response.body \in Foreign

\* What the client is answered: a refusal, or what its operation returned.
Answered ==
  call # None /\ srv.pc = "answered" =>
    \/ (ran = None \/ ran = RunOf(Failed)) /\ Refused
    \/ \E e \in Encoders[call.op] :
         ran = RunOf(e[1].type) /\ response = [status |-> e[2], body |-> Body(e[1], {})]
    \/ /\ call.op \in {"InitiateLogin", "HandleOAuthCallback"}
       /\ ran = RunOf("InternalError") /\ response.status = 500

Inv ==
  /\ TypeOK /\ Places /\ Sessions /\ Stages /\ Encoding /\ Own /\ Answered
  /\ OnlyKeyHolders /\ CleanInput /\ SignedInIsServed

LEMMA InitInv == Init => Inv
<1> SUFFICES ASSUME Init PROVE Inv
  OBVIOUS
<1>1. srv.pc = "idle" /\ srv = Idle /\ call = None /\ ran = None /\ response = None /\ result = None
  BY DEF Init, Idle
<1> QED
  BY <1>1 DEF Init, Inv, TypeOK, Places, Sessions, Stages, Encoding, Own, Answered, OnlyKeyHolders,
    CleanInput, SignedInIsServed, At, Early

\* A step that leaves the request and the response alone.
LEMMA SameRequest ==
  ASSUME Inv, UNCHANGED <<call, srv, ran, response>>
  PROVE  (Places /\ Stages /\ Encoding /\ Own /\ Answered /\ OnlyKeyHolders /\ CleanInput)'
<1>1. Places'
  BY DEF Inv, Places, Fielded, At, Idle
<1>2. Stages'
  BY DEF Inv, Stages, Passed
<1>3. Encoding'
  BY DEF Inv, Encoding, At
<1>4. Own'
  BY DEF Inv, Own
<1>5. Answered'
  BY DEF Inv, Answered, RunOf, Refused
<1>6. OnlyKeyHolders' /\ CleanInput'
  BY DEF Inv, OnlyKeyHolders, CleanInput
<1> QED BY <1>1, <1>2, <1>3, <1>4, <1>5, <1>6

LEMMA KeyObtainedInv == Inv /\ KeyObtained => Inv'
<1> SUFFICES ASSUME Inv, KeyObtained PROVE Inv'
  OBVIOUS
<1>1. TypeOK'
  BY DEF Inv, TypeOK, KeyObtained
<1>2. Sessions'
  BY DEF Inv, Sessions, KeyObtained, Idle
<1>3. SignedInIsServed'
  BY DEF Inv, KeyObtained, SignedInIsServed
<1> QED BY <1>1, <1>2, <1>3, SameRequest DEF Inv, KeyObtained

LEMMA KeyEndsInv == Inv /\ KeyEnds => Inv'
<1> SUFFICES ASSUME Inv, KeyEnds PROVE Inv'
  OBVIOUS
<1>1. TypeOK'
  BY DEF Inv, TypeOK, KeyEnds
<1>2. Sessions'
  BY DEF Inv, Sessions, KeyEnds
<1>3. SignedInIsServed'
  BY DEF Inv, KeyEnds, SignedInIsServed
<1> QED BY <1>1, <1>2, <1>3, SameRequest DEF Inv, KeyEnds

\* A step in which only the client gets its result.
LEMMA ResultInv ==
  ASSUME Inv, UNCHANGED <<live, call, srv, ran, response>>,
         call # None, result' \in AnswersOf(call.op) \cup {Failed}
  PROVE  Inv'
<1>1. TypeOK'
  BY DEF Inv, TypeOK
<1>2. Sessions' /\ SignedInIsServed'
  BY DEF Inv, Sessions, SignedInIsServed
<1> QED BY <1>1, <1>2, SameRequest DEF Inv

\* A call is of an operation and has arguments of it.
LEMMA Known == Inv /\ call # None => call.op \in Operations /\ call.params \in Arguments(call.op)
  BY DEF Inv, TypeOK, Calls

LEMMA ReceiveInv == Inv /\ (FollowRedirect \/ Decode \/ ConnectionLost) => Inv'
<1>1. ASSUME Inv, FollowRedirect \/ ConnectionLost PROVE Inv'
  BY <1>1, ResultInv DEF FollowRedirect, ConnectionLost, Waiting
<1>2. ASSUME Inv, Decode PROVE Inv'
  <2>1. call.op \in Operations
    BY <1>2, Known DEF Decode, Waiting
  <2>2. ASSUME NEW d \in Decoders[call.op] PROVE d[2].type \in AnswersOf(call.op)
    <3>1. <<d[2], d[1]>> \in Encoders[call.op]
      BY <2>1, Mirror DEF Mirrored
    <3>2. <<d[2], d[1]>>[1].type = d[2].type
      OBVIOUS
    <3> QED BY <3>1, <3>2 DEF AnswersOf
  <2>3. result' = Failed \/ \E d \in Decoders[call.op] : result' = d[2].type
    BY <1>2 DEF Decode
  <2>4. call # None /\ UNCHANGED <<live, call, srv, ran, response>>
    BY <1>2 DEF Decode, Waiting
  <2> QED BY <1>2, <2>2, <2>3, <2>4, ResultInv
<1> QED BY <1>1, <1>2

LEMMA FinishInv == Inv /\ Finish => Inv'
<1> SUFFICES ASSUME Inv, Finish PROVE Inv'
  OBVIOUS
<1>1. /\ srv'.pc = "idle" /\ srv' = Idle /\ call' = None /\ ran' = None
      /\ response' = None /\ result' = None /\ live' \in BOOLEAN
  BY DEF Finish, Idle, Inv, TypeOK
<1> QED
  BY <1>1 DEF Inv, TypeOK, Places, Sessions, Stages, Encoding, Own, Answered, OnlyKeyHolders,
    CleanInput, SignedInIsServed, At, Early

-----------------------------------------------------------------------------

\* What an answer leaves of a request.
LEMMA Answering ==
  ASSUME Inv, NEW status, NEW body, Answer(status, body), srv # Idle
  PROVE  /\ srv'.pc = "answered" /\ srv' # Idle /\ Fielded'
         /\ srv'.request = srv.request /\ srv'.op = srv.op
         /\ response'.status = status /\ response'.body = body
         /\ response' = [status |-> status, body |-> body]
  BY DEF Answer, Inv, Places, Fielded, Idle

\* An answer keeps the invariant if it is the client's (Answered), and if an
\* operation that ran was allowed to.
LEMMA AnswerInv ==
  ASSUME Inv, NEW status, NEW body, Answer(status, body), srv # Idle,
         UNCHANGED <<call, result>>, live' \in BOOLEAN, live' => live,
         Answered', OnlyKeyHolders', CleanInput', SignedInIsServed'
  PROVE  Inv'
<1>1. /\ srv'.pc = "answered" /\ srv' # Idle /\ Fielded'
      /\ srv'.request = srv.request /\ srv'.op = srv.op
  BY Answering
<1>2. TypeOK'
  BY <1>1 DEF Inv, TypeOK
<1>3. Places'
  BY <1>1 DEF Places, At, Early
<1>4. Sessions'
  BY <1>1 DEF Inv, Sessions
<1>5. Stages' /\ Encoding'
  BY <1>1 DEF Stages, Encoding, At
<1>6. Own'
  BY <1>1 DEF Inv, Own
<1> QED BY <1>2, <1>3, <1>4, <1>5, <1>6 DEF Inv

\* An answer without a run, which the client takes for a failure.
LEMMA RefusalInv ==
  ASSUME Inv, NEW status, NEW body, Answer(status, body), srv # Idle,
         UNCHANGED <<live, call, ran, result>>, ran = None,
         call # None => status \notin {204, 302} /\ body \in Foreign,
         call # None /\ status = 401 /\ call.keyed /\ live => Handlers[call.op][1] # "security"
  PROVE  Inv'
<1>1. response'.status = status /\ response'.body = body
  BY Answering
<1>2. Answered'
  BY <1>1 DEF Answered, Refused
<1>3. OnlyKeyHolders' /\ CleanInput'
  BY DEF OnlyKeyHolders, CleanInput
<1>4. SignedInIsServed'
  BY <1>1 DEF SignedInIsServed
<1>5. live' \in BOOLEAN /\ (live' => live)
  BY DEF Inv, TypeOK
<1> QED BY <1>2, <1>3, <1>4, <1>5, AnswerInv

\* A request that goes on to the next place before the handler.
LEMMA EarlyInv ==
  ASSUME Inv, NEW pc \in {"middleware", "routes"}, NEW ctx, srv.pc \in Early,
         srv' = [srv EXCEPT !.pc = pc, !.ctx = ctx],
         UNCHANGED <<live, call, ran, response, result>>,
         pc = "routes" => \/ isPublicPath(srv.request.path)
                          \/ (ctx /\ srv.request.keyed /\ extractSessionID(srv.request.credential))
  PROVE  Inv'
<1>1. /\ srv # Idle /\ Fielded /\ srv.op = None /\ srv.params = <<>>
      /\ ran = None /\ response = None
  BY DEF Inv, Places, Early, Idle
<1>2. /\ srv'.pc = pc /\ srv' # Idle /\ Fielded' /\ srv'.request = srv.request /\ srv'.op = None
      /\ srv'.params = <<>> /\ srv'.ctx = ctx
  BY <1>1 DEF Fielded, Idle
<1>3. TypeOK'
  BY <1>2 DEF Inv, TypeOK
<1>4. Places'
  BY <1>1, <1>2 DEF Places, Early, At
<1>5. Sessions'
  BY <1>1, <1>2 DEF Inv, Sessions
<1>6. Stages' /\ Encoding' /\ Answered'
  BY <1>2 DEF Stages, Encoding, Answered, At
<1>7. Own'
  BY <1>1, <1>2 DEF Inv, Own
<1>8. OnlyKeyHolders' /\ CleanInput' /\ SignedInIsServed'
  BY <1>1 DEF OnlyKeyHolders, CleanInput, SignedInIsServed
<1> QED BY <1>3, <1>4, <1>5, <1>6, <1>7, <1>8 DEF Inv

-----------------------------------------------------------------------------
(* A request arrives and passes the middlewares.                           *)

\* A call and its run are none of the marks that stand for their absence.
LEMMA Unnamed ==
  ASSUME NEW c \in Calls
  PROVE  /\ c = [op |-> c.op, params |-> c.params]
         /\ c.op \in Operations /\ c.params \in Arguments(c.op)
         /\ \A b \in BOOLEAN : [op |-> c.op, params |-> c.params, keyed |-> b] # None
         /\ \A a \in Answers \cup {Failed} : [op |-> c.op, params |-> c.params, answer |-> a] # None
<1>1. c = [op |-> c.op, params |-> c.params] /\ c.op \in Operations /\ c.params \in Arguments(c.op)
  BY DEF Calls
<1>2. ASSUME NEW b \in BOOLEAN
      PROVE  [op |-> c.op, params |-> c.params, keyed |-> b] # None
  BY NoneAssumption
<1>3. ASSUME NEW a \in Answers \cup {Failed}
      PROVE  [op |-> c.op, params |-> c.params, answer |-> a] # None
  BY NoneAssumption
<1> QED BY <1>1, <1>2, <1>3

\* A request that arrives.
LEMMA ArrivedInv ==
  ASSUME Inv, UNCHANGED live, ran' = None, response' = None,
         NEW method, NEW path \in Paths, NEW query, NEW body, NEW credential,
         srv' = Arrived(Request(method, path, query, body, credential)),
         TypeOK', Own'
  PROVE  Inv'
<1> DEFINE r == Request(method, path, query, body, credential)
<1>2. /\ srv' # Idle /\ Fielded' /\ srv'.pc = "cors" /\ srv'.op = None /\ srv'.params = <<>>
      /\ srv'.request = r
  BY DEF Arrived, Fielded, Idle
<1>3. /\ r.credential = credential /\ r.keyed = (live /\ extractSessionID(credential))
      /\ r.path = path
  BY DEF Request
<1> HIDE DEF r
<1>4. Places'
  BY <1>2 DEF Places, Early, At
<1>5. Sessions'
  BY <1>2, <1>3 DEF Sessions
<1>6. Stages' /\ Encoding' /\ Answered'
  BY <1>2 DEF Stages, Encoding, Answered, At
<1>7. OnlyKeyHolders' /\ CleanInput' /\ SignedInIsServed'
  BY DEF OnlyKeyHolders, CleanInput, SignedInIsServed
<1> QED BY <1>4, <1>5, <1>6, <1>7 DEF Inv

LEMMA InvokeInv ==
  ASSUME Inv, NEW c \in Calls, NEW credential \in ClientCredentials, NEW wrong,
         Invoke(c, credential, wrong)
  PROVE  Inv'
<1> DEFINE s == ClientRequest(c.op, c.params)
           keyed == live /\ extractSessionID(credential)
<1>1. /\ call = None /\ srv = Idle /\ UNCHANGED <<live, ran, response>> /\ result = None
      /\ live \in BOOLEAN /\ ran = None /\ response = None
  BY DEF Invoke, Inv, TypeOK, Places, Idle
<1>2. /\ call' = [op |-> c.op, params |-> c.params, keyed |-> keyed] /\ keyed \in BOOLEAN
      /\ call' # None /\ [op |-> call'.op, params |-> call'.params] \in Calls
  <2>1. call' = [op |-> c.op, params |-> c.params, keyed |-> keyed]
    BY DEF Invoke
  <2>2. keyed \in BOOLEAN
    BY <1>1 DEF extractSessionID
  <2> QED BY <2>1, <2>2, Unnamed
<1>3. CASE s.secured /\ credential = NoCredential
  <2>1. srv' = Idle /\ result' = Failed
    BY <1>1, <1>3 DEF Invoke
  <2>2. TypeOK'
    BY <1>1, <1>2, <2>1 DEF TypeOK, Idle
  <2>3. Own'
    BY <1>2, <2>1 DEF Own
  <2>4. Places' /\ Sessions' /\ Stages' /\ Encoding' /\ Answered'
    BY <1>1, <2>1 DEF Places, Sessions, Stages, Encoding, Answered, At, Early, Idle
  <2> QED
    BY <1>1, <2>2, <2>3, <2>4 DEF Inv, OnlyKeyHolders, CleanInput, SignedInIsServed
<1>4. CASE ~(s.secured /\ credential = NoCredential)
  <2> DEFINE held == IF s.secured THEN credential ELSE NoCredential
             body == Body(s.form, wrong)
             r == Request(s.method, s.path, s.query, body, held)
  <2>1. srv' = Arrived(r) /\ result' = None
    BY <1>1, <1>4 DEF Invoke
  <2>2. /\ srv'.pc = "cors" /\ srv'.request.method = s.method /\ srv'.request.path = s.path
        /\ srv'.request.query = s.query /\ srv'.request.credential = held
    BY <2>1 DEF Arrived, Request
  <2>3. TypeOK'
    BY <1>1, <1>2, <2>1, <2>2 DEF TypeOK
  <2>4. Own'
    BY <1>2, <2>2 DEF Own
  <2>5. s.path \in Paths
    BY DEF Paths
  <2> QED BY <1>1, <2>1, <2>3, <2>4, <2>5, ArrivedInv
<1> QED BY <1>3, <1>4

\* A request that net/http sends again.
LEMMA ResendInv == Inv /\ Resend => Inv'
<1> SUFFICES ASSUME Inv, Resend PROVE Inv'
  OBVIOUS
<1> DEFINE r == srv.request
           again == Request(r.method, r.path, r.query, r.body, r.credential)
<1>1. /\ call # None /\ srv # Idle /\ UNCHANGED <<live, call, result>> /\ result = None
      /\ ran' = None /\ response' = None /\ srv' = Arrived(again)
  BY DEF Resend, Waiting
<1>2. /\ srv'.pc = "cors" /\ srv'.request.method = r.method /\ srv'.request.path = r.path
      /\ srv'.request.query = r.query /\ srv'.request.credential = r.credential
  BY <1>1 DEF Arrived, Request
<1>3. r.path \in Paths
  BY <1>1 DEF Inv, Sessions
<1>4. TypeOK'
  BY <1>1, <1>2 DEF Inv, TypeOK
<1>5. Own'
  BY <1>1, <1>2 DEF Inv, Own
<1> QED BY <1>1, <1>3, <1>4, <1>5, ArrivedInv

LEMMA OtherRequestInv ==
  ASSUME Inv, NEW r \in OtherRequests, NEW credential \in Credentials, OtherRequest(r, credential)
  PROVE  Inv'
<1>1. /\ call = None /\ srv = Idle /\ UNCHANGED <<live, call, ran, response, result>>
      /\ srv' = Arrived(Request(r.method, r.path, r.query, r.body, credential))
  BY DEF OtherRequest
<1>2. srv'.pc = "cors"
  BY <1>1 DEF Arrived
<1>3. TypeOK' /\ Own'
  BY <1>1, <1>2 DEF Inv, TypeOK, Own
<1>4. r.path \in Paths /\ ran' = None /\ response' = None
  BY <1>1 DEF Paths, Inv, Places, Idle
<1> QED BY <1>1, <1>3, <1>4, ArrivedInv

LEMMA CorsInv == Inv /\ Cors => Inv'
<1> SUFFICES ASSUME Inv, Cors PROVE Inv'
  OBVIOUS
<1>1. /\ srv.pc = "cors" /\ srv # Idle /\ ran = None /\ Fielded
      /\ UNCHANGED <<live, call, ran, result>>
  BY DEF Cors, Inv, Places, Early, Idle
<1>2. CASE srv.request.method = "OPTIONS"
  <2>1. Answer(204, NoBody)
    BY <1>2 DEF Cors
  <2>2. call = None
    <3> SUFFICES ASSUME call # None PROVE FALSE
      OBVIOUS
    <3>1. Arrives(call.op, call.params)
      BY Known, AllArrive
    <3> QED BY <1>1, <1>2, <3>1 DEF Inv, Own, Arrives
  <2> QED BY <1>1, <2>1, <2>2, RefusalInv
<1>3. CASE srv.request.method # "OPTIONS"
  <2>1. srv' = [srv EXCEPT !.pc = "middleware"] /\ response' = response
    BY <1>3 DEF Cors
  <2>2. srv' = [srv EXCEPT !.pc = "middleware", !.ctx = srv.ctx]
    BY <1>1, <2>1 DEF Fielded
  <2>3. srv.pc \in Early /\ UNCHANGED <<live, call, ran, response, result>>
    BY <1>1, <2>1 DEF Early
  <2> QED BY <2>2, <2>3, EarlyInv
<1> QED BY <1>2, <1>3

\* A credential that names a session has been sent with every call of a
\* secured operation by a caller who has one.
LEMMA OwnCredential ==
  Inv /\ srv # Idle /\ call # None /\ call.keyed /\ Handlers[call.op][1] = "security"
    => extractSessionID(srv.request.credential)
<1> SUFFICES ASSUME Inv, srv # Idle, call # None, call.keyed, Handlers[call.op][1] = "security"
             PROVE  extractSessionID(srv.request.credential)
  OBVIOUS
<1>1. call.op \in Operations /\ Arrives(call.op, call.params)
  BY Known, AllArrive
<1>2. call.op \in Secured
  <2>1. 1 \in DOMAIN Handlers[call.op]
    BY <1>1, StagesOrdered DEF Ordered
  <2> QED BY <1>1, <2>1, StagesOrdered DEF Ordered
<1> QED BY <1>1, <1>2 DEF Arrives, Inv, Own

LEMMA SessionMiddlewareInv == Inv /\ SessionMiddleware => Inv'
<1> SUFFICES ASSUME Inv, SessionMiddleware PROVE Inv'
  OBVIOUS
<1> DEFINE r == srv.request
<1>1. srv.pc = "middleware" /\ srv # Idle /\ ran = None /\ UNCHANGED <<live, call, ran, result>>
  BY DEF SessionMiddleware, Inv, Places, Early, Idle
<1>2. \/ isPublicPath(r.path) /\ Admit(FALSE)
      \/ ~extractSessionID(r.credential) /\ Answer(401, Message)
      \/ Answer(500, Message)
      \/ extractSessionID(r.credential) /\ live /\ Admit(TRUE)
      \/ ~live /\ Answer(401, Message)
  BY DEF SessionMiddleware
<1>3. CASE isPublicPath(r.path) /\ Admit(FALSE)
  <2>1. /\ srv' = [srv EXCEPT !.pc = "routes", !.ctx = FALSE]
        /\ UNCHANGED <<live, call, ran, response, result>> /\ srv.pc \in Early
    BY <1>1, <1>3 DEF Admit, Early
  <2> QED BY <1>3, <2>1, EarlyInv
<1>4. CASE extractSessionID(r.credential) /\ live /\ Admit(TRUE)
  <2>1. r.keyed
    BY <1>1, <1>4 DEF Inv, Sessions
  <2>2. /\ srv' = [srv EXCEPT !.pc = "routes", !.ctx = TRUE]
        /\ UNCHANGED <<live, call, ran, response, result>> /\ srv.pc \in Early
    BY <1>1, <1>4 DEF Admit, Early
  <2> QED BY <1>4, <2>1, <2>2, EarlyInv
<1>5. CASE Answer(500, Message)
  BY <1>1, <1>5, RefusalInv DEF Foreign
<1>6. CASE (~extractSessionID(r.credential) \/ ~live) /\ Answer(401, Message)
  BY <1>1, <1>6, OwnCredential, RefusalInv DEF Foreign
<1> QED BY <1>2, <1>3, <1>4, <1>5, <1>6

-----------------------------------------------------------------------------
(* The route and the stages.                                               *)

LEMMA RouteInv == Inv /\ Route => Inv'
<1> SUFFICES ASSUME Inv, Route PROVE Inv'
  OBVIOUS
<1> DEFINE r == srv.request
           to == ServeHTTP(r.method, r.path)
<1>1. /\ srv.pc = "routes" /\ srv # Idle /\ ran = None /\ response = None /\ srv.params = <<>>
      /\ Fielded /\ UNCHANGED <<live, call, ran, result>>
  BY DEF Route, Inv, Places, Early, Idle
<1>2. \/ to = NotFound /\ Answer(404, Text)
      \/ to = NotAllowed /\ Answer(405, NoBody)
      \/ /\ to \notin Refusals /\ response' = response
         /\ srv' = [srv EXCEPT !.pc = "handler", !.step = 1, !.op = to.op,
                               !.args = to.args, !.escaped = IsRaw(r.path)]
  BY DEF Route, Refusals
<1>3. CASE Answer(404, Text)
  BY <1>1, <1>3, RefusalInv DEF Foreign
<1>4. CASE Answer(405, NoBody)
  BY <1>1, <1>4, RefusalInv DEF Foreign
<1>5. CASE /\ to \notin Refusals /\ response' = response
           /\ srv' = [srv EXCEPT !.pc = "handler", !.step = 1, !.op = to.op,
                                 !.args = to.args, !.escaped = IsRaw(r.path)]
  <2>1. to.op \in Operations
    BY <1>5, Served
  <2>2. /\ srv' # Idle /\ Fielded' /\ srv'.pc = "handler" /\ srv'.step = 1 /\ srv'.op = to.op
        /\ srv'.args = to.args /\ srv'.escaped = IsRaw(r.path) /\ srv'.request = r
        /\ srv'.params = <<>> /\ srv'.ctx = srv.ctx
    BY <1>1, <1>5 DEF Fielded, Idle
  <2>3. 1 \in DOMAIN Handlers[to.op] /\ Handlers[to.op][1] # "encode"
    BY <2>1, StagesOrdered DEF Ordered
  <2>4. TypeOK'
    BY <1>1, <2>1, <2>2, <2>3 DEF Inv, TypeOK
  <2>5. Places'
    BY <1>1, <1>5, <2>2 DEF Places, Early
  <2>6. Sessions'
    BY <1>1, <2>2 DEF Inv, Sessions
  <2>7. Stages'
    <3>1. \A stage : ~Passed(stage)'
      BY <2>1, <2>2, StagesOrdered DEF Passed, Ordered
    <3> QED BY <1>5, <2>2, <3>1 DEF Stages
  <2>8. Encoding' /\ Answered'
    BY <2>2, <2>3 DEF Encoding, Answered, At
  <2>9. Own'
    BY <1>1, <2>2 DEF Inv, Own
  <2>10. OnlyKeyHolders' /\ CleanInput' /\ SignedInIsServed'
    BY <1>1, <1>5 DEF OnlyKeyHolders, CleanInput, SignedInIsServed
  <2> QED BY <2>4, <2>5, <2>6, <2>7, <2>8, <2>9, <2>10 DEF Inv
<1> QED BY <1>2, <1>3, <1>4, <1>5

\* Of a request at a stage of its handler.
LEMMA AtStage ==
  ASSUME Inv, srv.pc = "handler"
  PROVE  /\ srv # Idle /\ Fielded /\ response = None
         /\ srv.op \in Operations /\ srv.step \in DOMAIN Handlers[srv.op] /\ Ordered(srv.op)
         /\ ~At("encode") => ran = None
  BY StagesOrdered DEF Inv, TypeOK, Places, Early, Idle

\* An operation that is not public has a session.
LEMMA Guarded ==
  ASSUME Inv, srv.pc = "handler", srv.op \notin PublicOperations
  PROVE  srv.ctx /\ srv.request.keyed /\ extractSessionID(srv.request.credential)
<1>0. srv # Idle /\ srv.request.path \in Paths
  BY AtStage DEF Inv, Sessions
<1>1. ~isPublicPath(srv.request.path)
  BY <1>0, PublicServed DEF Inv, Stages
<1> QED BY <1>1 DEF Inv, Sessions

\* Two layers, two ways to find a credential: the first is the stricter one.
LEMMA LayersInv == Inv => LayersAgree
<1> SUFFICES ASSUME Inv, At("security") PROVE Satisfied
  BY DEF LayersAgree
<1>1. srv.op \in Secured
  BY AtStage DEF At, Ordered
<1>2. srv.ctx /\ extractSessionID(srv.request.credential)
  BY <1>1, Guarded DEF At, Secured, PublicOperations
<1> QED
  BY <1>2 DEF Satisfied, securityBearerAuth, securityCookieAuth, findAuthorization,
    extractSessionID

\* A stage that is passed.
LEMMA PassInv ==
  ASSUME Inv, NEW stage \in {"security", "params", "request"}, At(stage), NEW params,
         srv' = [srv EXCEPT !.params = params, !.step = @ + 1],
         UNCHANGED <<live, call, ran, response, result>>,
         IF stage = "params"
           THEN /\ params = DecodeParams(srv.op, srv.args, srv.escaped, srv.request.query)
                /\ \A f \in DOMAIN params : params[f] # Invalid
           ELSE params = srv.params,
         stage = "request" => DecodeRequest(srv.op, srv.request.body) = 0
  PROVE  Inv'
<1> DEFINE h == Handlers[srv.op]
<1>1. srv.pc = "handler" /\ h[srv.step] = stage
  BY DEF At
<1>2. /\ srv # Idle /\ Fielded /\ response = None /\ srv.op \in Operations
      /\ srv.step \in DOMAIN h /\ Ordered(srv.op) /\ ran = None
  BY <1>1, AtStage DEF At
<1>3. /\ srv' # Idle /\ Fielded' /\ srv'.pc = "handler" /\ srv'.step = srv.step + 1
      /\ srv'.params = params /\ srv'.op = srv.op /\ srv'.args = srv.args /\ srv'.ctx = srv.ctx
      /\ srv'.escaped = srv.escaped /\ srv'.request = srv.request
  BY <1>1, <1>2 DEF Fielded, Idle
<1>4. /\ srv.step + 1 \in DOMAIN h /\ h[srv.step + 1] # "encode"
      /\ \A i \in DOMAIN h : i < srv.step + 1 <=> i < srv.step \/ i = srv.step
  <2> DEFINE n == Len(h)
  <2> HIDE DEF n
  <2>1. /\ n \in Nat /\ n > 1 /\ DOMAIN h = 1 .. n
        /\ \A i \in 1 .. n : (h[i] = "encode" <=> i = n) /\ (h[i] = "handler" <=> i = n - 1)
    BY <1>2 DEF Ordered, n
  <2>2. srv.step \in 1 .. n /\ srv.step # n /\ srv.step # n - 1
    BY <1>1, <1>2, <2>1
  <2>3. srv.step + 1 \in 1 .. n /\ srv.step + 1 # n
    BY <2>1, <2>2
  <2> QED BY <2>1, <2>2, <2>3
<1>5. \A st : Passed(st)' <=> Passed(st) \/ st = stage
  BY <1>1, <1>2, <1>3, <1>4 DEF Passed
<1>6. TypeOK'
  BY <1>2, <1>3, <1>4 DEF Inv, TypeOK
<1>7. Places'
  BY <1>2, <1>3 DEF Places, Early
<1>8. Sessions'
  BY <1>1, <1>2, <1>3 DEF Inv, Sessions
<1>9. Stages'
  <2> DEFINE dp == DecodeParams(srv.op, srv.args, srv.escaped, srv.request.query)
  <2> HIDE DEF dp
  <2>1. /\ srv.op = ServeHTTP(srv.request.method, srv.request.path).op
        /\ srv.args = ServeHTTP(srv.request.method, srv.request.path).args
        /\ ServeHTTP(srv.request.method, srv.request.path) \notin Refusals
        /\ srv.escaped = IsRaw(srv.request.path)
        /\ IF Passed("params")
             THEN srv.params = dp /\ \A f \in DOMAIN srv.params : srv.params[f] # Invalid
             ELSE srv.params = <<>>
        /\ Passed("request") => DecodeRequest(srv.op, srv.request.body) = 0
    BY <1>1 DEF Inv, Stages, dp
  <2>2. IF Passed("params")' THEN params = dp /\ \A f \in DOMAIN params : params[f] # Invalid
                             ELSE params = <<>>
    BY <1>5, <2>1 DEF dp
  <2>3. Passed("request")' => DecodeRequest(srv.op, srv.request.body) = 0
    BY <1>5, <2>1
  <2> QED BY <1>3, <2>1, <2>2, <2>3 DEF Stages, dp
<1>10. Encoding' /\ Answered'
  BY <1>3, <1>4 DEF Encoding, Answered, At
<1>11. Own'
  BY <1>2, <1>3 DEF Inv, Own
<1>12. OnlyKeyHolders' /\ CleanInput' /\ SignedInIsServed'
  BY <1>2 DEF OnlyKeyHolders, CleanInput, SignedInIsServed
<1> QED BY <1>6, <1>7, <1>8, <1>9, <1>10, <1>11, <1>12 DEF Inv

\* A stage that only looks.
LEMMA GoesOnInv ==
  ASSUME Inv, NEW stage \in {"security", "request"}, At(stage), GoOn,
         UNCHANGED <<live, call, ran, result>>,
         stage = "request" => DecodeRequest(srv.op, srv.request.body) = 0
  PROVE  Inv'
<1>1. Fielded
  BY AtStage DEF At
<1>2. srv' = [srv EXCEPT !.params = srv.params, !.step = @ + 1]
  BY <1>1 DEF Fielded, GoOn
<1>3. UNCHANGED <<live, call, ran, response, result>>
  BY DEF GoOn
<1> QED BY <1>2, <1>3, PassInv

LEMMA SecurityInv == Inv /\ Security => Inv'
<1> SUFFICES ASSUME Inv, Security PROVE Inv'
  OBVIOUS
<1>1. At("security") /\ Satisfied /\ GoOn /\ UNCHANGED <<live, call, ran, result>>
  BY LayersInv DEF Security, LayersAgree
<1> QED BY <1>1, GoesOnInv

LEMMA ParamsInv == Inv /\ Params => Inv'
<1> SUFFICES ASSUME Inv, Params PROVE Inv'
  OBVIOUS
<1> DEFINE p == DecodeParams(srv.op, srv.args, srv.escaped, srv.request.query)
<1> HIDE DEF p
<1>1. At("params") /\ srv.pc = "handler" /\ UNCHANGED <<live, call, ran, result>>
  BY DEF Params, At
<1>2. srv # Idle /\ ran = None
  BY <1>1, AtStage DEF At
<1>3. CASE \E f \in DOMAIN p : p[f] = Invalid
  <2>1. Answer(400, ErrorMessage)
    BY <1>3 DEF Params, p
  <2> QED BY <1>1, <1>2, <2>1, RefusalInv DEF Foreign
<1>4. CASE \A f \in DOMAIN p : p[f] # Invalid
  <2>1. srv' = [srv EXCEPT !.params = p, !.step = @ + 1] /\ response' = response
    BY <1>4 DEF Params, p
  <2>2. UNCHANGED <<live, call, ran, response, result>>
    BY <1>1, <2>1
  <2> QED BY <1>1, <1>4, <2>1, <2>2, PassInv DEF p
<1> QED BY <1>3, <1>4

LEMMA RequestBodyInv == Inv /\ RequestBody => Inv'
<1> SUFFICES ASSUME Inv, RequestBody PROVE Inv'
  OBVIOUS
<1> DEFINE status == DecodeRequest(srv.op, srv.request.body)
<1>1. At("request") /\ srv.pc = "handler" /\ UNCHANGED <<live, call, ran, result>>
  BY DEF RequestBody, At
<1>2. srv # Idle /\ ran = None /\ srv.op \in WithBody
  BY <1>1, AtStage DEF At, Ordered
<1>3. CASE status = 0
  BY <1>1, <1>3, GoesOnInv DEF RequestBody
<1>4. CASE status # 0
  <2>1. Answer(status, ErrorMessage)
    BY <1>4 DEF RequestBody
  <2>2. status \in {0, 400, 415}
    BY <1>2 DEF WithBody, DecodeRequest, DecodeBody, decodeCreateProjectRequest,
      decodeCreateRoleRequest, decodeCreateUserRequest, decodeCreateUserGroupRequest,
      decodeUpdateProjectRequest, decodeUpdateRoleRequest, decodeUpdateUserGroupRequest
  <2> QED BY <1>1, <1>2, <2>1, <2>2, RefusalInv DEF Foreign
<1> QED BY <1>3, <1>4

-----------------------------------------------------------------------------
(* The operation runs.                                                     *)

LEMMA BodyDecodes ==
  ASSUME NEW form, NEW body, DecodeBody(form, body) = 0
  PROVE  Decodes(form, body)
  BY DEF DecodeBody

\* The form that is decoded is the one that is sent.
LEMMA SameForm ==
  ASSUME NEW op \in WithBody, NEW p, NEW body, DecodeRequest(op, body) = 0
  PROVE  Decodes(ClientRequest(op, p).form, body)
<1>1. \E form : form = ClientRequest(op, p).form /\ DecodeRequest(op, body) = DecodeBody(form, body)
  BY DEF WithBody, DecodeRequest, ClientRequest, Send,
    sendCreateProject, sendCreateRole, sendCreateUser, sendCreateUserGroup, sendUpdateProject,
    sendUpdateRole, sendUpdateUserGroup, decodeCreateProjectRequest,
    decodeCreateRoleRequest, decodeCreateUserRequest, decodeCreateUserGroupRequest,
    decodeUpdateProjectRequest, decodeUpdateRoleRequest, decodeUpdateUserGroupRequest
<1> QED BY <1>1, BodyDecodes

\* An operation without a body refuses none.
LEMMA NoFormSent ==
  ASSUME NEW op \in Names \ WithBody, NEW p, NEW body
  PROVE  Decodes(ClientRequest(op, p).form, body)
<1>1. ClientRequest(op, p).form = NoForm
  BY DEF Names, WithBody, ClientRequest, Send, sendGetCurrentUser, sendGetLivenessCheck,
    sendGetProject, sendGetReadinessCheck, sendGetRole, sendGetUserGroup, sendHandleOAuthCallback,
    sendInitiateLogin, sendListProjects, sendListRoles, sendListUserGroups, sendListUsers,
    sendLogout, sendRefreshToken
<1>2. ~NoForm.json
  BY DEF NoForm, Bare
<1> QED BY <1>1, <1>2 DEF Decodes

\* All stages before the operation have been passed when it runs.
LEMMA AllPassed ==
  ASSUME Inv, At("handler") \/ At("encode")
  PROVE  /\ srv.op \in WithParams <=> Passed("params")
         /\ srv.op \in WithBody => Passed("request")
<1> DEFINE h == Handlers[srv.op]
           n == Len(h)
<1>1. srv.pc = "handler" /\ h[srv.step] \in {"handler", "encode"}
  BY DEF At
<1>2. srv.step \in DOMAIN h /\ Ordered(srv.op)
  BY <1>1, AtStage
<1> HIDE DEF n
<1>3. /\ n \in Nat /\ DOMAIN h = 1 .. n
      /\ \A i \in 1 .. n : (h[i] = "encode" <=> i = n) /\ (h[i] = "handler" <=> i = n - 1)
  BY <1>2 DEF Ordered, n
<1>4. \A i \in 1 .. n : h[i] \in {"params", "request"} => i < srv.step
  <2> SUFFICES ASSUME NEW i \in 1 .. n, h[i] \in {"params", "request"} PROVE i < srv.step
    OBVIOUS
  <2>1. i # n /\ i # n - 1
    BY <1>3
  <2>2. srv.step = n \/ srv.step = n - 1
    BY <1>1, <1>2, <1>3
  <2> QED BY <1>3, <2>1, <2>2
<1> QED BY <1>2, <1>3, <1>4 DEF Ordered, Passed

\* What runs for a call of the client is what was called.
LEMMA OwnRun ==
  ASSUME Inv, At("handler") \/ At("encode"), call # None
  PROVE  srv.op = call.op /\ srv.params = call.params
<1> DEFINE s == ClientRequest(call.op, call.params)
           to == ServeHTTP(s.method, s.path)
           q == DecodeParams(call.op, to.args, IsRaw(s.path), s.query)
<1>1. srv.pc = "handler" /\ srv # Idle
  BY AtStage DEF At
<1>2. Arrives(call.op, call.params)
  BY Known, AllArrive
<1>3. /\ srv.op = to.op /\ srv.args = to.args /\ srv.escaped = IsRaw(s.path)
      /\ srv.request.query = s.query
  BY <1>1 DEF Inv, Stages, Own
<1>4. srv.op = call.op
  BY <1>2, <1>3 DEF Arrives
<1>5. CASE Passed("params")
  <2>1. srv.params = q /\ \A f \in DOMAIN q : q[f] # Invalid
    BY <1>1, <1>3, <1>4, <1>5 DEF Inv, Stages
  <2> QED BY <1>2, <1>4, <1>5, <2>1, AllPassed DEF Arrives
<1>6. CASE ~Passed("params")
  <2>1. srv.params = <<>>
    BY <1>1, <1>6 DEF Inv, Stages
  <2> QED BY <1>2, <1>4, <1>6, <2>1, AllPassed DEF Arrives
<1> QED BY <1>5, <1>6

\* An operation that is run may run, and what it gets is clean.
LEMMA RunAllowed ==
  ASSUME Inv, At("handler"), NEW answer, Ran(answer), srv'.request = srv.request
  PROVE  OnlyKeyHolders' /\ CleanInput'
<1>1. srv.pc = "handler" /\ srv.op \in Operations
  BY AtStage DEF At
<1>2. ran'.op = srv.op /\ ran'.params = srv.params
  BY DEF Ran
<1>3. srv.op \notin PublicOperations => srv.request.keyed
  BY <1>1, Guarded
<1>4. \A f \in DOMAIN srv.params : srv.params[f] # Invalid
  BY <1>1 DEF Inv, Stages
<1>5. Decodes(ClientRequest(srv.op, srv.params).form, srv.request.body)
  <2>1. CASE srv.op \in WithBody
    <3>1. DecodeRequest(srv.op, srv.request.body) = 0
      BY <1>1, <2>1, AllPassed DEF Inv, Stages
    <3> QED BY <2>1, <3>1, SameForm
  <2> QED BY <1>1, <2>1, NoFormSent, OperationNames
<1> QED BY <1>2, <1>3, <1>4, <1>5 DEF OnlyKeyHolders, CleanInput

LEMMA Lives == Inv => live \in BOOLEAN
  BY DEF Inv, TypeOK

LEMMA HandleInv == Inv /\ Handle => Inv'
<1> SUFFICES ASSUME Inv, Handle PROVE Inv'
  OBVIOUS
<1> DEFINE h == Handlers[srv.op]
<1>1. At("handler") /\ srv.pc = "handler" /\ UNCHANGED <<call, result>>
  BY DEF Handle, At
<1>2. live' \in BOOLEAN /\ (live' => live)
  BY Lives DEF Handle
<1>3. /\ srv # Idle /\ Fielded /\ response = None /\ srv.op \in Operations
      /\ srv.step \in DOMAIN h /\ Ordered(srv.op) /\ ran = None
  BY <1>1, AtStage DEF At
<1>4. CASE Ran(Failed) /\ Answer(500, ErrorMessage)
  <2>1. OnlyKeyHolders' /\ CleanInput'
    BY <1>1, <1>3, <1>4, Answering, RunAllowed
  <2>2. response'.status = 500 /\ response'.body = ErrorMessage
    BY <1>3, <1>4, Answering
  <2>3. call # None => ran' = RunOf(Failed)'
    BY <1>1, <1>4, OwnRun DEF Ran, RunOf
  <2>4. Answered'
    BY <1>1, <2>2, <2>3 DEF Answered, Refused, Foreign
  <2>5. SignedInIsServed'
    BY <2>2 DEF SignedInIsServed
  <2> QED BY <1>1, <1>2, <1>3, <1>4, <2>1, <2>4, <2>5, AnswerInv
<1>5. ASSUME NEW e \in Encoders[srv.op], Ran(e[1].type), response' = response,
             srv' = [srv EXCEPT !.step = @ + 1, !.answer = e[1]]
      PROVE  Inv'
  <2>1. /\ srv' # Idle /\ Fielded' /\ srv'.pc = "handler" /\ srv'.step = srv.step + 1
        /\ srv'.params = srv.params /\ srv'.op = srv.op /\ srv'.args = srv.args
        /\ srv'.ctx = srv.ctx /\ srv'.escaped = srv.escaped /\ srv'.request = srv.request
        /\ srv'.answer = e[1]
    BY <1>1, <1>3, <1>5 DEF Fielded, Idle
  <2>2. /\ h[srv.step] = "handler" /\ srv.step + 1 \in DOMAIN h /\ h[srv.step + 1] = "encode"
        /\ \A i \in DOMAIN h : i < srv.step + 1 <=> i < srv.step \/ i = srv.step
    <3> DEFINE n == Len(h)
    <3> HIDE DEF n
    <3>1. /\ n \in Nat /\ n > 1 /\ DOMAIN h = 1 .. n
          /\ \A i \in 1 .. n : (h[i] = "encode" <=> i = n) /\ (h[i] = "handler" <=> i = n - 1)
      BY <1>3 DEF Ordered, n
    <3>2. h[srv.step] = "handler" /\ srv.step = n - 1
      BY <1>1, <1>3, <3>1 DEF At
    <3> QED BY <3>1, <3>2
  <2>3. TypeOK'
    BY <1>1, <1>2, <1>3, <2>1, <2>2 DEF Inv, TypeOK
  <2>4. Places'
    BY <1>3, <1>5, <2>1, <2>2 DEF Places, Early, At
  <2>5. Sessions'
    BY <1>1, <1>2, <1>3, <2>1 DEF Inv, Sessions
  <2>6. Stages'
    <3>1. (Passed("params")' <=> Passed("params")) /\ (Passed("request")' <=> Passed("request"))
      BY <2>1, <2>2 DEF Passed
    <3> QED BY <1>1, <2>1, <3>1 DEF Inv, Stages
  <2>7. Encoding'
    BY <1>5, <2>1 DEF Encoding, Ran
  <2>8. Answered' /\ SignedInIsServed'
    BY <1>3, <1>5, <2>1 DEF Answered, SignedInIsServed
  <2>9. Own'
    BY <1>1, <1>3, <2>1 DEF Inv, Own
  <2>10. OnlyKeyHolders' /\ CleanInput'
    BY <1>1, <1>5, <2>1, RunAllowed
  <2> QED BY <2>3, <2>4, <2>5, <2>6, <2>7, <2>8, <2>9, <2>10 DEF Inv
<1> QED BY <1>4, <1>5 DEF Handle

LEMMA EncodeInv == Inv /\ Encode => Inv'
<1> SUFFICES ASSUME Inv, Encode PROVE Inv'
  OBVIOUS
<1>1. At("encode") /\ srv.pc = "handler" /\ UNCHANGED <<live, call, ran, result>>
  BY DEF Encode, At
<1>2. PICK e \in Encoders[srv.op] : e[1] = srv.answer /\ Answer(e[2], Body(e[1], {}))
  BY DEF Encode
<1>3. srv # Idle /\ srv.op \in Operations
  BY <1>1, AtStage
<1>4. /\ srv'.request = srv.request /\ srv'.op = srv.op
      /\ response' = [status |-> e[2], body |-> Body(e[1], {})]
  BY <1>2, <1>3, Answering
<1>5. ran = [op |-> srv.op, params |-> srv.params, answer |-> e[1].type]
  BY <1>1, <1>2 DEF Inv, Encoding
<1>6. call # None => ran = RunOf(e[1].type) /\ e \in Encoders[call.op] /\ ran # None
  <2> SUFFICES ASSUME call # None
               PROVE  ran = RunOf(e[1].type) /\ e \in Encoders[call.op] /\ ran # None
    OBVIOUS
  <2>1. srv.op = call.op /\ srv.params = call.params
    BY <1>1, OwnRun
  <2>2. e[1].type \in Answers
    <3>1. e[1].type \in AnswersOf(srv.op)
      BY DEF AnswersOf
    <3>2. AnswersOf(srv.op) \in {AnswersOf(op) : op \in Operations}
      BY <1>3
    <3> QED BY <3>1, <3>2 DEF Answers
  <2>3. [op |-> call.op, params |-> call.params] \in Calls
    BY DEF Inv, TypeOK
  <2>4. [op |-> call.op, params |-> call.params, answer |-> e[1].type] # None
    BY <2>2, <2>3, Unnamed
  <2> QED BY <1>5, <2>1, <2>4 DEF RunOf
<1>7. Answered'
  BY <1>1, <1>4, <1>6 DEF Answered, RunOf
<1>8. SignedInIsServed'
  BY <1>1, <1>6 DEF SignedInIsServed
<1>9. OnlyKeyHolders' /\ CleanInput'
  BY <1>1, <1>4 DEF Inv, OnlyKeyHolders, CleanInput
<1> QED BY <1>1, <1>2, <1>3, <1>7, <1>8, <1>9, Lives, AnswerInv

-----------------------------------------------------------------------------
(* Echo's own handlers.                                                    *)

\* What Echo's own two handlers answer: what the generated one would, or an error.
Declared(op, type, status, body) ==
  \/ \E e \in Encoders[op] : e[1].type = type /\ e[2] = status /\ Body(e[1], {}) = body
  \/ type = "InternalError" /\ status = 500

EchoRan(op, params) ==
  \E type, status, body :
    /\ ran' = [op |-> op, params |-> params, answer |-> type]
    /\ Answer(status, body) /\ Declared(op, type, status, body)

\* Echo's handlers run the operation and answer it.
LEMMA LoginRan == createLoginHandler => EchoRan("InitiateLogin", LoginParams(srv.request.query))
<1> DEFINE p == LoginParams(srv.request.query)
<1>1. EchoAnswer("InitiateLogin", p, InitiateLoginFound, 302) => EchoRan("InitiateLogin", p)
  <2>1. Declared("InitiateLogin", InitiateLoginFound.type, 302, Body(InitiateLoginFound, {}))
    BY DEF Declared, Encoders, encodeInitiateLoginResponse
  <2> QED BY <2>1 DEF EchoAnswer, EchoRan
<1>2. EchoAnswer("InitiateLogin", p, As("InternalError"), 500) => EchoRan("InitiateLogin", p)
  <2>1. Declared("InitiateLogin", As("InternalError").type, 500, Body(As("InternalError"), {}))
    BY DEF Declared, As, ErrorResponse, Form
  <2> QED BY <2>1 DEF EchoAnswer, EchoRan
<1> SUFFICES ASSUME createLoginHandler PROVE EchoRan("InitiateLogin", p)
  OBVIOUS
<1>3. PICK a \in {<<InitiateLoginFound, 302>>, <<As("InternalError"), 500>>} :
        EchoAnswer("InitiateLogin", p, a[1], a[2])
  BY DEF createLoginHandler, LoginParams
<1>4. CASE a = <<InitiateLoginFound, 302>>
  BY <1>1, <1>3, <1>4
<1>5. CASE a = <<As("InternalError"), 500>>
  BY <1>2, <1>3, <1>5
<1> QED BY <1>3, <1>4, <1>5

LEMMA CallbackRan ==
  createCallbackHandler => EchoRan("HandleOAuthCallback", CallbackParams(srv.request.query))
<1> DEFINE op == "HandleOAuthCallback"
           p == CallbackParams(srv.request.query)
<1>1. ASSUME NEW form, NEW status, Declared(op, form.type, status, Body(form, {})),
             EchoAnswer(op, p, form, status)
      PROVE  EchoRan(op, p)
  BY <1>1 DEF EchoAnswer, EchoRan
<1>2. /\ \A e \in Encoders[op] : Declared(op, e[1].type, e[2], Body(e[1], {}))
      /\ Declared(op, As("InternalError").type, 500, Body(As("InternalError"), {}))
  BY DEF Declared, As, ErrorResponse, Form
<1>3. Encoders[op] = {<<HandleOAuthCallbackFound, 302>>, <<HandleOAuthCallbackBadRequest, 400>>,
                      <<HandleOAuthCallbackUnauthorized, 401>>}
  BY DEF Encoders, encodeHandleOAuthCallbackResponse
<1> SUFFICES ASSUME createCallbackHandler PROVE EchoRan(op, p)
  OBVIOUS
<1>4. PICK a \in IF p.code = "" \/ p.state = "" THEN {<<HandleOAuthCallbackBadRequest, 400>>}
                 ELSE {<<HandleOAuthCallbackFound, 302>>, <<HandleOAuthCallbackUnauthorized, 401>>,
                       <<As("InternalError"), 500>>} :
        EchoAnswer(op, p, a[1], a[2])
  BY DEF createCallbackHandler, CallbackParams
<1>5. CASE a \in Encoders[op]
  BY <1>1, <1>2, <1>4, <1>5
<1>6. CASE a = <<As("InternalError"), 500>>
  BY <1>1, <1>2, <1>4, <1>6
<1>7. a \in Encoders[op] \/ a = <<As("InternalError"), 500>>
  BY <1>3, <1>4, ZenonT(30)
<1> QED BY <1>5, <1>6, <1>7

\* Such an answer keeps the invariant.
LEMMA EchoInv ==
  ASSUME Inv, srv.pc = "routes", NEW op \in {"InitiateLogin", "HandleOAuthCallback"},
         NEW params, EchoRan(op, params), UNCHANGED <<live, call, result>>,
         call # None => call.op = op /\ call.params = params
  PROVE  Inv'
<1>0. PICK type, status, body :
        /\ ran' = [op |-> op, params |-> params, answer |-> type]
        /\ Answer(status, body) /\ Declared(op, type, status, body)
  BY DEF EchoRan
<1>1. srv # Idle /\ srv.op = None
  BY DEF Inv, Places, Early, Idle
<1>2. srv'.op = None /\ response' = [status |-> status, body |-> body]
  BY <1>0, <1>1, Answering
<1>3. call' # None => call'.op = op /\ ran' = RunOf(type)'
  BY <1>0 DEF RunOf
<1>4. Answered'
  <2>1. CASE type = "InternalError" /\ status = 500
    BY <1>2, <1>3, <2>1 DEF Answered
  <2>2. ASSUME NEW e \in Encoders[op], e[1].type = type, e[2] = status, Body(e[1], {}) = body
        PROVE  Answered'
    BY <1>2, <1>3, <2>2 DEF Answered
  <2> QED BY <1>0, <2>1, <2>2 DEF Declared
<1>5. OnlyKeyHolders' /\ CleanInput'
  BY <1>0, <1>2 DEF OnlyKeyHolders, CleanInput, PublicOperations
<1>6. SignedInIsServed'
  <2>1. Handlers[op][1] # "security"
    BY DEF Handlers, handleInitiateLoginRequest, handleHandleOAuthCallbackRequest
  <2> QED BY <1>3, <2>1 DEF SignedInIsServed
<1>7. live' \in BOOLEAN /\ (live' => live)
  BY Lives
<1> QED BY <1>0, <1>1, <1>4, <1>5, <1>6, <1>7, AnswerInv

\* A call whose path is Echo's own is the call of its operation.
LEMMA EchoOwn ==
  ASSUME Inv, srv.pc = "routes", call # None
  PROVE  /\ srv.request.path = loginPath
              => /\ call.op = "InitiateLogin"
                 /\ call.params = LoginParams(srv.request.query)
         /\ srv.request.path = callbackPath
              => /\ call.op = "HandleOAuthCallback"
                 /\ call.params = CallbackParams(srv.request.query)
<1>1. srv # Idle
  BY DEF Idle
<1>2. Arrives(call.op, call.params)
  BY Known, AllArrive
<1> QED BY <1>1, <1>2 DEF Arrives, Inv, Own

LEMMA LoginInv == Inv /\ createLoginHandler => Inv'
<1> SUFFICES ASSUME Inv, createLoginHandler PROVE Inv'
  OBVIOUS
<1>1. srv.pc = "routes" /\ srv.request.path = loginPath /\ UNCHANGED <<live, call, result>>
  BY DEF createLoginHandler
<1> QED BY <1>1, LoginRan, EchoOwn, EchoInv

LEMMA CallbackInv == Inv /\ createCallbackHandler => Inv'
<1> SUFFICES ASSUME Inv, createCallbackHandler PROVE Inv'
  OBVIOUS
<1>1. srv.pc = "routes" /\ srv.request.path = callbackPath /\ UNCHANGED <<live, call, result>>
  BY DEF createCallbackHandler
<1> QED BY <1>1, CallbackRan, EchoOwn, EchoInv

LEMMA StutterInv == Inv /\ UNCHANGED vars => Inv'
<1> SUFFICES ASSUME Inv, UNCHANGED vars PROVE Inv'
  OBVIOUS
<1>1. TypeOK' /\ Sessions' /\ SignedInIsServed'
  BY DEF Inv, TypeOK, Sessions, SignedInIsServed, vars
<1> QED BY <1>1, SameRequest DEF Inv, vars

\* Inv is inductive.
LEMMA NextInv == Inv /\ [Next]_vars => Inv'
  BY KeyObtainedInv, KeyEndsInv, InvokeInv, OtherRequestInv, CorsInv, SessionMiddlewareInv,
    LoginInv, CallbackInv, RouteInv, SecurityInv, ParamsInv, RequestBodyInv, HandleInv, EncodeInv,
    ReceiveInv, ResendInv, FinishInv, StutterInv
    DEF Next

-----------------------------------------------------------------------------
(* What holds in every behaviour.                                          *)

\* Inv holds in every state the server and its client reach.
THEOREM AlwaysInv == Spec => []Inv
  BY InitInv, NextInv, PTL DEF Spec

\* The variables have their types: a request is at a place of the server, an
\* operation at one of its stages, and a result is one its operation declares.
THEOREM ApiTypes == Spec => []TypeOK
<1>1. Inv => TypeOK
  BY DEF Inv
<1> QED BY <1>1, AlwaysInv, PTL

\* An operation other than the four public ones runs only for a request that named
\* a key, of a session or of a sign-in begun, that was alive when the request was
\* sent, whatever path it spells.
THEOREM OnlyKeyHoldersRun == Spec => []OnlyKeyHolders
<1>1. Inv => OnlyKeyHolders
  BY DEF Inv
<1> QED BY <1>1, AlwaysInv, PTL

\* Whom the middleware let through with a session, the security stage of the
\* generated handler lets through too.
THEOREM LayersAlwaysAgree == Spec => []LayersAgree
  BY LayersInv, AlwaysInv, PTL

\* No operation of the generated server runs on a parameter or a body that its
\* decoder refuses.
THEOREM InputClean == Spec => []CleanInput
<1>1. Inv => CleanInput
  BY DEF Inv
<1> QED BY <1>1, AlwaysInv, PTL

\* A caller whose key is alive all along is never answered 401 by an operation
\* whose handler has a security stage.
THEOREM SignedServed == Spec => []SignedInIsServed
<1>1. Inv => SignedInIsServed
  BY DEF Inv
<1> QED BY <1>1, AlwaysInv, PTL

-----------------------------------------------------------------------------

\* An error of Echo's own handlers is no answer of theirs and has no decoder.
EchoOperations == {"InitiateLogin", "HandleOAuthCallback"}

LEMMA EchoErrors ==
  /\ \A op \in EchoOperations : "InternalError" \notin AnswersOf(op)
  /\ \A op \in EchoOperations : 500 \notin {d[1] : d \in Decoders[op]}
<1>1. /\ InitiateLoginFound.type = "InitiateLoginFound"
      /\ ErrorResponse.type = "ErrorResponse"
      /\ HandleOAuthCallbackFound.type = "HandleOAuthCallbackFound"
      /\ HandleOAuthCallbackBadRequest.type = "HandleOAuthCallbackBadRequest"
      /\ HandleOAuthCallbackUnauthorized.type = "HandleOAuthCallbackUnauthorized"
  BY DEF InitiateLoginFound, ErrorResponse, HandleOAuthCallbackFound,
    HandleOAuthCallbackBadRequest,
    HandleOAuthCallbackUnauthorized, As, Bare, Form
<1>2. /\ Encoders["InitiateLogin"] = encodeInitiateLoginResponse
      /\ Decoders["InitiateLogin"] = decodeInitiateLoginResponse
      /\ Encoders["HandleOAuthCallback"] = encodeHandleOAuthCallbackResponse
      /\ Decoders["HandleOAuthCallback"] = decodeHandleOAuthCallbackResponse
  BY DEF Encoders, Decoders
<1>3. /\ AnswersOf("InitiateLogin") = {"InitiateLoginFound", "ErrorResponse"}
      /\ AnswersOf("HandleOAuthCallback") =
           {"HandleOAuthCallbackFound", "HandleOAuthCallbackBadRequest",
            "HandleOAuthCallbackUnauthorized"}
  BY <1>1, <1>2
    DEF AnswersOf, encodeInitiateLoginResponse, encodeHandleOAuthCallbackResponse
<1>4. /\ {d[1] : d \in Decoders["InitiateLogin"]} = {302, 400}
      /\ {d[1] : d \in Decoders["HandleOAuthCallback"]} = {302, 400, 401}
  BY <1>2 DEF decodeInitiateLoginResponse, decodeHandleOAuthCallbackResponse
<1>5. \A op \in EchoOperations : "InternalError" \notin AnswersOf(op)
  BY <1>3 DEF EchoOperations
<1>6. \A op \in EchoOperations : 500 \notin {d[1] : d \in Decoders[op]}
  BY <1>4 DEF EchoOperations
<1> QED BY <1>5, <1>6

\* The response decodes with d.
Decodable(d) == d[1] = response.status /\ Decodes(d[2], response.body)

\* What decodes is what the operation returned.
LEMMA DecodedRan ==
  ASSUME Inv, call # None, response # None, response.status # 302,
         NEW d \in Decoders[call.op], Decodable(d)
  PROVE  ran = RunOf(d[2].type) /\ d[2].type \in AnswersOf(call.op)
<1>1. call.op \in Operations /\ Mirrored(call.op) /\ srv.pc = "answered"
  BY Known, Mirror DEF Inv, Places
<1>2. ~Refused
  BY <1>1 DEF Refused, Refuses, Mirrored, Decodable
<1>3. ~(call.op \in {"InitiateLogin", "HandleOAuthCallback"} /\ response.status = 500)
  <2> SUFFICES ASSUME call.op \in EchoOperations PROVE response.status # 500
    BY DEF EchoOperations
  <2>1. 500 \notin {c[1] : c \in Decoders[call.op]}
    BY EchoErrors
  <2>2. d[1] \in {c[1] : c \in Decoders[call.op]}
    OBVIOUS
  <2> QED BY <2>1, <2>2 DEF Decodable
<1>4. PICK e \in Encoders[call.op] :
        ran = RunOf(e[1].type) /\ response = [status |-> e[2], body |-> Body(e[1], {})]
  BY <1>1, <1>2, <1>3 DEF Inv, Answered
<1>5. <<e[2], e[1]>> \in Decoders[call.op]
  BY <1>1 DEF Mirrored
<1>6. d = <<e[2], e[1]>>
  BY <1>1, <1>4, <1>5 DEF Mirrored, Decodable
<1>7. e[1] = d[2]
  BY <1>6
<1> QED BY <1>4, <1>7 DEF AnswersOf

\* What the operation returned decodes.
LEMMA RanDecodes ==
  ASSUME Inv, call # None, response # None, response.status # 302, ran # None,
         ran.answer \in AnswersOf(call.op)
  PROVE  \E d \in Decoders[call.op] : Decodable(d)
<1>1. call.op \in Operations /\ Mirrored(call.op) /\ srv.pc = "answered"
  BY Known, Mirror DEF Inv, Places
<1>2. AnswersOf(call.op) \subseteq Answers
  BY <1>1 DEF Answers
<1>3. ran # RunOf(Failed)
  BY <1>2, FailedAssumption DEF RunOf
<1>4. ~(call.op \in {"InitiateLogin", "HandleOAuthCallback"} /\ ran = RunOf("InternalError"))
  <2> SUFFICES ASSUME call.op \in EchoOperations, ran = RunOf("InternalError") PROVE FALSE
    BY DEF EchoOperations
  <2>1. "InternalError" \notin AnswersOf(call.op)
    BY EchoErrors
  <2>2. ran.answer = "InternalError"
    BY DEF RunOf
  <2> QED BY <2>1, <2>2
<1>5. PICK e \in Encoders[call.op] :
        ran = RunOf(e[1].type) /\ response = [status |-> e[2], body |-> Body(e[1], {})]
  BY <1>1, <1>3, <1>4 DEF Inv, Answered
<1>6. <<e[2], e[1]>> \in Decoders[call.op]
  BY <1>1 DEF Mirrored
<1>7. Decodable(<<e[2], e[1]>>)
  BY <1>5, DecodesOwn DEF Decodable
<1> QED BY <1>6, <1>7

\* The client decodes the answer the operation returned and no other one.
THEOREM AnswersArrive == Spec => AnswerArrives
<1>1. ASSUME Inv, Decode, ran # None, ran.answer \in AnswersOf(call.op)
      PROVE  result' = ran.answer
  <2>1. call # None /\ response # None /\ response.status # 302
    BY <1>1 DEF Decode, Waiting
  <2>2. PICK d \in Decoders[call.op] : Decodable(d) /\ result' = d[2].type
    BY <1>1, <2>1, RanDecodes DEF Decode, Decodable
  <2>3. ran = RunOf(d[2].type)
    BY <1>1, <2>1, <2>2, DecodedRan
  <2> QED BY <2>2, <2>3 DEF RunOf
<1>2. Inv /\ [Next]_vars =>
        [Decode /\ ran # None /\ ran.answer \in AnswersOf(call.op) => result' = ran.answer]_vars
  BY <1>1
<1> QED BY <1>2, AlwaysInv, PTL DEF Spec, AnswerArrives

-----------------------------------------------------------------------------
(* The remote call.                                                        *)

\* A run of a call is there.
LEMMA RunNamed ==
  ASSUME Inv, call # None, NEW answer \in Answers \cup {Failed}
  PROVE  RunOf(answer) # None
<1>1. [op |-> call.op, params |-> call.params] \in Calls
  BY DEF Inv, TypeOK
<1> QED BY <1>1, Unnamed DEF RunOf

\* A call of the model is a call of the remote one.
LEMMA Called == Inv /\ call # None => [op |-> call.op, params |-> call.params] # None
<1> SUFFICES ASSUME Inv, call # None PROVE [op |-> call.op, params |-> call.params] # None
  OBVIOUS
<1>1. [op |-> call.op, params |-> call.params] \in Calls
  BY DEF Inv, TypeOK
<1> QED BY <1>1, NoneAssumption

\* A step that changes neither the call nor its run nor its result.
LEMMA Stutters ==
  ASSUME UNCHANGED <<call, result>>, call = None \/ UNCHANGED ran
  PROVE  UNCHANGED Abstract!rcvars
  BY DEF Abstract!rcvars

\* A step in which the operation runs.
LEMMA Executes ==
  ASSUME Inv, UNCHANGED <<call, result>>, ran = None,
         call # None => \E answer \in Answers \cup {Failed} : ran' = RunOf(answer)
  PROVE  [Abstract!Next]_(Abstract!rcvars)
<1>1. CASE call = None
  BY <1>1, Stutters
<1>2. CASE call # None
  <2>1. [op |-> call.op, params |-> call.params] # None
    BY <1>2, Called
  <2>2. PICK answer \in Answers \cup {Failed} : ran' = RunOf(answer)
    BY <1>2
  <2>3. Abstract!Execute
    BY <1>2, <2>1, <2>2 DEF Abstract!Execute, RunOf
  <2> QED BY <2>3 DEF Abstract!Next
<1> QED BY <1>1, <1>2

\* The handler executes the call.
LEMMA HandleExecutes == Inv /\ Handle => [Abstract!Next]_(Abstract!rcvars)
<1> SUFFICES ASSUME Inv, Handle PROVE [Abstract!Next]_(Abstract!rcvars)
  OBVIOUS
<1>1. At("handler") /\ srv.pc = "handler" /\ ran = None /\ srv.op \in Operations
      /\ UNCHANGED <<call, result>>
  BY AtStage DEF Handle, At
<1>2. \E answer \in AnswersOf(srv.op) \cup {Failed} : Ran(answer)
  BY DEF Handle, AnswersOf
<1>3. AnswersOf(srv.op) \subseteq Answers
  BY <1>1 DEF Answers
<1>4. call # None => srv.op = call.op /\ srv.params = call.params
  BY <1>1, OwnRun
<1>5. call # None => \E answer \in Answers \cup {Failed} : ran' = RunOf(answer)
  BY <1>2, <1>3, <1>4 DEF Ran, RunOf
<1> QED BY <1>1, <1>5, Executes

\* Echo's handlers run the operation too.
LEMMA EchoExecutes ==
  ASSUME Inv, createLoginHandler \/ createCallbackHandler
  PROVE  [Abstract!Next]_(Abstract!rcvars)
<1>1. srv.pc = "routes" /\ ran = None /\ UNCHANGED <<call, result>>
  BY DEF createLoginHandler, createCallbackHandler, Inv, Places, Early, Idle
<1>2. ASSUME call # None PROVE call.op \in Operations /\ EchoRan(call.op, call.params)
  BY <1>1, <1>2, Known, EchoOwn, LoginRan, CallbackRan, ZenonT(30) DEF createLoginHandler,
    createCallbackHandler
<1>3. ASSUME call # None PROVE \E answer \in Answers \cup {Failed} : ran' = RunOf(answer)
  <2>1. PICK type, status, body : ran' = RunOf(type) /\ Declared(call.op, type, status, body)
    BY <1>2, <1>3 DEF EchoRan, RunOf
  <2>2. type \in AnswersOf(call.op) \cup {"InternalError"}
    BY <2>1 DEF Declared, AnswersOf
  <2>3. AnswersOf(call.op) \cup {"InternalError"} \subseteq Answers
    BY <1>2, <1>3 DEF Answers
  <2> QED BY <2>1, <2>2, <2>3
<1> QED BY <1>1, <1>3, Executes

\* The client invokes it.
LEMMA InvokeInvokes ==
  ASSUME Inv, NEW c \in Calls, NEW credential, NEW wrong, Invoke(c, credential, wrong)
  PROVE  Abstract!Next
<1>1. call = None /\ srv = Idle /\ ran = None /\ result = None /\ UNCHANGED ran
  BY DEF Invoke, Inv, TypeOK, Places
<1>2. call' = [op |-> c.op, params |-> c.params, keyed |-> live /\ extractSessionID(credential)]
  BY DEF Invoke
<1>3. (live /\ extractSessionID(credential)) \in BOOLEAN
  BY Lives DEF extractSessionID
<1>4. call' # None /\ [op |-> call'.op, params |-> call'.params] \in Calls
  BY <1>2, <1>3, Unnamed
<1>5. result' \in {None, Failed}
  BY <1>1 DEF Invoke
<1> QED BY <1>1, <1>4, <1>5 DEF Abstract!Next, Abstract!Invoke

\* A step after which the client has an error.
LEMMA Fails ==
  ASSUME Inv, call # None, result = None, result' = Failed, UNCHANGED <<call, ran>>
  PROVE  Abstract!Next
<1>1. [op |-> call.op, params |-> call.params] # None
  BY Called
<1>2. Abstract!Fail
  BY <1>1 DEF Abstract!Fail
<1> QED BY <1>2 DEF Abstract!Next

LEMMA FailureFails == Inv /\ (FollowRedirect \/ ConnectionLost) => Abstract!Next
  BY Fails DEF FollowRedirect, ConnectionLost, Waiting

\* A result that is decoded is returned, and one that is not has failed.
LEMMA DecodeReturns == Inv /\ Decode => Abstract!Next
<1> SUFFICES ASSUME Inv, Decode PROVE Abstract!Next
  OBVIOUS
<1>1. call # None /\ result = None /\ response # None /\ response.status # 302
      /\ UNCHANGED <<call, ran>>
  BY DEF Decode, Waiting
<1>2. result' = Failed \/ \E d \in Decoders[call.op] : Decodable(d) /\ result' = d[2].type
  BY DEF Decode, Decodable
<1>3. CASE result' = Failed
  BY <1>1, <1>3, Fails
<1>4. ASSUME NEW d \in Decoders[call.op], Decodable(d), result' = d[2].type PROVE Abstract!Next
  <2>1. ran = RunOf(d[2].type) /\ d[2].type \in AnswersOf(call.op)
    BY <1>1, <1>4, DecodedRan
  <2>2. d[2].type \in Answers /\ d[2].type # Failed
    BY <1>1, <2>1, Known, FailedAssumption DEF Answers
  <2>3. ran # None /\ ran.answer = d[2].type
    BY <1>1, <2>1, <2>2, RunNamed DEF RunOf
  <2> QED BY <1>1, <1>4, <2>2, <2>3 DEF Abstract!Next, Abstract!Return
<1> QED BY <1>2, <1>3, <1>4

\* A request sent again is a call repeated.
LEMMA ResendRepeats == Inv /\ Resend => Abstract!Next
<1> SUFFICES ASSUME Inv, Resend PROVE Abstract!Next
  OBVIOUS
<1> DEFINE c == [op |-> call.op, params |-> call.params]
<1>1. /\ call # None /\ srv # Idle /\ srv.request.method = "GET" /\ result = None
      /\ ran' = None /\ UNCHANGED <<call, result>>
  BY DEF Resend, Waiting
<1>2. c \in Calls /\ c.op = call.op /\ c.params = call.params
  BY <1>1 DEF Inv, TypeOK
<1>3. ClientRequest(call.op, call.params).method = "GET"
  BY <1>1 DEF Inv, Own
<1>4. c \in Replayable
  BY <1>2, <1>3 DEF Replayable
<1> QED BY <1>1, <1>4 DEF Abstract!Next, Abstract!Repeat

\* The end of a call is the end of the remote one.
LEMMA FinishFinishes == Inv /\ Finish => [Abstract!Next]_(Abstract!rcvars)
<1> SUFFICES ASSUME Inv, Finish PROVE [Abstract!Next]_(Abstract!rcvars)
  OBVIOUS
<1>1. call' = None /\ ran' = None /\ result' = None /\ (call # None => result # None)
  BY DEF Finish, Waiting
<1>2. CASE call = None
  BY <1>1, <1>2 DEF Inv, TypeOK, Abstract!rcvars
<1>3. CASE call # None
  BY <1>1, <1>3 DEF Abstract!Next, Abstract!Finish
<1> QED BY <1>2, <1>3

\* The other steps are none of the remote call's.
LEMMA OthersStutter ==
  ASSUME \/ KeyObtained \/ KeyEnds \/ Cors \/ SessionMiddleware \/ Route
         \/ Security \/ Params \/ RequestBody \/ Encode \/ UNCHANGED vars
         \/ \E r \in OtherRequests, credential \in Credentials : OtherRequest(r, credential)
  PROVE  UNCHANGED Abstract!rcvars
<1>1. UNCHANGED <<call, ran, result>>
  BY DEF KeyObtained, KeyEnds, Cors, SessionMiddleware, Route, Security, Params, RequestBody,
    Encode,
    OtherRequest, vars
<1> QED BY <1>1, Stutters

\* A call through the generated client and server is a remote call: its
\* operation runs with the parameters it was called with, at most once, or at most
\* once for each time net/http sends it if it is a GET, and the result is the
\* answer of the last run or a failure.
THEOREM ImplementsRemote == Spec => ImplementsRemoteCall
<1>1. Init => Abstract!Init
  BY DEF Init, Abstract!Init
<1>2. Inv /\ [Next]_vars => [Abstract!Next]_(Abstract!rcvars)
  BY HandleExecutes, EchoExecutes, InvokeInvokes, DecodeReturns, FailureFails, ResendRepeats,
    FinishFinishes, OthersStutter DEF Next
<1> QED BY <1>1, <1>2, AlwaysInv, PTL DEF Spec, ImplementsRemoteCall, Abstract!Spec
==============================================================================
