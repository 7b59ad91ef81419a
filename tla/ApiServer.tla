------------------------------- MODULE ApiServer -------------------------------
(***************************************************************************)
(* The generated server: its router, what the handler of each operation    *)
(* does in which order, the decoders of parameters and bodies and the      *)
(* encoders of answers.  Pure operators; ApiCall makes a system of them.   *)
(*                                                                         *)
(* A path is the sequence of its segments.  The router compares bytes, but *)
(* every branch of it ends at a slash or at the end of the path.           *)
(***************************************************************************)
EXTENDS ApiSchemas, Integers, Sequences

CONSTANTS
    None,       \* an optional parameter that is not there
    Invalid,    \* what a parameter that cannot be decoded becomes
    MaxLimit,   \* the largest page: 100 in the code
    PathEscape(_), PathUnescape(_),   \* of a path segment (net/url)
    PathEncode(_),    \* a segment as net/url writes it when nobody escaped it before
    Normalize(_),     \* a segment without the escapes it does not need (ogen's uri)
    HasSlash(_),      \* a segment, unescaped, has a slash in it
    Slash(_, _)       \* two segments with a slash between them

ASSUME MaxLimitAssumption == MaxLimit \in Nat \ {0}

-------------------------------------------------------------------------------
(* Escaping of path segments.  The segments of the routes are plain.       *)

Plain(s) == PathEscape(s) = s /\ PathUnescape(s) = s /\ Normalize(s) = s /\ ~HasSlash(s)

Segments ==
    {"v1alpha1", "auth", "callback", "login", "logout", "me", "refresh", "health", "liveness",
     "readiness", "projects", "roles", "usergroups", "users"}

ASSUME SegmentsAssumption == \A s \in Segments : Plain(s)

ASSUME SlashAssumption ==
    \A a, b, c \in Segments : HasSlash(Slash(a, b)) /\ HasSlash(Slash(a, Slash(b, c)))

Unescaped(path) == [i \in DOMAIN path |-> PathUnescape(path[i])]

\* URL.RawPath is set only when encoding URL.Path does not give the path back:
\* when a slash in it was escaped, or anything else otherwise than net/url does.
IsRaw(path) ==
    \E i \in DOMAIN path :
        LET s == PathUnescape(path[i]) IN HasSlash(s) \/ PathEncode(s) # path[i]

-------------------------------------------------------------------------------
(* The router.                                                             *)

NotFound == [op |-> "notFound", args |-> <<>>]
NotAllowed == [op |-> "notAllowed", args |-> <<>>]

Node(methods, method, args) ==
    IF method \in DOMAIN methods THEN [op |-> methods[method], args |-> args] ELSE NotAllowed

RouteAuth(method, rest) ==
    CASE rest = <<"callback">> -> Node([GET |-> "HandleOAuthCallback"], method, <<>>)
      [] rest = <<"login">>    -> Node([GET |-> "InitiateLogin"], method, <<>>)
      [] rest = <<"logout">>   -> Node([POST |-> "Logout"], method, <<>>)
      [] rest = <<"me">>       -> Node([GET |-> "GetCurrentUser"], method, <<>>)
      [] rest = <<"refresh">>  -> Node([POST |-> "RefreshToken"], method, <<>>)
      [] OTHER                 -> NotFound

RouteHealth(method, rest) ==
    CASE rest = <<"liveness">>  -> Node([GET |-> "GetLivenessCheck"], method, <<>>)
      [] rest = <<"readiness">> -> Node([GET |-> "GetReadinessCheck"], method, <<>>)
      [] OTHER                  -> NotFound

RouteRoles(method, project, rest) ==
    CASE rest = <<>>   -> Node([GET |-> "ListRoles", POST |-> "CreateRole"], method, <<project>>)
      [] Len(rest) = 1 -> Node([GET |-> "GetRole", PUT |-> "UpdateRole"], method, <<project>> \o rest)
      [] OTHER         -> NotFound

RouteUserGroups(method, project, rest) ==
    CASE rest = <<>>   -> Node([GET |-> "ListUserGroups", POST |-> "CreateUserGroup"],
                               method, <<project>>)
      [] Len(rest) = 1 -> Node([GET |-> "GetUserGroup", PUT |-> "UpdateUserGroup"],
                               method, <<project>> \o rest)
      [] OTHER         -> NotFound

RouteProjects(method, rest) ==
    CASE rest = <<>>   -> Node([GET |-> "ListProjects", POST |-> "CreateProject"], method, <<>>)
      [] Len(rest) = 1 -> Node([GET |-> "GetProject", PUT |-> "UpdateProject"], method, rest)
      [] Len(rest) > 1 /\ rest[2] = "roles" ->
            RouteRoles(method, rest[1], SubSeq(rest, 3, Len(rest)))
      [] Len(rest) > 1 /\ rest[2] = "usergroups" ->
            RouteUserGroups(method, rest[1], SubSeq(rest, 3, Len(rest)))
      [] OTHER         -> NotFound

RouteUsers(method, rest) ==
    IF rest = <<>> THEN Node([GET |-> "ListUsers", POST |-> "CreateUser"], method, <<>>)
                   ELSE NotFound

\* The router walks the escaped path, normalized, when there is one and tells the
\* handler so; otherwise the decoded one.  A normalized path without any escape
\* is not called escaped in the code: unescaping it would change nothing.
Walked(path) ==
    IF IsRaw(path) THEN [i \in DOMAIN path |-> Normalize(path[i])] ELSE Unescaped(path)

ServeHTTP(method, path) ==
    LET elem == Walked(path)
        rest == SubSeq(elem, 3, Len(elem))
    IN  IF Len(elem) < 2 \/ elem[1] # "v1alpha1" THEN NotFound
        ELSE CASE elem[2] = "auth"     -> RouteAuth(method, rest)
               [] elem[2] = "health"   -> RouteHealth(method, rest)
               [] elem[2] = "projects" -> RouteProjects(method, rest)
               [] elem[2] = "users"    -> RouteUsers(method, rest)
               [] OTHER                -> NotFound

-------------------------------------------------------------------------------
(* Parameters.  What cannot be decoded becomes Invalid.  A query is a      *)
(* record of the parameters it holds.                                      *)

\* Mutant of PathParam: an escaped argument is taken as it is.
PathParamAsIs(arg, escaped) == IF arg = "" THEN Invalid ELSE arg

PathParam(arg, escaped) ==
    LET param == IF escaped THEN PathUnescape(arg) ELSE arg
    IN  IF param = "" THEN Invalid ELSE param

Required(q, name) == IF name \in DOMAIN q THEN q[name] ELSE Invalid

Optional(q, name) == IF name \in DOMAIN q THEN q[name] ELSE None

\* The default is set first and never used: a missing parameter is an error.
LimitParam(q) ==
    LET n == Required(q, "limit") IN IF n \in 1 .. MaxLimit THEN n ELSE Invalid

OffsetParam(q) == LET n == Required(q, "offset") IN IF n \in Nat THEN n ELSE Invalid

decodeCreateRoleParams(args, escaped, q) == [projectId |-> PathParam(args[1], escaped)]

decodeCreateUserGroupParams(args, escaped, q) ==
    [projectId |-> PathParam(args[1], escaped)]

decodeGetProjectParams(args, escaped, q) == [projectId |-> PathParam(args[1], escaped)]

decodeGetRoleParams(args, escaped, q) ==
    [projectId |-> PathParam(args[1], escaped), roleId |-> PathParam(args[2], escaped)]

decodeGetUserGroupParams(args, escaped, q) ==
    [projectId |-> PathParam(args[1], escaped), groupId |-> PathParam(args[2], escaped)]

decodeHandleOAuthCallbackParams(args, escaped, q) ==
    [code |-> Required(q, "code"), state |-> Required(q, "state")]

decodeInitiateLoginParams(args, escaped, q) ==
    [redirect_uri |-> Optional(q, "redirect_uri")]

decodeListProjectsParams(args, escaped, q) ==
    [limit |-> LimitParam(q), offset |-> OffsetParam(q)]

decodeListRolesParams(args, escaped, q) ==
    [projectId |-> PathParam(args[1], escaped),
     limit |-> LimitParam(q),
     offset |-> OffsetParam(q)]

decodeListUserGroupsParams(args, escaped, q) ==
    [projectId |-> PathParam(args[1], escaped),
     limit |-> LimitParam(q),
     offset |-> OffsetParam(q)]

decodeListUsersParams(args, escaped, q) ==
    [limit |-> LimitParam(q), offset |-> OffsetParam(q)]

decodeUpdateProjectParams(args, escaped, q) == [projectId |-> PathParam(args[1], escaped)]

decodeUpdateRoleParams(args, escaped, q) ==
    [projectId |-> PathParam(args[1], escaped), roleId |-> PathParam(args[2], escaped)]

decodeUpdateUserGroupParams(args, escaped, q) ==
    [projectId |-> PathParam(args[1], escaped), groupId |-> PathParam(args[2], escaped)]

DecodeParams(op, args, escaped, q) ==
    CASE op = "CreateRole" -> decodeCreateRoleParams(args, escaped, q)
      [] op = "CreateUserGroup" -> decodeCreateUserGroupParams(args, escaped, q)
      [] op = "GetProject" -> decodeGetProjectParams(args, escaped, q)
      [] op = "GetRole" -> decodeGetRoleParams(args, escaped, q)
      [] op = "GetUserGroup" -> decodeGetUserGroupParams(args, escaped, q)
      [] op = "HandleOAuthCallback" -> decodeHandleOAuthCallbackParams(args, escaped, q)
      [] op = "InitiateLogin" -> decodeInitiateLoginParams(args, escaped, q)
      [] op = "ListProjects" -> decodeListProjectsParams(args, escaped, q)
      [] op = "ListRoles" -> decodeListRolesParams(args, escaped, q)
      [] op = "ListUserGroups" -> decodeListUserGroupsParams(args, escaped, q)
      [] op = "ListUsers" -> decodeListUsersParams(args, escaped, q)
      [] op = "UpdateProject" -> decodeUpdateProjectParams(args, escaped, q)
      [] op = "UpdateRole" -> decodeUpdateRoleParams(args, escaped, q)
      [] op = "UpdateUserGroup" -> decodeUpdateUserGroupParams(args, escaped, q)

-------------------------------------------------------------------------------
(* Bodies: 0 when the body is decoded and valid, else the status of the    *)
(* error.                                                                  *)

DecodeBody(form, body) ==
    CASE body.ctype = "other"  -> 415
      [] Decodes(form, body)   -> 0
      [] OTHER                 -> 400

decodeCreateProjectRequest(body) == DecodeBody(CreateProjectRequest, body)
decodeCreateRoleRequest(body) == DecodeBody(CreateRoleRequest, body)
decodeCreateUserRequest(body) == DecodeBody(CreateUserRequest, body)
decodeCreateUserGroupRequest(body) == DecodeBody(CreateUserGroupRequest, body)
decodeUpdateProjectRequest(body) == DecodeBody(UpdateProjectRequest, body)
decodeUpdateRoleRequest(body) == DecodeBody(UpdateRoleRequest, body)
decodeUpdateUserGroupRequest(body) == DecodeBody(UpdateUserGroupRequest, body)

DecodeRequest(op, body) ==
    CASE op = "CreateProject" -> decodeCreateProjectRequest(body)
      [] op = "CreateRole" -> decodeCreateRoleRequest(body)
      [] op = "CreateUser" -> decodeCreateUserRequest(body)
      [] op = "CreateUserGroup" -> decodeCreateUserGroupRequest(body)
      [] op = "UpdateProject" -> decodeUpdateProjectRequest(body)
      [] op = "UpdateRole" -> decodeUpdateRoleRequest(body)
      [] op = "UpdateUserGroup" -> decodeUpdateUserGroupRequest(body)

-------------------------------------------------------------------------------
(* Handlers: the stages a request passes, in order.  An error at one of    *)
(* them is answered and ends the request.                                  *)

handleCreateProjectRequest == <<"security", "request", "handler", "encode">>
handleCreateRoleRequest == <<"params", "request", "handler", "encode">>

\* Mutant of handleCreateUserRequest: the body is not decoded.
handleCreateUserUnread == <<"security", "handler", "encode">>

handleCreateUserRequest == <<"security", "request", "handler", "encode">>
handleCreateUserGroupRequest == <<"params", "request", "handler", "encode">>
handleGetCurrentUserRequest == <<"security", "handler", "encode">>
handleGetLivenessCheckRequest == <<"handler", "encode">>
handleGetProjectRequest == <<"security", "params", "handler", "encode">>
handleGetReadinessCheckRequest == <<"handler", "encode">>
handleGetRoleRequest == <<"params", "handler", "encode">>
handleGetUserGroupRequest == <<"params", "handler", "encode">>
handleHandleOAuthCallbackRequest == <<"params", "handler", "encode">>
handleInitiateLoginRequest == <<"params", "handler", "encode">>
handleListProjectsRequest == <<"security", "params", "handler", "encode">>
handleListRolesRequest == <<"params", "handler", "encode">>
handleListUserGroupsRequest == <<"params", "handler", "encode">>
handleListUsersRequest == <<"security", "params", "handler", "encode">>
handleLogoutRequest == <<"security", "handler", "encode">>
handleRefreshTokenRequest == <<"security", "handler", "encode">>
handleUpdateProjectRequest == <<"security", "params", "request", "handler", "encode">>
handleUpdateRoleRequest == <<"params", "request", "handler", "encode">>
handleUpdateUserGroupRequest == <<"params", "request", "handler", "encode">>

Handlers ==
    [CreateProject |-> handleCreateProjectRequest,
     CreateRole |-> handleCreateRoleRequest,
     CreateUser |-> handleCreateUserRequest,
     CreateUserGroup |-> handleCreateUserGroupRequest,
     GetCurrentUser |-> handleGetCurrentUserRequest,
     GetLivenessCheck |-> handleGetLivenessCheckRequest,
     GetProject |-> handleGetProjectRequest,
     GetReadinessCheck |-> handleGetReadinessCheckRequest,
     GetRole |-> handleGetRoleRequest,
     GetUserGroup |-> handleGetUserGroupRequest,
     HandleOAuthCallback |-> handleHandleOAuthCallbackRequest,
     InitiateLogin |-> handleInitiateLoginRequest,
     ListProjects |-> handleListProjectsRequest,
     ListRoles |-> handleListRolesRequest,
     ListUserGroups |-> handleListUserGroupsRequest,
     ListUsers |-> handleListUsersRequest,
     Logout |-> handleLogoutRequest,
     RefreshToken |-> handleRefreshTokenRequest,
     UpdateProject |-> handleUpdateProjectRequest,
     UpdateRole |-> handleUpdateRoleRequest,
     UpdateUserGroup |-> handleUpdateUserGroupRequest]

-------------------------------------------------------------------------------
(* Answers: for every type the handler may return, the status it is        *)
(* written with.                                                           *)

encodeCreateProjectResponse ==
    {<<Project, 201>>, <<CreateProjectBadRequest, 400>>,
     <<CreateProjectInternalServerError, 500>>}
encodeCreateRoleResponse ==
    {<<Role, 201>>, <<CreateRoleBadRequest, 400>>, <<CreateRoleNotFound, 404>>,
     <<CreateRoleInternalServerError, 500>>}
encodeCreateUserResponse ==
    {<<User, 201>>, <<CreateUserBadRequest, 400>>, <<CreateUserInternalServerError, 500>>}
encodeCreateUserGroupResponse ==
    {<<UserGroup, 201>>, <<CreateUserGroupBadRequest, 400>>, <<CreateUserGroupNotFound, 404>>,
     <<CreateUserGroupInternalServerError, 500>>}
encodeGetCurrentUserResponse == {<<AuthenticatedUser, 200>>, <<ErrorResponse, 401>>}
encodeGetLivenessCheckResponse == {<<HealthResponse, 200>>}
encodeGetProjectResponse ==
    {<<Project, 200>>, <<GetProjectNotFound, 404>>, <<GetProjectInternalServerError, 500>>}
encodeGetReadinessCheckResponse == {<<HealthResponse, 200>>}
encodeGetRoleResponse ==
    {<<Role, 200>>, <<GetRoleNotFound, 404>>, <<GetRoleInternalServerError, 500>>}
encodeGetUserGroupResponse ==
    {<<UserGroup, 200>>, <<GetUserGroupNotFound, 404>>,
     <<GetUserGroupInternalServerError, 500>>}
encodeHandleOAuthCallbackResponse ==
    {<<HandleOAuthCallbackFound, 302>>, <<HandleOAuthCallbackBadRequest, 400>>,
     <<HandleOAuthCallbackUnauthorized, 401>>}
encodeInitiateLoginResponse == {<<InitiateLoginFound, 302>>, <<ErrorResponse, 400>>}
encodeListProjectsResponse == {<<ListProjectsOKApplicationJSON, 200>>, <<ErrorResponse, 500>>}
encodeListRolesResponse ==
    {<<ListRolesOKApplicationJSON, 200>>, <<ListRolesNotFound, 404>>,
     <<ListRolesInternalServerError, 500>>}
encodeListUserGroupsResponse ==
    {<<ListUserGroupsOKApplicationJSON, 200>>, <<ListUserGroupsNotFound, 404>>,
     <<ListUserGroupsInternalServerError, 500>>}
encodeListUsersResponse == {<<ListUsersOKApplicationJSON, 200>>, <<ErrorResponse, 500>>}

\* Mutant of encodeLogoutResponse: a status the client does not know.
encodeLogoutOther == {<<LogoutNoContent, 200>>, <<ErrorResponse, 401>>}

encodeLogoutResponse == {<<LogoutNoContent, 204>>, <<ErrorResponse, 401>>}
encodeRefreshTokenResponse == {<<AuthenticatedUser, 200>>, <<ErrorResponse, 401>>}
encodeUpdateProjectResponse ==
    {<<Project, 200>>, <<UpdateProjectBadRequest, 400>>, <<UpdateProjectNotFound, 404>>,
     <<UpdateProjectInternalServerError, 500>>}
encodeUpdateRoleResponse ==
    {<<Role, 200>>, <<UpdateRoleBadRequest, 400>>, <<UpdateRoleNotFound, 404>>,
     <<UpdateRoleInternalServerError, 500>>}
encodeUpdateUserGroupResponse ==
    {<<UserGroup, 200>>, <<UpdateUserGroupBadRequest, 400>>, <<UpdateUserGroupNotFound, 404>>,
     <<UpdateUserGroupInternalServerError, 500>>}

Encoders ==
    [CreateProject |-> encodeCreateProjectResponse,
     CreateRole |-> encodeCreateRoleResponse,
     CreateUser |-> encodeCreateUserResponse,
     CreateUserGroup |-> encodeCreateUserGroupResponse,
     GetCurrentUser |-> encodeGetCurrentUserResponse,
     GetLivenessCheck |-> encodeGetLivenessCheckResponse,
     GetProject |-> encodeGetProjectResponse,
     GetReadinessCheck |-> encodeGetReadinessCheckResponse,
     GetRole |-> encodeGetRoleResponse,
     GetUserGroup |-> encodeGetUserGroupResponse,
     HandleOAuthCallback |-> encodeHandleOAuthCallbackResponse,
     InitiateLogin |-> encodeInitiateLoginResponse,
     ListProjects |-> encodeListProjectsResponse,
     ListRoles |-> encodeListRolesResponse,
     ListUserGroups |-> encodeListUserGroupsResponse,
     ListUsers |-> encodeListUsersResponse,
     Logout |-> encodeLogoutResponse,
     RefreshToken |-> encodeRefreshTokenResponse,
     UpdateProject |-> encodeUpdateProjectResponse,
     UpdateRole |-> encodeUpdateRoleResponse,
     UpdateUserGroup |-> encodeUpdateUserGroupResponse]
===============================================================================
