------------------------------- MODULE ApiClient -------------------------------
(***************************************************************************)
(* The generated client: the request each operation sends for given        *)
(* parameters, and what it makes of the status and body that come back.    *)
(***************************************************************************)
EXTENDS ApiServer

\* A request to send: where to, the form of its body, and whether the client
\* asks its security source for a credential.
Send(method, path, query, form, secured) ==
    [method  |-> method,
     path    |-> <<"v1alpha1">> \o [i \in DOMAIN path |-> PathEscape(path[i])],
     query   |-> query,
     form    |-> form,
     secured |-> secured]

NoQuery == <<>>
NoForm == Bare("no body")
Page(p) == [limit |-> p.limit, offset |-> p.offset]

sendCreateProject(p) == Send("POST", <<"projects">>, NoQuery, CreateProjectRequest, TRUE)

sendCreateRole(p) ==
    Send("POST", <<"projects", p.projectId, "roles">>, NoQuery, CreateRoleRequest, FALSE)

sendCreateUser(p) == Send("POST", <<"users">>, NoQuery, CreateUserRequest, TRUE)

sendCreateUserGroup(p) ==
    Send("POST", <<"projects", p.projectId, "usergroups">>, NoQuery, CreateUserGroupRequest, FALSE)

sendGetCurrentUser(p) == Send("GET", <<"auth", "me">>, NoQuery, NoForm, TRUE)

sendGetLivenessCheck(p) == Send("GET", <<"health", "liveness">>, NoQuery, NoForm, FALSE)

\* Mutant of sendGetProject: without a credential.
sendGetProjectUnsecured(p) ==
    Send("GET", <<"projects", p.projectId>>, NoQuery, NoForm, FALSE)

sendGetProject(p) == Send("GET", <<"projects", p.projectId>>, NoQuery, NoForm, TRUE)

sendGetReadinessCheck(p) == Send("GET", <<"health", "readiness">>, NoQuery, NoForm, FALSE)

sendGetRole(p) ==
    Send("GET", <<"projects", p.projectId, "roles", p.roleId>>, NoQuery, NoForm, FALSE)

sendGetUserGroup(p) ==
    Send("GET", <<"projects", p.projectId, "usergroups", p.groupId>>, NoQuery, NoForm, FALSE)

sendHandleOAuthCallback(p) ==
    Send("GET", <<"auth", "callback">>, [code |-> p.code, state |-> p.state], NoForm, FALSE)

\* An optional parameter that is not set is not sent.
Sent(p) ==
    IF p.redirect_uri = None THEN NoQuery ELSE [redirect_uri |-> p.redirect_uri]

sendInitiateLogin(p) == Send("GET", <<"auth", "login">>, Sent(p), NoForm, FALSE)

sendListProjects(p) == Send("GET", <<"projects">>, Page(p), NoForm, TRUE)

sendListRoles(p) == Send("GET", <<"projects", p.projectId, "roles">>, Page(p), NoForm, FALSE)

sendListUserGroups(p) ==
    Send("GET", <<"projects", p.projectId, "usergroups">>, Page(p), NoForm, FALSE)

sendListUsers(p) == Send("GET", <<"users">>, Page(p), NoForm, TRUE)

sendLogout(p) == Send("POST", <<"auth", "logout">>, NoQuery, NoForm, TRUE)

sendRefreshToken(p) == Send("POST", <<"auth", "refresh">>, NoQuery, NoForm, TRUE)

sendUpdateProject(p) ==
    Send("PUT", <<"projects", p.projectId>>, NoQuery, UpdateProjectRequest, TRUE)

sendUpdateRole(p) ==
    Send("PUT", <<"projects", p.projectId, "roles", p.roleId>>, NoQuery, UpdateRoleRequest, FALSE)

sendUpdateUserGroup(p) ==
    Send("PUT", <<"projects", p.projectId, "usergroups", p.groupId>>, NoQuery, UpdateUserGroupRequest, FALSE)

ClientRequest(op, p) ==
    CASE op = "CreateProject" -> sendCreateProject(p)
      [] op = "CreateRole" -> sendCreateRole(p)
      [] op = "CreateUser" -> sendCreateUser(p)
      [] op = "CreateUserGroup" -> sendCreateUserGroup(p)
      [] op = "GetCurrentUser" -> sendGetCurrentUser(p)
      [] op = "GetLivenessCheck" -> sendGetLivenessCheck(p)
      [] op = "GetProject" -> sendGetProject(p)
      [] op = "GetReadinessCheck" -> sendGetReadinessCheck(p)
      [] op = "GetRole" -> sendGetRole(p)
      [] op = "GetUserGroup" -> sendGetUserGroup(p)
      [] op = "HandleOAuthCallback" -> sendHandleOAuthCallback(p)
      [] op = "InitiateLogin" -> sendInitiateLogin(p)
      [] op = "ListProjects" -> sendListProjects(p)
      [] op = "ListRoles" -> sendListRoles(p)
      [] op = "ListUserGroups" -> sendListUserGroups(p)
      [] op = "ListUsers" -> sendListUsers(p)
      [] op = "Logout" -> sendLogout(p)
      [] op = "RefreshToken" -> sendRefreshToken(p)
      [] op = "UpdateProject" -> sendUpdateProject(p)
      [] op = "UpdateRole" -> sendUpdateRole(p)
      [] op = "UpdateUserGroup" -> sendUpdateUserGroup(p)

-------------------------------------------------------------------------------
(* Answers: the type a status is decoded to.                               *)

decodeCreateProjectResponse ==
    {<<201, Project>>, <<400, CreateProjectBadRequest>>,
     <<500, CreateProjectInternalServerError>>}
decodeCreateRoleResponse ==
    {<<201, Role>>, <<400, CreateRoleBadRequest>>, <<404, CreateRoleNotFound>>,
     <<500, CreateRoleInternalServerError>>}
decodeCreateUserResponse ==
    {<<201, User>>, <<400, CreateUserBadRequest>>, <<500, CreateUserInternalServerError>>}
decodeCreateUserGroupResponse ==
    {<<201, UserGroup>>, <<400, CreateUserGroupBadRequest>>, <<404, CreateUserGroupNotFound>>,
     <<500, CreateUserGroupInternalServerError>>}
decodeGetCurrentUserResponse == {<<200, AuthenticatedUser>>, <<401, ErrorResponse>>}
decodeGetLivenessCheckResponse == {<<200, HealthResponse>>}
decodeGetProjectResponse ==
    {<<200, Project>>, <<404, GetProjectNotFound>>, <<500, GetProjectInternalServerError>>}
decodeGetReadinessCheckResponse == {<<200, HealthResponse>>}
decodeGetRoleResponse ==
    {<<200, Role>>, <<404, GetRoleNotFound>>, <<500, GetRoleInternalServerError>>}
decodeGetUserGroupResponse ==
    {<<200, UserGroup>>, <<404, GetUserGroupNotFound>>,
     <<500, GetUserGroupInternalServerError>>}
decodeHandleOAuthCallbackResponse ==
    {<<302, HandleOAuthCallbackFound>>, <<400, HandleOAuthCallbackBadRequest>>,
     <<401, HandleOAuthCallbackUnauthorized>>}
decodeInitiateLoginResponse == {<<302, InitiateLoginFound>>, <<400, ErrorResponse>>}
decodeListProjectsResponse == {<<200, ListProjectsOKApplicationJSON>>, <<500, ErrorResponse>>}
decodeListRolesResponse ==
    {<<200, ListRolesOKApplicationJSON>>, <<404, ListRolesNotFound>>,
     <<500, ListRolesInternalServerError>>}
decodeListUserGroupsResponse ==
    {<<200, ListUserGroupsOKApplicationJSON>>, <<404, ListUserGroupsNotFound>>,
     <<500, ListUserGroupsInternalServerError>>}
decodeListUsersResponse == {<<200, ListUsersOKApplicationJSON>>, <<500, ErrorResponse>>}
decodeLogoutResponse == {<<204, LogoutNoContent>>, <<401, ErrorResponse>>}
decodeRefreshTokenResponse == {<<200, AuthenticatedUser>>, <<401, ErrorResponse>>}
decodeUpdateProjectResponse ==
    {<<200, Project>>, <<400, UpdateProjectBadRequest>>, <<404, UpdateProjectNotFound>>,
     <<500, UpdateProjectInternalServerError>>}
decodeUpdateRoleResponse ==
    {<<200, Role>>, <<400, UpdateRoleBadRequest>>, <<404, UpdateRoleNotFound>>,
     <<500, UpdateRoleInternalServerError>>}
decodeUpdateUserGroupResponse ==
    {<<200, UserGroup>>, <<400, UpdateUserGroupBadRequest>>, <<404, UpdateUserGroupNotFound>>,
     <<500, UpdateUserGroupInternalServerError>>}

Decoders ==
    [CreateProject |-> decodeCreateProjectResponse,
     CreateRole |-> decodeCreateRoleResponse,
     CreateUser |-> decodeCreateUserResponse,
     CreateUserGroup |-> decodeCreateUserGroupResponse,
     GetCurrentUser |-> decodeGetCurrentUserResponse,
     GetLivenessCheck |-> decodeGetLivenessCheckResponse,
     GetProject |-> decodeGetProjectResponse,
     GetReadinessCheck |-> decodeGetReadinessCheckResponse,
     GetRole |-> decodeGetRoleResponse,
     GetUserGroup |-> decodeGetUserGroupResponse,
     HandleOAuthCallback |-> decodeHandleOAuthCallbackResponse,
     InitiateLogin |-> decodeInitiateLoginResponse,
     ListProjects |-> decodeListProjectsResponse,
     ListRoles |-> decodeListRolesResponse,
     ListUserGroups |-> decodeListUserGroupsResponse,
     ListUsers |-> decodeListUsersResponse,
     Logout |-> decodeLogoutResponse,
     RefreshToken |-> decodeRefreshTokenResponse,
     UpdateProject |-> decodeUpdateProjectResponse,
     UpdateRole |-> decodeUpdateRoleResponse,
     UpdateUserGroup |-> decodeUpdateUserGroupResponse]
===============================================================================
