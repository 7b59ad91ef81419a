------------------------------ MODULE ApiSchemas ------------------------------
(***************************************************************************)
(* The JSON forms of the generated API layer (oas_json_gen.go) and what is *)
(* checked of a value (oas_validators_gen.go).                             *)
(*                                                                         *)
(* Of a form the model keeps the fields its decoder requires and the       *)
(* fields whose value its validator checks, those of nested forms          *)
(* included.  The encoders write every required field, so encoding a value *)
(* is "required".  Decoders skip fields they do not know.  A value is the  *)
(* set of checked fields whose value is wrong.                             *)
(***************************************************************************)

Form(type, required, checked) ==
    [type |-> type, json |-> TRUE, required |-> required, checked |-> checked]

\* The decoder of a list requires an array, here a field of its own, and
\* decodes each element.
ListOf(type, element) == Form(type, {"[]"}, element.checked)

\* An answer that is only a status.
Bare(type) == [type |-> type, json |-> FALSE, required |-> {}, checked |-> {}]

\* What a body is to the one who reads it.
Body(form, wrong) ==
    [ctype  |-> IF form.json THEN "json" ELSE "none",
     fields |-> form.required,
     wrong  |-> wrong \cap form.checked]

NoBody == [ctype |-> "none", fields |-> {}, wrong |-> {}]

\* Decode and Validate of a form, both on the client and on the server.
Decodes(form, body) ==
    form.json => /\ body.ctype = "json"
                 /\ form.required \subseteq body.fields
                 /\ form.checked \cap body.wrong = {}

-------------------------------------------------------------------------------
(* Checked values.  A nil slice is refused too, but a decoder makes empty  *)
(* slices of absent elements, so no decoded value holds one.               *)

ProjectKind == {"kind"}
TeamMembershipRole == {"role"}
Email == {"email"}

TeamMembership == Form("TeamMembership", {"org_name", "team_name", "role"}, TeamMembershipRole)

GitHubUser ==
    Form("GitHubUser", {"id", "github_id", "username", "email", "name", "avatar_url"}, Email)

AuthenticatedUser ==
    Form("AuthenticatedUser", {"user", "bearer_token", "team_memberships"},
         GitHubUser.checked \cup TeamMembership.checked)

Project ==
    Form("Project", {"id", "name", "description", "kind", "createdAt", "updatedAt"}, ProjectKind)

Role ==
    Form("Role", {"id", "name", "description", "project", "attributes", "createdAt", "updatedAt"},
         Project.checked)

User == Form("User", {"id", "email", "roles", "createdAt", "updatedAt"}, Email \cup Role.checked)

UserGroup ==
    Form("UserGroup",
         {"id", "name", "description", "project", "members", "createdAt", "updatedAt"},
         Project.checked \cup User.checked)

HealthResponse == Form("HealthResponse", {"status"}, {})

ListProjectsOKApplicationJSON == ListOf("ListProjectsOKApplicationJSON", Project)
ListRolesOKApplicationJSON == ListOf("ListRolesOKApplicationJSON", Role)
ListUserGroupsOKApplicationJSON == ListOf("ListUserGroupsOKApplicationJSON", UserGroup)
ListUsersOKApplicationJSON == ListOf("ListUsersOKApplicationJSON", User)

CreateProjectRequest ==
    Form("CreateProjectRequest", {"name", "description", "kind", "ownerIds", "ownerGroupIds"},
         ProjectKind)

CreateRoleRequest == Form("CreateRoleRequest", {"name", "description", "attributeIds"}, {})

CreateUserGroupRequest ==
    Form("CreateUserGroupRequest", {"name", "description", "memberIds"}, {})

CreateUserRequest == Form("CreateUserRequest", {"email"}, Email)

UpdateProjectRequest ==
    Form("UpdateProjectRequest", {"name", "description", "ownerIds", "ownerGroupIds"}, {})

UpdateRoleRequest == Form("UpdateRoleRequest", {"name", "description", "attributeIds"}, {})

UpdateUserGroupRequest ==
    Form("UpdateUserGroupRequest", {"name", "description", "memberIds"}, {})

-------------------------------------------------------------------------------
(* Error answers: types of their own with the JSON form of ErrorResponse.  *)

ErrorResponse == Form("ErrorResponse", {"error"}, {})

As(type) == [ErrorResponse EXCEPT !.type = type]

CreateProjectBadRequest == As("CreateProjectBadRequest")
CreateProjectInternalServerError == As("CreateProjectInternalServerError")
CreateRoleBadRequest == As("CreateRoleBadRequest")
CreateRoleInternalServerError == As("CreateRoleInternalServerError")
CreateRoleNotFound == As("CreateRoleNotFound")
CreateUserBadRequest == As("CreateUserBadRequest")
CreateUserInternalServerError == As("CreateUserInternalServerError")
CreateUserGroupBadRequest == As("CreateUserGroupBadRequest")
CreateUserGroupInternalServerError == As("CreateUserGroupInternalServerError")
CreateUserGroupNotFound == As("CreateUserGroupNotFound")
GetProjectInternalServerError == As("GetProjectInternalServerError")
GetProjectNotFound == As("GetProjectNotFound")
GetRoleInternalServerError == As("GetRoleInternalServerError")
GetRoleNotFound == As("GetRoleNotFound")
GetUserGroupInternalServerError == As("GetUserGroupInternalServerError")
GetUserGroupNotFound == As("GetUserGroupNotFound")
HandleOAuthCallbackBadRequest == As("HandleOAuthCallbackBadRequest")
HandleOAuthCallbackUnauthorized == As("HandleOAuthCallbackUnauthorized")
ListRolesInternalServerError == As("ListRolesInternalServerError")
ListRolesNotFound == As("ListRolesNotFound")
ListUserGroupsInternalServerError == As("ListUserGroupsInternalServerError")
ListUserGroupsNotFound == As("ListUserGroupsNotFound")
UpdateProjectBadRequest == As("UpdateProjectBadRequest")
UpdateProjectInternalServerError == As("UpdateProjectInternalServerError")
UpdateProjectNotFound == As("UpdateProjectNotFound")
UpdateRoleBadRequest == As("UpdateRoleBadRequest")
UpdateRoleInternalServerError == As("UpdateRoleInternalServerError")
UpdateRoleNotFound == As("UpdateRoleNotFound")
UpdateUserGroupBadRequest == As("UpdateUserGroupBadRequest")
UpdateUserGroupInternalServerError == As("UpdateUserGroupInternalServerError")
UpdateUserGroupNotFound == As("UpdateUserGroupNotFound")

HandleOAuthCallbackFound == Bare("HandleOAuthCallbackFound")
InitiateLoginFound == Bare("InitiateLoginFound")
LogoutNoContent == Bare("LogoutNoContent")
===============================================================================
