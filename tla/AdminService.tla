---------------------------- MODULE AdminService ----------------------------
(***************************************************************************)
(* The handlers of pkg/apis/v1alpha1/server.go that work on PostgreSQL:    *)
(* projects, the roles and user groups of a project, and users.  Each      *)
(* handler is a sequence of single statements (pkg/db/admindb) without a   *)
(* transaction, so other handlers run between two of them; a statement     *)
(* that fails may have been committed.                                     *)
(*                                                                         *)
(* A table is the sequence of its rows in the order of their primary keys; *)
(* a row number stands for its id and its display id.  Nothing is ever     *)
(* deleted.  Roles and user groups are two kinds of items: their           *)
(* statements and handlers are the same but for the table.  Of a row only  *)
(* the unique column is kept.                                              *)
(***************************************************************************)
EXTENDS Naturals, Sequences, FiniteSets

CONSTANTS
  Reqs,          \* how many requests run at the same time
  Names,         \* names of projects, items and users (emails)
  Called,        \* the operations the clients call
  DbMayFail,     \* whether a statement may return an error of the connection
  MaxRows,       \* bound of the model: rows per table
  PageSize,      \* the limit of the client that reads a list page by page
  NoName

ASSUME NamesAssumption == NoName \notin Names
ASSUME DbFaultsAssumption == DbMayFail \in BOOLEAN
ASSUME RowsAssumption == MaxRows \in Nat
ASSUME PageAssumption == PageSize \in Nat \ {0}

Kinds == {"role", "usergroup"}
ItemOps == {"create_item", "get_item", "update_item"}
Ops == ItemOps \cup {"list_items", "create_project", "get_project", "update_project", "create_user"}
Writes == {"create_item", "update_item", "create_project", "update_project", "create_user"}
Pcs == {"idle", "insert", "update", "get_project", "get_back", "list", "members", "done"}

ASSUME CalledAssumption == Called \subseteq Ops

VARIABLES
  projects,   \* the names of the projects
  items,      \* roles and user groups: [kind, project, name]
  users,      \* the emails of the users
  req,        \* the requests being served
  pager       \* a client that reads the list of projects or of users

vars == <<projects, items, users, req, pager>>
tables == <<projects, items, users>>

(* kind, pid, iid, name: the parameters; 0 stands for an unknown display id. *)
(* row: the row read last; list: the rows answered.                         *)
(* mine (ghost): the row this request inserted or updated, 0 before that.   *)
Idle == [pc |-> "idle", op |-> "get_project", kind |-> "role", pid |-> 0, iid |-> 0,
         name |-> NoName, row |-> 0, list |-> {}, mine |-> 0, status |-> 0]

\* offset: of the next page.  seen: the rows answered.  due: the rows there were
\* when the client began.
NoPager == [table |-> "none", offset |-> 0, seen |-> {}, due |-> {}, over |-> FALSE]

Init ==
  /\ pager = NoPager
  /\ projects = <<>> /\ items = <<>> /\ users = <<>>
  /\ req = [r \in Reqs |-> Idle]

-----------------------------------------------------------------------------
(* The unique constraints of sql/schema.sql. *)

FreeProjectName(name, except) ==
  \A p \in DOMAIN projects : projects[p] = name => p = except
FreeItemName(kind, pid, name, except) ==
  \A i \in DOMAIN items : items[i] = [kind |-> kind, project |-> pid, name |-> name] => i = except
FreeEmail(email) == \A u \in DOMAIN users : users[u] # email

(* Steps of a request. *)

Move(r, q) == req' = [req EXCEPT ![r] = q]
Respond(r, status) == Move(r, [req[r] EXCEPT !.pc = "done", !.status = status])
\* Every error of a handler becomes the same answer (ogen's ErrorHandler).
Error(r) == Respond(r, 500)

\* The first statement of each handler.
FirstPc(op) ==
  CASE op \in {"create_project", "create_user"} -> "insert"
    [] op = "update_project" -> "update"
    [] op = "list_items" -> "list"
    [] OTHER -> "get_project"

\* A request with well-formed parameters arrives.
Begin(r) ==
  /\ req[r].pc = "idle"
  /\ \E op \in Called, kind \in Kinds, pid \in 0..Len(projects), iid \in 0..Len(items),
        name \in Names \cup {NoName} :
       /\ op \in Writes <=> name # NoName
       /\ op \in {"create_project", "get_project", "update_project", "create_user"} => kind = "role"
       /\ op \in {"create_project", "create_user"} => pid = 0
       /\ op \notin {"get_item", "update_item"} => iid = 0
       /\ Move(r, [Idle EXCEPT !.pc = FirstPc(op), !.op = op, !.kind = kind,
                               !.pid = pid, !.iid = iid, !.name = name])
  /\ UNCHANGED tables

\* GetProjectByDisplayID: the whole of GetProject, the start of the handlers
\* of a role or a user group, the end of UpdateProject.
Proceed(op) ==
  CASE op = "create_item" -> "insert"
    [] op = "update_item" -> "update"
    [] op = "get_item" -> "get_back"
    [] OTHER -> "done"

\* Mutant of GetProject: "no rows" is not an error, the zero row is used.
GetProjectLenient(r) ==
  /\ req[r].pc = "get_project"
  /\ Move(r, [req[r] EXCEPT !.pc = Proceed(req[r].op), !.row = req[r].pid,
                !.status = IF Proceed(req[r].op) = "done" THEN 200 ELSE 0])
  /\ UNCHANGED tables

GetProject(r) ==
  /\ req[r].pc = "get_project"
  /\ \/ /\ req[r].pid # 0
        /\ Move(r, [req[r] EXCEPT !.pc = Proceed(req[r].op), !.row = req[r].pid,
                      !.status = IF Proceed(req[r].op) = "done" THEN 200 ELSE 0])
     \/ req[r].pid = 0 /\ Error(r)
     \/ DbMayFail /\ Error(r)
  /\ UNCHANGED tables

\* INSERT of CreateProject, CreateUser, CreateRole and CreateUserGroup.  The
\* last two answer without reading the row back.
AfterInsert(op) == IF op = "create_item" THEN "done" ELSE "get_back"

InsertRow(r, free, table, row) ==
  LET mine == Len(table) + 1
      inserted == [req[r] EXCEPT !.mine = mine, !.pc = AfterInsert(req[r].op),
                     !.status = IF AfterInsert(req[r].op) = "done" THEN 201 ELSE 0] IN
  /\ free /\ Len(table) < MaxRows
  /\ table' = Append(table, row)
  /\ \/ Move(r, inserted)
     \/ DbMayFail /\ Move(r, [inserted EXCEPT !.pc = "done", !.status = 500])

InsertProject(r) ==
  /\ req[r].op = "create_project"
  /\ InsertRow(r, FreeProjectName(req[r].name, 0), projects, req[r].name)
  /\ UNCHANGED <<items, users>>

InsertItem(r) ==
  /\ req[r].op = "create_item"
  /\ InsertRow(r, FreeItemName(req[r].kind, req[r].row, req[r].name, 0), items,
               [kind |-> req[r].kind, project |-> req[r].row, name |-> req[r].name])
  /\ UNCHANGED <<projects, users>>

InsertUser(r) ==
  /\ req[r].op = "create_user"
  /\ InsertRow(r, FreeEmail(req[r].name), users, req[r].name)
  /\ UNCHANGED <<projects, items>>

\* A duplicate, a statement that never ran, or (bound) a full table.
InsertRefused(r) ==
  \/ DbMayFail
  \/ CASE req[r].op = "create_project" -> ~FreeProjectName(req[r].name, 0) \/ Len(projects) = MaxRows
       [] req[r].op = "create_user" -> ~FreeEmail(req[r].name) \/ Len(users) = MaxRows
       [] OTHER -> ~FreeItemName(req[r].kind, req[r].row, req[r].name, 0) \/ Len(items) = MaxRows

\* Mutant of Refuse: the error of a statement is dropped and the handler goes on.
RefuseIgnored(r) ==
  Move(r, IF req[r].op = "create_item" THEN [req[r] EXCEPT !.pc = "done", !.status = 201]
          ELSE [req[r] EXCEPT !.pc = IF req[r].op = "update_project" THEN "get_project" ELSE "get_back"])

\* The statement returned an error.
Refuse(r) == Error(r)

Insert(r) ==
  /\ req[r].pc = "insert"
  /\ \/ InsertProject(r) \/ InsertItem(r) \/ InsertUser(r)
     \/ InsertRefused(r) /\ Refuse(r) /\ UNCHANGED tables

\* UPDATE: mine is the row it changed, 0 when its WHERE found none.
Updated(r, mine, next) ==
  \/ Move(r, [req[r] EXCEPT !.mine = mine, !.pc = next])
  \/ DbMayFail /\ Move(r, [req[r] EXCEPT !.mine = mine, !.pc = "done", !.status = 500])

UpdateProject(r) ==
  /\ req[r].pc = "update" /\ req[r].op = "update_project"
  /\ LET p == req[r].pid IN
     \/ /\ p # 0 /\ FreeProjectName(req[r].name, p)
        /\ projects' = [projects EXCEPT ![p] = req[r].name]
        /\ Updated(r, p, "get_project")
     \/ /\ p = 0 /\ Updated(r, 0, "get_project")
        /\ UNCHANGED projects
     \/ /\ DbMayFail \/ (p # 0 /\ ~FreeProjectName(req[r].name, p))
        /\ Refuse(r) /\ UNCHANGED projects
  /\ UNCHANGED <<items, users>>

\* Mutant of ItemWhere: the statement looks at the display id only.
ItemWhereDisplayID(kind, project, iid) == IF iid # 0 /\ items[iid].kind = kind THEN {iid} ELSE {}

\* WHERE project_id = $1 AND display_id = $2, in the table of the kind.
ItemWhere(kind, project, iid) ==
  IF iid # 0 /\ items[iid].kind = kind /\ items[iid].project = project THEN {iid} ELSE {}

UpdateItem(r) ==
  /\ req[r].pc = "update" /\ req[r].op = "update_item"
  /\ LET found == ItemWhere(req[r].kind, req[r].row, req[r].iid)
         taken(i) == ~FreeItemName(req[r].kind, items[i].project, req[r].name, i) IN
     \/ \E i \in found :
          /\ ~taken(i)
          /\ items' = [items EXCEPT ![i].name = req[r].name]
          /\ Updated(r, i, "get_back")
     \/ found = {} /\ Updated(r, 0, "get_back") /\ UNCHANGED items
     \/ /\ DbMayFail \/ \E i \in found : taken(i)
        /\ Refuse(r) /\ UNCHANGED items
  /\ UNCHANGED <<projects, users>>

\* Mutant of BackRows: the newest user is taken for the new one.
BackRowsNewest(q) ==
  CASE q.op = "create_project" -> {p \in DOMAIN projects : projects[p] = q.name}
    [] q.op = "create_user" -> {Len(users)} \ {0}
    [] OTHER -> ItemWhere(q.kind, q.row, q.iid)

\* The SELECT that ends a handler: the new project by its name, the new user by
\* the email, the role or user group by project and display id.
BackRows(q) ==
  CASE q.op = "create_project" -> {p \in DOMAIN projects : projects[p] = q.name}
    [] q.op = "create_user" -> {u \in DOMAIN users : users[u] = q.name}
    [] OTHER -> ItemWhere(q.kind, q.row, q.iid)

GetBack(r) ==
  /\ req[r].pc = "get_back"
  /\ \/ \E b \in BackRows(req[r]) :
          Move(r, [req[r] EXCEPT
            !.list = {b},
            !.pc = IF req[r].op = "get_item" /\ req[r].kind = "usergroup" THEN "members" ELSE "done",
            !.status = IF req[r].op \in {"create_project", "create_user"} THEN 201
                       ELSE IF req[r].op = "get_item" /\ req[r].kind = "usergroup" THEN 0 ELSE 200])
     \/ BackRows(req[r]) = {} /\ Error(r)
     \/ DbMayFail /\ Error(r)
  /\ UNCHANGED tables

\* ListUserGroupMembers, the third query of GetUserGroup: no code adds members.
GetMembers(r) ==
  /\ req[r].pc = "members"
  /\ Respond(r, 200) \/ (DbMayFail /\ Error(r))
  /\ UNCHANGED tables

\* ListRoles and ListUserGroups: the handlers leave ProjectID at its zero value.
ListItems(r) ==
  /\ req[r].pc = "list"
  /\ \/ Move(r, [req[r] EXCEPT !.pc = "done", !.status = 200,
           !.list = {i \in DOMAIN items : items[i].kind = req[r].kind /\ items[i].project = 0}])
     \/ DbMayFail /\ Error(r)
  /\ UNCHANGED tables

\* The response leaves.
Leave(r) ==
  /\ req[r].pc = "done"
  /\ Move(r, Idle)
  /\ UNCHANGED tables

-----------------------------------------------------------------------------
(* The lists of projects and users, page by page.  Each page is a request of *)
(* its own with one statement; when it fails the client asks again.          *)

Rows(table) == IF table = "projects" THEN projects ELSE users

BeginPaging(table) ==
  /\ pager.table = "none"
  /\ pager' = [NoPager EXCEPT !.table = table, !.due = DOMAIN Rows(table)]
  /\ UNCHANGED <<tables, req>>

\* Mutant of Page: the first row of the offset is taken for the last one seen.
PageAfter(table, limit, offset) ==
  LET n == Len(Rows(table)) IN {i \in 1..n : n - i \in offset + 1 .. offset + limit}

\* ORDER BY created_at DESC LIMIT limit OFFSET offset.
Page(table, limit, offset) ==
  LET n == Len(Rows(table)) IN {i \in 1..n : n - i \in offset .. offset + limit - 1}

\* ListProjects and ListUsers, and what the client does with the answer.
NextPage ==
  /\ pager.table # "none" /\ ~pager.over
  /\ LET page == Page(pager.table, PageSize, pager.offset) IN
     pager' = [pager EXCEPT !.offset = @ + PageSize, !.seen = @ \cup page,
                            !.over = Cardinality(page) < PageSize]
  /\ UNCHANGED <<tables, req>>

EndPaging ==
  /\ pager.over
  /\ pager' = NoPager
  /\ UNCHANGED <<tables, req>>

Requests ==
  \E r \in Reqs :
    \/ Begin(r) \/ GetProject(r) \/ Insert(r) \/ UpdateProject(r) \/ UpdateItem(r)
    \/ GetBack(r) \/ GetMembers(r) \/ ListItems(r) \/ Leave(r)

Next ==
  \/ Requests /\ UNCHANGED pager
  \/ \E table \in {"projects", "users"} : BeginPaging(table)
  \/ NextPage \/ EndPaging

Spec == Init /\ [][Next]_vars

-----------------------------------------------------------------------------
(* Properties. *)

Numbers == 1..MaxRows
TypeOK ==
  /\ projects \in Seq(Names) /\ users \in Seq(Names)
  /\ items \in Seq([kind : Kinds, project : Numbers, name : Names])
  /\ req \in [Reqs -> [pc : Pcs, op : Ops, kind : Kinds, pid : 0..MaxRows, iid : 0..MaxRows,
                       name : Names \cup {NoName}, row : 0..MaxRows, list : SUBSET Numbers,
                       mine : 0..MaxRows, status : {0, 200, 201, 500}]]
  /\ pager \in [table : {"none", "projects", "users"}, offset : Nat, seen : SUBSET Numbers,
                due : SUBSET Numbers, over : BOOLEAN]

Answered(r) == req[r].pc = "done" /\ req[r].status \in {200, 201}

\* A request that writes is answered with success only after its own statement
\* changed the database, although the answer is built from a row read in
\* another statement, which some other request may have written or renamed.
SuccessMeansWritten ==
  \A r \in Reqs : Answered(r) /\ req[r].op \in Writes => req[r].mine # 0

\* A role or user group is answered only by a request for the project it
\* belongs to, and of the right kind.
AnswersStayInProject ==
  \A r \in Reqs : Answered(r) /\ req[r].op \in ItemOps =>
    \A i \in req[r].list : items[i].project = req[r].pid /\ items[i].kind = req[r].kind

\* A role or user group is changed only by an update of that row through its
\* own project: never by an update that resolved another project.
WritesStayInProject ==
  [][\A i \in DOMAIN items : items'[i] # items[i] =>
       \E r \in Reqs : /\ req[r].op = "update_item" /\ req[r].iid = i
                       /\ req[r].pid = items[i].project /\ req[r].kind = items[i].kind]_vars

\* CreateUser reads its user back by email, and emails never change: the user
\* it answers is the one it inserted.  (CreateProject cannot promise this: a
\* rename between its two statements frees the name.)
CreatedUserIsOwn ==
  \A r \in Reqs : Answered(r) /\ req[r].op = "create_user" => req[r].list = {req[r].mine}

\* "Retrieve a list of all roles in a project.": a list answered with success
\* holds the items of the project.
ListsTheProject ==
  [][\A r \in Reqs : req[r].pc = "list" /\ req'[r].status = 200 =>
       req'[r].list = {i \in DOMAIN items : items[i].kind = req[r].kind /\ items[i].project = req[r].pid}]_vars

\* A client that reads a list to its end page by page has seen every row there
\* was when it began, whatever is inserted or renamed between two pages: new rows
\* come first and only push older ones on, so that a row may be seen twice and
\* never be skipped.  (Of rows with the same created_at nothing is promised.)
NothingSkipped == pager.over => pager.due \subseteq pager.seen
=============================================================================
