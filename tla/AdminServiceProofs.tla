-------------------------- MODULE AdminServiceProofs --------------------------
(***************************************************************************)
(* Proofs about AdminService, for any number of requests, names and rows,  *)
(* any page size, and whatever statements fail.                            *)
(*                                                                         *)
(* A handler remembers what earlier statements found (Good).  That is      *)
(* still true when it goes on because tables only grow and a row never     *)
(* changes its project, its kind or its email (Grow).                      *)
(***************************************************************************)
EXTENDS AdminService, SequenceTheorems, FiniteSetTheorems, Integers, TLAPS

Statuses == {0, 200, 201, 500}
Request == [pc : Pcs, op : Ops, kind : Kinds, pid : 0..MaxRows, iid : 0..MaxRows,
            name : Names \cup {NoName}, row : 0..MaxRows, list : SUBSET Numbers,
            mine : 0..MaxRows, status : Statuses]
Item == [kind : Kinds, project : Numbers, name : Names]
Pager == [table : {"none", "projects", "users"}, offset : Nat, seen : SUBSET Numbers,
          due : SUBSET Numbers, over : BOOLEAN]
Requested == req \in [Reqs -> Request]

\* Row i is a role or user group of this project and kind.
Of(i, kind, pid, it) == i \in DOMAIN it /\ it[i].project = pid /\ it[i].kind = kind

\* The parameters: display ids were resolved, names are there to be written.
GoodParameters(q, prj, it) ==
  /\ q.pid # 0 => q.pid \in DOMAIN prj
  /\ q.iid # 0 => q.iid \in DOMAIN it
  /\ q.op \in Writes /\ q.pc # "idle" => q.name \in Names

\* Where a handler stands, and what it has resolved.
GoodPlace(q) ==
  /\ q.pc = "insert" => q.op \in {"create_item", "create_project", "create_user"}
  /\ q.pc = "update" => q.op \in {"update_item", "update_project"}
  /\ q.pc = "get_back" => q.op \in {"create_project", "create_user", "get_item", "update_item"}
  /\ q.pc = "get_project" => q.op \in ItemOps \cup {"get_project", "update_project"}
  /\ q.pc = "list" => q.op = "list_items"
  /\ q.pc = "members" => q.op = "get_item"
  /\ q.pc \in {"insert", "update", "get_back"} /\ q.op \in ItemOps => q.row = q.pid /\ q.pid # 0

\* What it has written.
GoodWrite(q, it, us) ==
  /\ q.pc = "get_project" /\ q.op = "update_project" /\ q.mine = 0 => q.pid = 0
  /\ q.pc = "get_back" /\ q.op \in {"create_project", "create_user"} => q.mine # 0
  /\ q.pc = "get_back" /\ q.op = "create_user" => q.mine \in DOMAIN us /\ us[q.mine] = q.name
  /\ q.pc = "get_back" /\ q.op = "update_item" /\ q.mine = 0 =>
       ~(q.iid # 0 /\ Of(q.iid, q.kind, q.pid, it))

\* What it answers.
GoodAnswer(q, it) ==
  /\ q.op \in ItemOps => \A i \in q.list : Of(i, q.kind, q.pid, it)
  /\ q.pc = "done" /\ q.status \in {200, 201} /\ q.op \in Writes => q.mine # 0
  /\ q.pc = "done" /\ q.status \in {200, 201} /\ q.op = "create_user" => q.list = {q.mine}

Good(q, prj, it, us) ==
  GoodParameters(q, prj, it) /\ GoodPlace(q) /\ GoodWrite(q, it, us) /\ GoodAnswer(q, it)

AllGood == \A r \in Reqs : Good(req[r], projects, items, users)

Tables ==
  /\ projects \in Seq(Names) /\ users \in Seq(Names) /\ items \in Seq(Item)
  /\ Len(projects) <= MaxRows /\ Len(users) <= MaxRows /\ Len(items) <= MaxRows
  /\ \A u, v \in DOMAIN users : users[u] = users[v] => u = v

\* The rows behind the offset have been seen.
Behind ==
  /\ pager.due \subseteq DOMAIN Rows(pager.table)
  /\ \A i \in pager.due : Len(Rows(pager.table)) - i < pager.offset => i \in pager.seen
  /\ pager.table = "none" => pager.due = {}
  /\ pager.over => pager.due \subseteq pager.seen

AInv == TypeOK /\ Tables /\ AllGood /\ Behind

\* What no statement ever undoes.
Grow ==
  /\ DOMAIN projects \subseteq DOMAIN projects'
  /\ DOMAIN items \subseteq DOMAIN items'
  /\ DOMAIN users \subseteq DOMAIN users'
  /\ Len(projects) <= Len(projects') /\ Len(users) <= Len(users')
  /\ \A i \in DOMAIN items : items'[i].kind = items[i].kind /\ items'[i].project = items[i].project
  /\ \A u \in DOMAIN users : users'[u] = users[u]

-----------------------------------------------------------------------------
LEMMA Fields ==
  ASSUME NEW q \in Request
  PROVE  /\ q.pc \in Pcs /\ q.op \in Ops /\ q.kind \in Kinds
         /\ q.pid \in 0..MaxRows /\ q.iid \in 0..MaxRows /\ q.row \in 0..MaxRows
         /\ q.name \in Names \cup {NoName} /\ q.list \in SUBSET Numbers
         /\ q.mine \in 0..MaxRows /\ q.status \in Statuses
  BY DEF Request

\* A request with one field changed.
WithPc(q, pc) == [q EXCEPT !.pc = pc]
WithStatus(q, status) == [q EXCEPT !.status = status]
WithList(q, list) == [q EXCEPT !.list = list]
WithMine(q, mine) == [q EXCEPT !.mine = mine]
WithRow(q, row) == [q EXCEPT !.row = row]

WithParameters(q, op, kind, pid, iid, name) ==
  [q EXCEPT !.op = op, !.kind = kind, !.pid = pid, !.iid = iid, !.name = name]

Like(n, q) == n.op = q.op /\ n.kind = q.kind /\ n.pid = q.pid /\ n.iid = q.iid /\ n.name = q.name

LEMMA SetPc ==
  ASSUME NEW q \in Request, NEW pc \in Pcs
  PROVE  LET n == WithPc(q, pc) IN
         /\ n \in Request /\ Like(n, q) /\ n.pc = pc
         /\ n.row = q.row /\ n.list = q.list /\ n.mine = q.mine /\ n.status = q.status
  BY DEF Request, Like, WithPc

LEMMA SetRow ==
  ASSUME NEW q \in Request, NEW row \in 0..MaxRows
  PROVE  LET n == WithRow(q, row) IN
         /\ n \in Request /\ Like(n, q) /\ n.row = row
         /\ n.pc = q.pc /\ n.list = q.list /\ n.mine = q.mine /\ n.status = q.status
  BY DEF Request, Like, WithRow

LEMMA SetList ==
  ASSUME NEW q \in Request, NEW list \in SUBSET Numbers
  PROVE  LET n == WithList(q, list) IN
         /\ n \in Request /\ Like(n, q) /\ n.list = list
         /\ n.pc = q.pc /\ n.row = q.row /\ n.mine = q.mine /\ n.status = q.status
  BY DEF Request, Like, WithList

LEMMA SetMine ==
  ASSUME NEW q \in Request, NEW mine \in 0..MaxRows
  PROVE  LET n == WithMine(q, mine) IN
         /\ n \in Request /\ Like(n, q) /\ n.mine = mine
         /\ n.pc = q.pc /\ n.row = q.row /\ n.list = q.list /\ n.status = q.status
  BY DEF Request, Like, WithMine

LEMMA SetStatus ==
  ASSUME NEW q \in Request, NEW status \in Statuses
  PROVE  LET n == WithStatus(q, status) IN
         /\ n \in Request /\ Like(n, q) /\ n.status = status
         /\ n.pc = q.pc /\ n.row = q.row /\ n.list = q.list /\ n.mine = q.mine
  BY DEF Request, Like, WithStatus

LEMMA SetParameters ==
  ASSUME NEW q \in Request, NEW op \in Ops, NEW kind \in Kinds, NEW pid \in 0..MaxRows,
         NEW iid \in 0..MaxRows, NEW name \in Names \cup {NoName}
  PROVE  WithParameters(q, op, kind, pid, iid, name) \in Request
<1>1. [q EXCEPT !.op = op] \in Request
  BY DEF Request
<1> DEFINE q1 == [q EXCEPT !.op = op]
<1>2. [q1 EXCEPT !.kind = kind] \in Request
  <2>1. q1 \in Request
    BY <1>1
  <2> HIDE DEF q1
  <2> QED BY <2>1 DEF Request
<1> DEFINE q2 == [q1 EXCEPT !.kind = kind]
<1>3. [q2 EXCEPT !.pid = pid] \in Request
  <2>1. q2 \in Request
    BY <1>2
  <2> HIDE DEF q2
  <2> QED BY <2>1 DEF Request
<1> DEFINE q3 == [q2 EXCEPT !.pid = pid]
<1>4. [q3 EXCEPT !.iid = iid] \in Request
  <2>1. q3 \in Request
    BY <1>3
  <2> HIDE DEF q3
  <2> QED BY <2>1 DEF Request
<1> DEFINE q4 == [q3 EXCEPT !.iid = iid]
<1>5. [q4 EXCEPT !.name = name] \in Request
  <2>1. q4 \in Request
    BY <1>4
  <2> HIDE DEF q4
  <2> QED BY <2>1 DEF Request
<1> QED BY <1>5 DEF WithParameters

LEMMA TheRequest ==
  ASSUME AInv, NEW r \in Reqs
  PROVE  req[r] \in Request /\ Good(req[r], projects, items, users)
  BY DEF AInv, TypeOK, AllGood, Request, Statuses

LEMMA TypesOfTables ==
  ASSUME Requested, Tables, pager \in Pager
  PROVE  TypeOK
  BY DEF Requested, Request, Statuses, Tables, TypeOK, Item, Pager

LEMMA GoodStays ==
  ASSUME Grow, NEW q \in Request, Good(q, projects, items, users)
  PROVE  Good(q, projects', items', users')
<1>1. GoodParameters(q, projects', items')
  BY DEF Grow, Good, GoodParameters
<1>2. \A i : Of(i, q.kind, q.pid, items) => Of(i, q.kind, q.pid, items')
  BY DEF Grow, Of
<1>3. q.iid # 0 /\ Of(q.iid, q.kind, q.pid, items') => Of(q.iid, q.kind, q.pid, items)
  BY DEF Grow, Of, Good, GoodParameters
<1>4. GoodWrite(q, items', users')
  BY <1>3 DEF Grow, Good, GoodWrite
<1>5. GoodAnswer(q, items')
  BY <1>2 DEF Good, GoodAnswer
<1> QED BY <1>1, <1>4, <1>5 DEF Good

LEMMA NothingGrows ==
  ASSUME UNCHANGED tables
  PROVE  Grow
  BY DEF tables, Grow

\* One request moves to a state in which it is good again.
LEMMA MoveKeeps ==
  ASSUME AInv, NEW r \in Reqs, NEW q \in Request, Move(r, q), Grow, Good(q, projects', items', users')
  PROVE  Requested' /\ AllGood'
<1>1. req \in [Reqs -> Request] /\ req' = [req EXCEPT ![r] = q]
  BY DEF AInv, TypeOK, Move, Request, Statuses
<1>2. req' \in [Reqs -> Request]
  BY <1>1
<1>3. ASSUME NEW x \in Reqs PROVE Good(req'[x], projects', items', users')
  <2>1. CASE x = r
    BY <1>1, <2>1
  <2>2. CASE x # r
    BY <1>1, <2>2, GoodStays, TheRequest
  <2> QED BY <2>1, <2>2
<1> QED BY <1>2, <1>3 DEF Requested, AllGood

\* Rows that are added come before those that are due.
LEMMA BehindStays ==
  ASSUME AInv, Grow, Tables', UNCHANGED pager
  PROVE  Behind'
<1>1. pager \in Pager /\ Behind
  BY DEF AInv, TypeOK, Pager
<1> DEFINE t == Rows(pager.table)
<1>2. /\ DOMAIN t \subseteq DOMAIN t' /\ Len(t) <= Len(t') /\ Len(t) \in Nat /\ Len(t') \in Nat
      /\ DOMAIN t = 1..Len(t)
  BY DEF Rows, Grow, AInv, Tables
<1>3. pager.due \subseteq DOMAIN t'
  BY <1>1, <1>2 DEF Behind
<1>4. ASSUME NEW i \in pager.due, Len(t') - i < pager.offset
      PROVE  i \in pager.seen
  <2>1. i \in Int /\ pager.offset \in Nat
    BY <1>1, <1>2 DEF Behind, Pager
  <2>2. Len(t) - i < pager.offset
    BY <1>2, <1>4, <2>1
  <2> QED BY <1>1, <2>2 DEF Behind
<1> QED BY <1>1, <1>3, <1>4 DEF Behind

\* A step of one request.
LEMMA RequestSteps ==
  ASSUME AInv, NEW r \in Reqs, NEW q \in Request, Move(r, q), Grow, Good(q, projects', items', users'),
         Tables', UNCHANGED pager
  PROVE  AInv'
<1>1. Requested' /\ AllGood'
  BY MoveKeeps
<1>2. Behind'
  BY BehindStays
<1>3. TypeOK'
  <2>1. pager' \in Pager
    BY DEF AInv, TypeOK, Pager
  <2> QED BY <1>1, <2>1 DEF Requested, Request, Statuses, Tables, TypeOK, Item, Pager
<1> QED BY <1>1, <1>2, <1>3 DEF AInv

\* A step of one request that only reads.
LEMMA ReadSteps ==
  ASSUME AInv, NEW r \in Reqs, NEW q \in Request, Move(r, q), Good(q, projects, items, users),
         UNCHANGED tables, UNCHANGED pager
  PROVE  AInv'
<1>1. Grow
  BY NothingGrows
<1>2. Good(q, projects', items', users') /\ Tables'
  BY DEF tables, AInv, Tables
<1> QED BY <1>1, <1>2, RequestSteps

\* An error is a good answer at every point.
LEMMA ErrorGood ==
  ASSUME NEW prj, NEW it, NEW us, NEW q \in Request, Good(q, prj, it, us), q.pc # "idle"
  PROVE  LET n == [q EXCEPT !.pc = "done", !.status = 500] IN
         n \in Request /\ Good(n, prj, it, us)
<1> DEFINE n == WithStatus(WithPc(q, "done"), 500)
<1>1. n \in Request /\ Like(n, q) /\ n.pc = "done" /\ n.status = 500 /\ n.list = q.list
  BY SetPc, SetStatus DEF Pcs, Statuses, Like
<1> HIDE DEF n
<1>2. Good(n, prj, it, us)
  BY <1>1 DEF Like, Good, GoodParameters, GoodPlace, GoodWrite, GoodAnswer
<1> QED BY <1>1, <1>2 DEF n, WithPc, WithStatus

LEMMA ErrorSteps ==
  ASSUME AInv, NEW r \in Reqs, Error(r), req[r].pc # "idle", UNCHANGED tables, UNCHANGED pager
  PROVE  AInv'
<1> DEFINE q == req[r]
           n == [q EXCEPT !.pc = "done", !.status = 500]
<1>1. q \in Request /\ Good(q, projects, items, users)
  BY TheRequest
<1>2. q.pc # "idle"
  OBVIOUS
<1>3. Move(r, n)
  BY DEF Error, Respond
<1> HIDE DEF q
<1>4. n \in Request /\ Good(n, projects, items, users)
  BY ZenonT(40), <1>1, <1>2, ErrorGood
<1> HIDE DEF n
<1> QED BY <1>3, <1>4, ReadSteps

-----------------------------------------------------------------------------
LEMMA NoRequest ==
  /\ Idle \in Request
  /\ \A prj, it, us : Good(Idle, prj, it, us)
<1>1. Idle \in Request
  BY RowsAssumption DEF Idle, Request, Pcs, Ops, ItemOps, Kinds, Statuses
<1>2. ASSUME NEW prj, NEW it, NEW us PROVE Good(Idle, prj, it, us)
  BY DEF Idle, Good, GoodParameters, GoodPlace, GoodWrite, GoodAnswer, ItemOps, Writes
<1> QED BY <1>1, <1>2

LEMMA InitAInv == Init => AInv
<1> SUFFICES ASSUME Init PROVE AInv
  OBVIOUS
<1>1. Tables
  BY EmptySeq, RowsAssumption DEF Init, Tables
<1>2. Requested /\ AllGood
  BY NoRequest DEF Init, Requested, AllGood
<1>3. Behind
  BY DEF Init, NoPager, Behind
<1>4. pager \in Pager
  BY DEF Init, NoPager, Pager
<1> QED BY <1>1, <1>2, <1>3, <1>4, TypesOfTables DEF AInv

LEMMA BeginAInv ==
  ASSUME AInv, NEW r \in Reqs, Begin(r), UNCHANGED pager
  PROVE  AInv'
<1>1. PICK op \in Called, kind \in Kinds, pid \in 0..Len(projects), iid \in 0..Len(items),
           name \in Names \cup {NoName} :
        /\ op \in Writes <=> name # NoName
        /\ op \in {"create_project", "get_project", "update_project", "create_user"} => kind = "role"
        /\ op \in {"create_project", "create_user"} => pid = 0
        /\ op \notin {"get_item", "update_item"} => iid = 0
        /\ Move(r, [Idle EXCEPT !.pc = FirstPc(op), !.op = op, !.kind = kind,
                                !.pid = pid, !.iid = iid, !.name = name])
  BY DEF Begin
<1> DEFINE n == [Idle EXCEPT !.pc = FirstPc(op), !.op = op, !.kind = kind,
                             !.pid = pid, !.iid = iid, !.name = name]
<1>2. Move(r, n) /\ UNCHANGED tables
  BY <1>1 DEF Begin
<1>3. op \in Ops /\ FirstPc(op) \in Pcs
  BY CalledAssumption DEF FirstPc, Pcs
<1>4. /\ pid \in 0..MaxRows /\ (pid # 0 => pid \in DOMAIN projects)
      /\ iid \in 0..MaxRows /\ (iid # 0 => iid \in DOMAIN items)
  BY RowsAssumption DEF AInv, Tables
<1>5. n \in Request
  <2>1. WithPc(Idle, FirstPc(op)) \in Request
    BY <1>3, NoRequest, SetPc
  <2> QED BY <2>1, <1>3, <1>4, SetParameters DEF WithPc, WithParameters
<1>6. /\ n.pc = FirstPc(op) /\ n.op = op /\ n.pid = pid /\ n.iid = iid /\ n.name = name
      /\ n.list = {} /\ n.mine = 0 /\ n.status = 0
  BY DEF Idle
<1> HIDE DEF n
<1>7. op \in Writes => name \in Names
  BY <1>1
<1>8. GoodParameters(n, projects, items)
  BY <1>4, <1>6, <1>7 DEF GoodParameters
<1>9. GoodPlace(n) /\ GoodWrite(n, items, users) /\ GoodAnswer(n, items)
  BY <1>3, <1>6 DEF FirstPc, Ops, ItemOps, GoodPlace, GoodWrite, GoodAnswer
<1> QED BY <1>2, <1>5, <1>8, <1>9, ReadSteps DEF Good

LEMMA GetProjectAInv ==
  ASSUME AInv, NEW r \in Reqs, GetProject(r), UNCHANGED pager
  PROVE  AInv'
<1> DEFINE q == req[r]
           n == WithStatus(WithRow(WithPc(q, Proceed(q.op)), q.pid),
                           IF Proceed(q.op) = "done" THEN 200 ELSE 0)
<1>1. /\ q \in Request /\ Good(q, projects, items, users) /\ q.pc = "get_project"
      /\ UNCHANGED tables
  BY TheRequest DEF GetProject
<1>2. CASE Error(r)
  BY <1>1, <1>2, ErrorSteps
<1>3. CASE q.pid # 0 /\ Move(r, n)
  <2>1. Proceed(q.op) \in Pcs /\ q.pid \in 0..MaxRows
    BY <1>1, Fields DEF Proceed, Pcs
  <2>2. /\ n \in Request /\ Like(n, q) /\ n.pc = Proceed(q.op) /\ n.row = q.pid
        /\ n.list = q.list /\ n.mine = q.mine
    <3> HIDE DEF q
    <3> QED BY <1>1, <2>1, SetPc, SetRow, SetStatus DEF Like, Statuses
  <2> HIDE DEF n
  <2>3. q.op \in ItemOps \cup {"get_project", "update_project"}
    BY <1>1 DEF Good, GoodPlace
  <2>4. GoodParameters(n, projects, items)
    BY <1>1, <2>2 DEF Like, Good, GoodParameters
  <2>5. GoodPlace(n)
    BY <1>3, <2>2, <2>3 DEF Like, GoodPlace, Proceed, ItemOps
  <2>6. GoodWrite(n, items, users)
    BY <2>2, <2>3 DEF Like, GoodWrite, Proceed, ItemOps
  <2>7. GoodAnswer(n, items)
    <3>1. n.pc = "done" /\ n.op \in Writes => n.op = "update_project"
      BY <2>2, <2>3 DEF Like, Proceed, Writes, ItemOps
    <3>2. q.op = "update_project" => q.mine # 0
      BY <1>1, <1>3 DEF Good, GoodWrite
    <3> QED BY <1>1, <2>2, <3>1, <3>2 DEF Like, Good, GoodAnswer, Writes
  <2> QED BY <1>1, <1>3, <2>2, <2>4, <2>5, <2>6, <2>7, ReadSteps DEF Good
<1>4. Error(r) \/ (q.pid # 0 /\ Move(r, n))
  BY DEF GetProject, WithPc, WithRow, WithStatus
<1> QED BY <1>2, <1>3, <1>4

LEMMA MembersAInv ==
  ASSUME AInv, NEW r \in Reqs, GetMembers(r), UNCHANGED pager
  PROVE  AInv'
<1> DEFINE q == req[r]
           n == WithStatus(WithPc(q, "done"), 200)
<1>1. /\ q \in Request /\ Good(q, projects, items, users) /\ q.pc = "members"
      /\ UNCHANGED tables
  BY TheRequest DEF GetMembers
<1>2. CASE Error(r)
  BY <1>1, <1>2, ErrorSteps
<1>3. CASE Respond(r, 200)
  <2>1. Move(r, n)
    BY <1>3 DEF Respond, WithPc, WithStatus
  <2>2. n \in Request /\ Like(n, q) /\ n.pc = "done" /\ n.list = q.list
    <3> HIDE DEF q
    <3> QED BY <1>1, SetPc, SetStatus DEF Like, Statuses, Pcs
  <2> HIDE DEF n
  <2>3. q.op = "get_item"
    BY <1>1 DEF Good, GoodPlace
  <2>4. Good(n, projects, items, users)
    BY <1>1, <2>2, <2>3 DEF Like, Good, GoodParameters, GoodPlace, GoodWrite, GoodAnswer, Writes
  <2> QED BY <1>1, <2>1, <2>2, <2>4, ReadSteps
<1> QED BY <1>2, <1>3 DEF GetMembers

LEMMA ListAInv ==
  ASSUME AInv, NEW r \in Reqs, ListItems(r), UNCHANGED pager
  PROVE  AInv'
<1> DEFINE q == req[r]
           list == {i \in DOMAIN items : items[i].kind = q.kind /\ items[i].project = 0}
           n == WithList(WithStatus(WithPc(q, "done"), 200), list)
<1>1. /\ q \in Request /\ Good(q, projects, items, users) /\ q.pc = "list"
      /\ UNCHANGED tables
  BY TheRequest DEF ListItems
<1>2. CASE Error(r)
  BY <1>1, <1>2, ErrorSteps
<1>3. CASE ~Error(r)
  <2>1. Move(r, n)
    BY <1>3 DEF ListItems, WithPc, WithStatus, WithList
  <2>2. list \in SUBSET Numbers
    BY RowsAssumption DEF AInv, Tables, Numbers
  <2>3. n \in Request /\ Like(n, q) /\ n.pc = "done"
    <3> HIDE DEF q, list
    <3> QED BY <1>1, <2>2, SetPc, SetStatus, SetList DEF Like, Statuses, Pcs
  <2> HIDE DEF n
  <2>4. q.op = "list_items"
    BY <1>1 DEF Good, GoodPlace
  <2>5. Good(n, projects, items, users)
    BY <1>1, <2>3, <2>4
       DEF Like, Good, GoodParameters, GoodPlace, GoodWrite, GoodAnswer, ItemOps, Writes
  <2> QED BY <1>1, <2>1, <2>3, <2>5, ReadSteps
<1> QED BY <1>2, <1>3

LEMMA LeaveAInv ==
  ASSUME AInv, NEW r \in Reqs, Leave(r), UNCHANGED pager
  PROVE  AInv'
  BY NoRequest, ReadSteps DEF Leave

-----------------------------------------------------------------------------
(* The statements that write.                                              *)

\* A row at the end of each table.
LEMMA AppendGrows ==
  ASSUME NEW S, NEW s \in Seq(S), NEW e \in S, Len(s) < MaxRows
  PROVE  LET t == Append(s, e) IN
         /\ t \in Seq(S) /\ Len(t) = Len(s) + 1 /\ Len(t) <= MaxRows
         /\ DOMAIN s \subseteq DOMAIN t /\ DOMAIN t = DOMAIN s \cup {Len(s) + 1}
         /\ Len(s) + 1 \notin DOMAIN s /\ Len(s) <= Len(t)
         /\ Len(s) + 1 \in 0..MaxRows /\ Len(s) + 1 # 0
         /\ (\A i \in DOMAIN s : t[i] = s[i]) /\ t[Len(s) + 1] = e
<1> DEFINE t == Append(s, e)
<1>1. /\ t \in Seq(S) /\ Len(t) = Len(s) + 1 /\ t[Len(s) + 1] = e
      /\ \A i \in 1..Len(s) : t[i] = s[i]
  BY AppendProperties
<1> HIDE DEF t
<1>2. DOMAIN s = 1..Len(s) /\ DOMAIN t = 1..Len(t) /\ Len(s) \in Nat
  BY <1>1
<1>3. /\ DOMAIN s \subseteq DOMAIN t /\ DOMAIN t = DOMAIN s \cup {Len(s) + 1}
      /\ Len(s) + 1 \notin DOMAIN s /\ Len(s) <= Len(t) /\ Len(t) <= MaxRows
      /\ Len(s) + 1 \in 0..MaxRows /\ Len(s) + 1 # 0
  BY <1>1, <1>2, RowsAssumption
<1> QED BY <1>1, <1>2, <1>3 DEF t

\* What InsertRow leaves, committed or not: with the row in the table, the
\* handler knows the row it has written.
LEMMA InsertedSteps ==
  ASSUME AInv, NEW r \in Reqs, req[r].pc = "insert", NEW mine \in 0..MaxRows, mine # 0,
         Grow, Tables', UNCHANGED pager,
         req[r].op = "create_user" => mine \in DOMAIN users' /\ users'[mine] = req[r].name,
         LET inserted == [req[r] EXCEPT !.mine = mine, !.pc = AfterInsert(req[r].op),
                            !.status = IF AfterInsert(req[r].op) = "done" THEN 201 ELSE 0] IN
         \/ Move(r, inserted)
         \/ DbMayFail /\ Move(r, [inserted EXCEPT !.pc = "done", !.status = 500])
  PROVE  AInv'
<1> DEFINE q == req[r]
           n == WithStatus(WithPc(WithMine(q, mine), AfterInsert(q.op)),
                           IF AfterInsert(q.op) = "done" THEN 201 ELSE 0)
<1>1. q \in Request /\ Good(q, projects', items', users')
  BY TheRequest, GoodStays
<1>2. AfterInsert(q.op) \in Pcs
  BY DEF AfterInsert, Pcs
<1>3. /\ n \in Request /\ Like(n, q) /\ n.pc = AfterInsert(q.op)
      /\ n.row = q.row /\ n.list = q.list /\ n.mine = mine
  <2> HIDE DEF q
  <2> QED BY <1>1, <1>2, SetMine, SetPc, SetStatus DEF Like, Statuses
<1>4. Move(r, n) \/ Move(r, [n EXCEPT !.pc = "done", !.status = 500])
  BY DEF WithPc, WithMine, WithStatus
<1> HIDE DEF n
<1>5. q.op \in {"create_item", "create_project", "create_user"} /\ n.pc \in {"get_back", "done"}
  BY <1>1, <1>3 DEF Good, GoodPlace, AfterInsert
<1>6. Good(n, projects', items', users')
  <2>1. GoodParameters(n, projects', items')
    BY <1>1, <1>3 DEF Like, Good, GoodParameters
  <2>2. GoodPlace(n)
    BY <1>3, <1>5 DEF Like, GoodPlace, AfterInsert, ItemOps
  <2>3. GoodWrite(n, items', users')
    BY <1>3, <1>5 DEF Like, GoodWrite
  <2>4. GoodAnswer(n, items')
    BY <1>1, <1>3, <1>5 DEF Like, Good, GoodAnswer, AfterInsert
  <2> QED BY <2>1, <2>2, <2>3, <2>4 DEF Good
<1>7. CASE Move(r, n)
  BY <1>3, <1>6, <1>7, RequestSteps
<1>8. CASE Move(r, [n EXCEPT !.pc = "done", !.status = 500])
  <2> DEFINE x == [n EXCEPT !.pc = "done", !.status = 500]
  <2>1. x \in Request /\ Good(x, projects', items', users')
    <3>1. n.pc # "idle"
      BY <1>5
    <3> QED BY ZenonT(40), <1>3, <1>6, <3>1, ErrorGood
  <2>2. Move(r, x)
    BY <1>8
  <2> HIDE DEF x
  <2> QED BY <2>1, <2>2, RequestSteps
<1> QED BY <1>4, <1>7, <1>8

LEMMA InsertProjectAInv ==
  ASSUME AInv, NEW r \in Reqs, req[r].pc = "insert", InsertProject(r), UNCHANGED pager
  PROVE  AInv'
<1> DEFINE mine == Len(projects) + 1
<1>1. req[r].name \in Names /\ req[r].op = "create_project"
  BY TheRequest DEF InsertProject, Good, GoodParameters, Writes
<1>2. projects' = Append(projects, req[r].name) /\ Len(projects) < MaxRows /\ UNCHANGED <<items, users>>
  BY DEF InsertProject, InsertRow
<1>3. projects \in Seq(Names) /\ Tables
  BY DEF AInv, Tables
<1>4. /\ projects' \in Seq(Names) /\ Len(projects') <= MaxRows
      /\ DOMAIN projects \subseteq DOMAIN projects' /\ Len(projects) <= Len(projects')
      /\ mine \in 0..MaxRows /\ mine # 0
  BY <1>1, <1>2, <1>3, AppendGrows
<1>5. Tables' /\ Grow
  BY <1>2, <1>3, <1>4 DEF Tables, Grow
<1>6. LET inserted == [req[r] EXCEPT !.mine = mine, !.pc = AfterInsert(req[r].op),
                         !.status = IF AfterInsert(req[r].op) = "done" THEN 201 ELSE 0] IN
      \/ Move(r, inserted)
      \/ DbMayFail /\ Move(r, [inserted EXCEPT !.pc = "done", !.status = 500])
  BY DEF InsertProject, InsertRow
<1> HIDE DEF mine
<1> QED BY ZenonT(40), <1>1, <1>4, <1>5, <1>6, InsertedSteps

LEMMA InsertItemAInv ==
  ASSUME AInv, NEW r \in Reqs, req[r].pc = "insert", InsertItem(r), UNCHANGED pager
  PROVE  AInv'
<1> DEFINE q == req[r]
           mine == Len(items) + 1
           row == [kind |-> q.kind, project |-> q.row, name |-> q.name]
<1>1. q \in Request /\ Good(q, projects, items, users) /\ q.op = "create_item"
  BY TheRequest DEF InsertItem
<1>2. q.name \in Names /\ q.row = q.pid /\ q.pid # 0
  BY <1>1 DEF Good, GoodParameters, GoodPlace, Writes, ItemOps
<1>3. row \in Item
  <2>1. q.kind \in Kinds /\ q.row \in 0..MaxRows /\ q.row # 0
    BY <1>1, <1>2, Fields
  <2> HIDE DEF q
  <2>2. q.row \in Numbers
    BY <2>1, RowsAssumption DEF Numbers
  <2> QED BY <2>2, <1>2, <2>1 DEF Item
<1>4. items' = Append(items, row) /\ Len(items) < MaxRows /\ UNCHANGED <<projects, users>>
  BY DEF InsertItem, InsertRow
<1>5. items \in Seq(Item) /\ Tables
  BY DEF AInv, Tables
<1> HIDE DEF row
<1>6. /\ items' \in Seq(Item) /\ Len(items') <= MaxRows
      /\ DOMAIN items \subseteq DOMAIN items' /\ \A i \in DOMAIN items : items'[i] = items[i]
      /\ mine \in 0..MaxRows /\ mine # 0
  BY <1>3, <1>4, <1>5, AppendGrows
<1>7. Tables' /\ Grow
  BY <1>4, <1>5, <1>6 DEF Tables, Grow
<1>8. LET inserted == [req[r] EXCEPT !.mine = mine, !.pc = AfterInsert(req[r].op),
                         !.status = IF AfterInsert(req[r].op) = "done" THEN 201 ELSE 0] IN
      \/ Move(r, inserted)
      \/ DbMayFail /\ Move(r, [inserted EXCEPT !.pc = "done", !.status = 500])
  BY DEF InsertItem, InsertRow
<1> HIDE DEF mine
<1> QED BY ZenonT(40), <1>1, <1>6, <1>7, <1>8, InsertedSteps

LEMMA InsertUserAInv ==
  ASSUME AInv, NEW r \in Reqs, req[r].pc = "insert", InsertUser(r), UNCHANGED pager
  PROVE  AInv'
<1> DEFINE mine == Len(users) + 1
<1>1. req[r].name \in Names /\ req[r].op = "create_user"
  BY TheRequest DEF InsertUser, Good, GoodParameters, Writes
<1>2. /\ users' = Append(users, req[r].name) /\ Len(users) < MaxRows /\ UNCHANGED <<projects, items>>
      /\ FreeEmail(req[r].name)
  BY DEF InsertUser, InsertRow
<1>3. users \in Seq(Names) /\ Tables
  BY DEF AInv, Tables
<1>4. /\ users' \in Seq(Names) /\ Len(users') <= MaxRows
      /\ DOMAIN users \subseteq DOMAIN users' /\ Len(users) <= Len(users')
      /\ DOMAIN users' = DOMAIN users \cup {mine} /\ mine \notin DOMAIN users
      /\ mine \in 0..MaxRows /\ mine # 0
      /\ (\A u \in DOMAIN users : users'[u] = users[u]) /\ users'[mine] = req[r].name
  BY <1>1, <1>2, <1>3, AppendGrows
<1>5. \A u, v \in DOMAIN users' : users'[u] = users'[v] => u = v
  BY <1>2, <1>3, <1>4 DEF Tables, FreeEmail
<1>6. Tables' /\ Grow
  BY <1>2, <1>3, <1>4, <1>5 DEF Tables, Grow
<1>7. LET inserted == [req[r] EXCEPT !.mine = mine, !.pc = AfterInsert(req[r].op),
                         !.status = IF AfterInsert(req[r].op) = "done" THEN 201 ELSE 0] IN
      \/ Move(r, inserted)
      \/ DbMayFail /\ Move(r, [inserted EXCEPT !.pc = "done", !.status = 500])
  BY DEF InsertUser, InsertRow
<1> HIDE DEF mine
<1> QED BY <1>1, <1>4, <1>6, <1>7, InsertedSteps

LEMMA InsertAInv ==
  ASSUME AInv, NEW r \in Reqs, Insert(r), UNCHANGED pager
  PROVE  AInv'
<1>1. CASE Refuse(r) /\ UNCHANGED tables
  BY <1>1, ErrorSteps DEF Insert, Refuse
<1> QED BY <1>1, InsertProjectAInv, InsertItemAInv, InsertUserAInv DEF Insert

\* What an UPDATE leaves, when the handler is good with the row it changed.
LEMMA UpdatedSteps ==
  ASSUME AInv, NEW r \in Reqs, NEW mine \in 0..MaxRows, NEW next \in {"get_project", "get_back"},
         Updated(r, mine, next), Grow, Tables', UNCHANGED pager,
         req[r].pc = "update",
         GoodPlace(WithPc(WithMine(req[r], mine), next)),
         GoodWrite(WithPc(WithMine(req[r], mine), next), items', users')
  PROVE  AInv'
<1> DEFINE q == req[r]
           n == WithPc(WithMine(q, mine), next)
           x == WithStatus(WithPc(WithMine(q, mine), "done"), 500)
<1>1. q \in Request /\ Good(q, projects', items', users') /\ q.pc = "update"
  BY TheRequest, GoodStays
<1>2. n \in Request /\ Like(n, q) /\ n.pc = next /\ n.list = q.list
  <2> HIDE DEF q
  <2> QED BY <1>1, SetMine, SetPc DEF Like, Pcs
<1>3. x \in Request /\ Like(x, q) /\ x.pc = "done" /\ x.list = q.list /\ x.status = 500
  <2> HIDE DEF q
  <2> QED BY <1>1, SetMine, SetPc, SetStatus DEF Like, Pcs, Statuses
<1>4. Move(r, n) \/ Move(r, x)
  BY DEF Updated, WithPc, WithMine, WithStatus
<1>5. GoodPlace(n) /\ GoodWrite(n, items', users')
  OBVIOUS
<1> HIDE DEF n, x
<1>6. Good(n, projects', items', users')
  BY <1>1, <1>2, <1>5 DEF Like, Good, GoodParameters, GoodAnswer
<1>7. Good(x, projects', items', users')
  BY <1>1, <1>3 DEF Like, Good, GoodParameters, GoodPlace, GoodWrite, GoodAnswer
<1>8. CASE Move(r, n)
  BY <1>2, <1>6, <1>8, RequestSteps
<1>9. CASE Move(r, x)
  BY <1>3, <1>7, <1>9, RequestSteps
<1> QED BY <1>4, <1>8, <1>9

LEMMA UpdateProjectAInv ==
  ASSUME AInv, NEW r \in Reqs, UpdateProject(r), UNCHANGED pager
  PROVE  AInv'
<1> DEFINE q == req[r]
           p == q.pid
           n(mine) == WithPc(WithMine(q, mine), "get_project")
<1>1. /\ q \in Request /\ Good(q, projects, items, users)
      /\ q.pc = "update" /\ q.op = "update_project" /\ UNCHANGED <<items, users>>
  BY TheRequest DEF UpdateProject
<1>2. p \in 0..MaxRows /\ (p # 0 => p \in DOMAIN projects) /\ q.name \in Names
  BY <1>1, Fields DEF Good, GoodParameters, Writes
<1>3. ASSUME NEW mine \in 0..MaxRows, mine = 0 => p = 0
      PROVE  GoodPlace(n(mine)) /\ GoodWrite(n(mine), items', users')
  <2> DEFINE m == n(mine)
  <2>1. Like(m, q) /\ m.pc = "get_project" /\ m.mine = mine
    <3> HIDE DEF q
    <3> QED BY <1>1, SetMine, SetPc DEF Like, Pcs
  <2> HIDE DEF m
  <2>2. GoodPlace(m) /\ GoodWrite(m, items', users')
    BY <1>1, <1>3, <2>1 DEF Like, GoodPlace, GoodWrite
  <2> QED BY <2>2 DEF m
<1>4. CASE p # 0 /\ projects' = [projects EXCEPT ![p] = q.name] /\ Updated(r, p, "get_project")
  <2>1. projects \in Seq(Names) /\ Tables
    BY DEF AInv, Tables
  <2>2. p \in 1..Len(projects)
    BY <1>2, <1>4, <2>1
  <2>3. projects' \in Seq(Names) /\ Len(projects') = Len(projects)
    BY <1>2, <1>4, <2>1, <2>2, ExceptSeq
  <2>4. DOMAIN projects' = DOMAIN projects /\ Len(projects) \in Nat
    BY <2>1, <2>3
  <2>5. Tables'
    BY <1>1, <2>1, <2>3 DEF Tables
  <2>6. Len(projects) <= Len(projects') /\ Len(users) <= Len(users')
    BY <1>1, <2>1, <2>3, <2>4 DEF Tables
  <2>7. Grow
    BY <1>1, <2>4, <2>6 DEF Grow
  <2> QED BY <1>1, <1>2, <1>3, <1>4, <2>5, <2>7, UpdatedSteps
<1>5. CASE p = 0 /\ Updated(r, 0, "get_project") /\ UNCHANGED projects
  <2>1. UNCHANGED tables
    BY <1>1, <1>5 DEF tables
  <2>2. Grow /\ Tables'
    BY <2>1, NothingGrows DEF AInv, Tables, tables
  <2>3. GoodPlace(n(0)) /\ GoodWrite(n(0), items', users')
    BY <1>2, <1>3, <1>5
  <2> QED BY <1>1, <1>2, <1>5, <2>2, <2>3, UpdatedSteps
<1>6. CASE Refuse(r) /\ UNCHANGED projects
  BY <1>1, <1>6, ErrorSteps DEF Refuse, tables
<1> QED BY <1>4, <1>5, <1>6 DEF UpdateProject

\* The row an update of a role or user group finds.
LEMMA FoundItem ==
  ASSUME AInv, NEW q \in Request, q.row = q.pid, GoodParameters(q, projects, items)
  PROVE  LET found == ItemWhere(q.kind, q.row, q.iid) IN
         /\ found = {} => ~(q.iid # 0 /\ Of(q.iid, q.kind, q.pid, items))
         /\ \A i \in found : i = q.iid /\ i # 0 /\ Of(i, q.kind, q.pid, items)
  BY DEF ItemWhere, Of, GoodParameters

LEMMA UpdateItemAInv ==
  ASSUME AInv, NEW r \in Reqs, UpdateItem(r), UNCHANGED pager
  PROVE  AInv'
<1> DEFINE q == req[r]
           n(mine) == WithPc(WithMine(q, mine), "get_back")
           found == ItemWhere(q.kind, q.row, q.iid)
<1>1. /\ q \in Request /\ Good(q, projects, items, users)
      /\ q.pc = "update" /\ q.op = "update_item" /\ UNCHANGED <<projects, users>>
  BY TheRequest DEF UpdateItem
<1>2. q.row = q.pid /\ q.pid # 0 /\ q.name \in Names /\ GoodParameters(q, projects, items)
  BY <1>1 DEF Good, GoodParameters, GoodPlace, Writes, ItemOps
<1>3. /\ found = {} => ~(q.iid # 0 /\ Of(q.iid, q.kind, q.pid, items))
      /\ \A i \in found : i = q.iid /\ i # 0 /\ Of(i, q.kind, q.pid, items)
  <2> HIDE DEF q
  <2> QED BY <1>1, <1>2, FoundItem
<1>4. ASSUME NEW mine \in 0..MaxRows,
             mine = 0 => ~(q.iid # 0 /\ Of(q.iid, q.kind, q.pid, items'))
      PROVE  GoodPlace(n(mine)) /\ GoodWrite(n(mine), items', users')
  <2> DEFINE m == n(mine)
  <2>1. Like(m, q) /\ m.pc = "get_back" /\ m.mine = mine /\ m.row = q.row
    <3> HIDE DEF q
    <3> QED BY <1>1, SetMine, SetPc DEF Like, Pcs
  <2> HIDE DEF m
  <2>2. GoodPlace(m) /\ GoodWrite(m, items', users')
    BY <1>1, <1>2, <1>4, <2>1 DEF Like, GoodPlace, GoodWrite
  <2> QED BY <2>2 DEF m
<1>5. ASSUME NEW i \in found, items' = [items EXCEPT ![i].name = q.name], Updated(r, i, "get_back")
      PROVE  AInv'
  <2>1. i \in DOMAIN items /\ i # 0 /\ items \in Seq(Item) /\ Tables
    BY <1>3, <1>5 DEF Of, AInv, Tables
  <2>2. i \in 1..Len(items) /\ i \in 0..MaxRows
    BY <2>1, RowsAssumption DEF Tables
  <2>3. items[i] \in Item
    BY <2>1, <2>2, ElementOfSeq
  <2> DEFINE e == [items[i] EXCEPT !.name = q.name]
  <2>4. e \in Item /\ e.kind = items[i].kind /\ e.project = items[i].project
    BY <1>2, <2>3 DEF Item
  <2>5. items' = [items EXCEPT ![i] = e]
    BY <1>5
  <2> HIDE DEF e, q
  <2>6. /\ items' \in Seq(Item) /\ Len(items') = Len(items)
        /\ \A j \in 1..Len(items) : items'[j] = IF j = i THEN e ELSE items[j]
    BY <2>1, <2>2, <2>4, <2>5, ExceptSeq
  <2>7. DOMAIN items' = DOMAIN items /\ DOMAIN items = 1..Len(items)
    BY <2>1, <2>6
  <2>8. Tables'
    BY <1>1, <2>1, <2>6 DEF Tables
  <2>9. Grow
    <3>1. Len(projects) <= Len(projects') /\ Len(users) <= Len(users')
      BY <1>1, <2>1 DEF Tables
    <3>2. \A j \in DOMAIN items : items'[j].kind = items[j].kind /\ items'[j].project = items[j].project
      BY <2>4, <2>6, <2>7
    <3> QED BY <1>1, <2>7, <3>1, <3>2 DEF Grow
  <2>10. GoodPlace(n(i)) /\ GoodWrite(n(i), items', users')
    BY <1>4, <2>1, <2>2
  <2> QED BY <1>1, <1>5, <2>2, <2>8, <2>9, <2>10, UpdatedSteps DEF q
<1>6. CASE found = {} /\ Updated(r, 0, "get_back") /\ UNCHANGED items
  <2>1. UNCHANGED tables
    BY <1>1, <1>6 DEF tables
  <2>2. Grow /\ Tables'
    BY <2>1, NothingGrows DEF AInv, Tables, tables
  <2>3. 0 \in 0..MaxRows
    BY RowsAssumption
  <2>4. GoodPlace(n(0)) /\ GoodWrite(n(0), items', users')
    BY <1>3, <1>4, <1>6, <2>3
  <2> QED BY <1>1, <1>6, <2>2, <2>3, <2>4, UpdatedSteps
<1>7. CASE Refuse(r) /\ UNCHANGED items
  BY <1>1, <1>7, ErrorSteps DEF Refuse, tables
<1> QED BY <1>5, <1>6, <1>7 DEF UpdateItem

-----------------------------------------------------------------------------
\* The row a handler reads back and answers.
LEMMA GetBackAInv ==
  ASSUME AInv, NEW r \in Reqs, GetBack(r), UNCHANGED pager
  PROVE  AInv'
<1> DEFINE q == req[r]
           pc == IF q.op = "get_item" /\ q.kind = "usergroup" THEN "members" ELSE "done"
           status == IF q.op \in {"create_project", "create_user"} THEN 201
                     ELSE IF q.op = "get_item" /\ q.kind = "usergroup" THEN 0 ELSE 200
<1>1. /\ q \in Request /\ Good(q, projects, items, users) /\ q.pc = "get_back"
      /\ UNCHANGED tables
  BY TheRequest DEF GetBack
<1>2. CASE Error(r)
  BY <1>1, <1>2, ErrorSteps
<1>3. ASSUME NEW b \in BackRows(q),
             Move(r, [q EXCEPT !.list = {b}, !.pc = pc, !.status = status])
      PROVE  AInv'
  <2> DEFINE n == WithStatus(WithPc(WithList(q, {b}), pc), status)
  <2>1. q.op \in {"create_project", "create_user", "get_item", "update_item"}
    BY <1>1 DEF Good, GoodPlace
  <2>2. q.op \in {"get_item", "update_item"} => b = q.iid /\ b # 0 /\ Of(b, q.kind, q.pid, items)
    <3>1. q.op \in {"get_item", "update_item"} => q.row = q.pid /\ GoodParameters(q, projects, items)
      BY <1>1 DEF Good, GoodPlace, ItemOps
    <3>2. q.op \in {"get_item", "update_item"} => b \in ItemWhere(q.kind, q.row, q.iid)
      BY <1>3 DEF BackRows
    <3> HIDE DEF q
    <3> QED BY <1>1, <3>1, <3>2, FoundItem
  <2>3. q.op = "create_user" => b = q.mine
    <3>1. q.op = "create_user" => b \in DOMAIN users /\ users[b] = q.name
      BY <1>3 DEF BackRows
    <3>2. q.op = "create_user" => q.mine \in DOMAIN users /\ users[q.mine] = q.name
      BY <1>1 DEF Good, GoodWrite
    <3> QED BY <3>1, <3>2 DEF AInv, Tables
  <2>4. {b} \in SUBSET Numbers
    <3>1. q.op = "create_project" => b \in DOMAIN projects
      BY <1>3 DEF BackRows
    <3>2. q.op = "create_user" => b \in DOMAIN users
      BY <1>3 DEF BackRows
    <3>3. q.op \in {"get_item", "update_item"} => b \in DOMAIN items
      BY <2>2 DEF Of
    <3>4. DOMAIN projects \subseteq Numbers /\ DOMAIN items \subseteq Numbers /\ DOMAIN users \subseteq Numbers
      BY RowsAssumption DEF AInv, Tables, Numbers
    <3> QED BY <2>1, <3>1, <3>2, <3>3, <3>4
  <2>5. q.op \in Writes => q.mine # 0
    BY <1>1, <2>1, <2>2 DEF Good, GoodWrite, Writes
  <2>6. pc \in {"members", "done"} /\ status \in Statuses /\ (pc = "members" => q.op = "get_item")
    BY DEF Statuses
  <2>7. Move(r, n)
    BY <1>3 DEF WithStatus, WithPc, WithList
  <2>8. n \in Request /\ Like(n, q) /\ n.pc = pc /\ n.list = {b} /\ n.mine = q.mine
    <3> HIDE DEF q, pc, status
    <3> QED BY <1>1, <2>4, <2>6, SetList, SetPc, SetStatus DEF Like, Pcs
  <2> HIDE DEF n, pc, status
  <2>9. GoodParameters(n, projects, items)
    BY <1>1, <2>6, <2>8 DEF Like, Good, GoodParameters
  <2>10. GoodPlace(n) /\ GoodWrite(n, items, users)
    BY <2>6, <2>8 DEF Like, GoodPlace, GoodWrite
  <2>11. GoodAnswer(n, items)
    <3>1. q.op \in ItemOps => q.op \in {"get_item", "update_item"}
      BY <2>1 DEF ItemOps
    <3> QED BY <2>2, <2>3, <2>5, <2>8, <3>1 DEF Like, GoodAnswer
  <2> QED BY <1>1, <2>7, <2>8, <2>9, <2>10, <2>11, ReadSteps DEF Good
<1> QED BY <1>2, <1>3 DEF GetBack

-----------------------------------------------------------------------------
(* The client that reads a list page by page.                              *)

\* Nothing but the client moves.
LEMMA PagerSteps ==
  ASSUME AInv, pager' \in Pager, Behind', UNCHANGED <<tables, req>>
  PROVE  AInv'
<1>1. Tables' /\ AllGood'
  BY DEF AInv, Tables, AllGood, tables
<1>2. Requested'
  BY DEF AInv, TypeOK, Requested, Request, Statuses
<1>3. TypeOK'
  BY <1>1, <1>2 DEF Requested, Request, Statuses, Tables, TypeOK, Item, Pager
<1> QED BY <1>1, <1>3 DEF AInv

LEMMA BeginPagingAInv ==
  ASSUME AInv, NEW table \in {"projects", "users"}, BeginPaging(table)
  PROVE  AInv'
<1>1. pager' = [table |-> table, offset |-> 0, seen |-> {}, due |-> DOMAIN Rows(table), over |-> FALSE]
  BY DEF BeginPaging, NoPager
<1>2. Rows(table)' = Rows(table) /\ DOMAIN Rows(table) = 1..Len(Rows(table)) /\ Len(Rows(table)) \in Nat
      /\ Len(Rows(table)) <= MaxRows
  BY DEF BeginPaging, tables, Rows, AInv, Tables
<1>3. pager' \in Pager
  BY <1>1, <1>2, RowsAssumption DEF Pager, Numbers
<1>4. Behind'
  <2>1. /\ pager'.table = table /\ pager'.offset = 0 /\ pager'.over = FALSE
        /\ pager'.due = 1..Len(Rows(table)) /\ table # "none"
    BY <1>1, <1>2
  <2>2. Rows(pager.table)' = Rows(table)
    BY <1>2, <2>1 DEF Rows, BeginPaging, tables
  <2>3. \A i \in 1..Len(Rows(table)) : ~(Len(Rows(table)) - i < 0)
    BY <1>2
  <2> QED BY <1>2, <2>1, <2>2, <2>3 DEF Behind
<1> QED BY <1>3, <1>4, PagerSteps DEF BeginPaging

\* A page that is not full is the last one: the rows end before the next offset.
LEMMA ShortPage ==
  ASSUME NEW table, NEW offset \in Nat, Len(Rows(table)) \in Nat,
         Cardinality(Page(table, PageSize, offset)) < PageSize
  PROVE  Len(Rows(table)) < offset + PageSize
<1> DEFINE n == Len(Rows(table))
<1>1. PageSize \in Nat
  BY PageAssumption
<1> SUFFICES ASSUME n >= offset + PageSize PROVE FALSE
  BY <1>1
<1>2. Page(table, PageSize, offset) = (n - offset - PageSize + 1)..(n - offset)
  <2>1. ASSUME NEW i \in 1..n, n - i \in offset .. offset + PageSize - 1
        PROVE  i \in (n - offset - PageSize + 1)..(n - offset)
    BY <1>1, <2>1
  <2>2. ASSUME NEW i \in (n - offset - PageSize + 1)..(n - offset)
        PROVE  i \in 1..n /\ n - i \in offset .. offset + PageSize - 1
    BY <1>1, <2>2
  <2> QED BY <2>1, <2>2 DEF Page
<1>3. n - offset - PageSize + 1 \in Int /\ n - offset \in Int
  BY <1>1
<1>4. Cardinality((n - offset - PageSize + 1)..(n - offset))
        = IF n - offset - PageSize + 1 > n - offset THEN 0 ELSE (n - offset) - (n - offset - PageSize + 1) + 1
  BY <1>3, FS_Interval
<1>5. ~(n - offset - PageSize + 1 > n - offset) /\ (n - offset) - (n - offset - PageSize + 1) + 1 = PageSize
  BY PageAssumption
<1> QED BY <1>1, <1>2, <1>4, <1>5

LEMMA NextPageAInv ==
  ASSUME AInv, NextPage
  PROVE  AInv'
<1> DEFINE n == Len(Rows(pager.table))
           page == Page(pager.table, PageSize, pager.offset)
<1>1. pager \in Pager /\ Behind /\ PageSize \in Nat
  BY PageAssumption DEF AInv, TypeOK, Pager
<1>2. /\ pager.offset \in Nat /\ pager.seen \in SUBSET Numbers /\ pager.due \in SUBSET Numbers
      /\ pager.table \in {"none", "projects", "users"} /\ ~pager.over /\ pager.table # "none"
  BY <1>1 DEF Pager, NextPage
<1>3. n \in Nat /\ n <= MaxRows /\ DOMAIN Rows(pager.table) = 1..n
  BY DEF Rows, AInv, Tables
<1>4. page \in SUBSET Numbers
  BY <1>3, RowsAssumption DEF Page, Numbers
<1>5. pager' = [table |-> pager.table, offset |-> pager.offset + PageSize, seen |-> pager.seen \cup page,
                due |-> pager.due, over |-> Cardinality(page) < PageSize]
  BY <1>1 DEF NextPage, Pager
<1>6. UNCHANGED <<tables, req>>
  BY DEF NextPage
<1>7. pager' \in Pager
  BY <1>1, <1>2, <1>4, <1>5 DEF Pager
<1>8. ASSUME NEW i \in pager.due, n - i < pager.offset + PageSize
      PROVE  i \in pager.seen \cup page
  <2>1. i \in 1..n
    BY <1>1, <1>3 DEF Behind
  <2>2. CASE n - i < pager.offset
    BY <1>1, <2>2 DEF Behind
  <2>3. CASE ~(n - i < pager.offset)
    <3>1. n - i \in pager.offset .. pager.offset + PageSize - 1
      BY <1>1, <1>2, <1>3, <1>8, <2>1, <2>3
    <3> QED BY <2>1, <3>1 DEF Page
  <2> QED BY <2>2, <2>3
<1>9. ASSUME Cardinality(page) < PageSize, NEW i \in pager.due
      PROVE  i \in pager.seen \cup page
  <2>1. n < pager.offset + PageSize
    BY <1>2, <1>3, <1>9, ShortPage
  <2>2. i \in 1..n
    BY <1>1, <1>3 DEF Behind
  <2>3. n - i < pager.offset + PageSize
    BY <1>1, <1>2, <1>3, <2>1, <2>2
  <2> QED BY <1>8, <2>3
<1>10. Rows(pager.table)' = Rows(pager.table)
  BY <1>5, <1>6 DEF Rows, tables
<1> HIDE DEF page
<1>11. Behind'
  BY <1>1, <1>2, <1>5, <1>8, <1>9, <1>10 DEF Behind
<1> QED BY <1>6, <1>7, <1>11, PagerSteps

LEMMA EndPagingAInv ==
  ASSUME AInv, EndPaging
  PROVE  AInv'
<1>1. pager' = [table |-> "none", offset |-> 0, seen |-> {}, due |-> {}, over |-> FALSE]
  BY DEF EndPaging, NoPager
<1>2. pager' \in Pager
  BY <1>1 DEF Pager
<1>3. Behind'
  BY <1>1 DEF Behind
<1> QED BY <1>2, <1>3, PagerSteps DEF EndPaging

-----------------------------------------------------------------------------
LEMMA StepAInv == AInv /\ [Next]_vars => AInv'
<1> SUFFICES ASSUME AInv, [Next]_vars PROVE AInv'
  OBVIOUS
<1>1. CASE UNCHANGED vars
  <2>1. pager' \in Pager /\ Behind'
    BY <1>1 DEF vars, AInv, TypeOK, Pager, Behind, Rows
  <2> QED BY <1>1, <2>1, PagerSteps DEF vars, tables
<1>2. ASSUME NEW r \in Reqs, UNCHANGED pager,
             \/ Begin(r) \/ GetProject(r) \/ Insert(r) \/ UpdateProject(r) \/ UpdateItem(r)
             \/ GetBack(r) \/ GetMembers(r) \/ ListItems(r) \/ Leave(r)
      PROVE  AInv'
  BY <1>2, BeginAInv, GetProjectAInv, InsertAInv, UpdateProjectAInv, UpdateItemAInv,
     GetBackAInv, MembersAInv, ListAInv, LeaveAInv
<1>3. ASSUME NEW table \in {"projects", "users"}, BeginPaging(table)
      PROVE  AInv'
  BY <1>3, BeginPagingAInv
<1>4. CASE NextPage \/ EndPaging
  BY <1>4, NextPageAInv, EndPagingAInv
<1> QED BY <1>1, <1>2, <1>3, <1>4 DEF Next, Requests

\* The type invariant of the handlers and their tables.
THEOREM ServiceTypes == Spec => []TypeOK
<1>1. AInv => TypeOK
  BY DEF AInv
<1> QED BY InitAInv, StepAInv, <1>1, PTL DEF Spec

\* A role or user group is answered only by a request for the project it belongs
\* to, for any number of requests that insert and rename at the same time.
THEOREM AnswersStay == Spec => []AnswersStayInProject
<1>1. AInv => AnswersStayInProject
  BY DEF AInv, AllGood, Good, GoodAnswer, Of, AnswersStayInProject
<1> QED BY InitAInv, StepAInv, <1>1, PTL DEF Spec

\* A write is answered with success only after a row was written, whichever
\* statements fail and whoever else writes.
THEOREM SuccessWritten == Spec => []SuccessMeansWritten
<1>1. AInv => SuccessMeansWritten
  BY DEF AInv, AllGood, Good, GoodAnswer, Answered, SuccessMeansWritten
<1> QED BY InitAInv, StepAInv, <1>1, PTL DEF Spec

\* CreateUser answers the user it inserted, although it reads it back by email.
THEOREM CreatedUserOwn == Spec => []CreatedUserIsOwn
<1>1. AInv => CreatedUserIsOwn
  BY DEF AInv, AllGood, Good, GoodAnswer, Answered, CreatedUserIsOwn
<1> QED BY InitAInv, StepAInv, <1>1, PTL DEF Spec

\* Reading a list to its end page by page skips no row that was there at the
\* beginning, for every page size and however many rows are added meanwhile.
THEOREM PagesComplete == Spec => []NothingSkipped
<1>1. AInv => NothingSkipped
  BY DEF AInv, Behind, NothingSkipped
<1> QED BY InitAInv, StepAInv, <1>1, PTL DEF Spec

\* Only an update through its own project changes a role or user group.
LEMMA StepWrites ==
  ASSUME AInv, [Next]_vars, NEW i \in DOMAIN items, items'[i] # items[i]
  PROVE  \E r \in Reqs : /\ req[r].op = "update_item" /\ req[r].iid = i
                         /\ req[r].pid = items[i].project /\ req[r].kind = items[i].kind
<1>1. items' # items /\ items \in Seq(Item) /\ i \in 1..Len(items)
  BY DEF AInv, Tables
<1>2. ~(UNCHANGED vars) /\ ~NextPage /\ ~EndPaging /\ ~\E table \in {"projects", "users"} : BeginPaging(table)
  BY <1>1 DEF vars, tables, NextPage, EndPaging, BeginPaging
<1>3. PICK r \in Reqs :
         \/ Begin(r) \/ GetProject(r) \/ Insert(r) \/ UpdateProject(r) \/ UpdateItem(r)
         \/ GetBack(r) \/ GetMembers(r) \/ ListItems(r) \/ Leave(r)
  BY <1>2 DEF Next, Requests
<1> DEFINE q == req[r]
<1>4. q \in Request /\ Good(q, projects, items, users)
  BY TheRequest
<1>5. CASE Insert(r)
  <2>1. q.op = "create_item" /\ q.pc = "insert" /\ InsertItem(r)
    BY <1>1, <1>5 DEF Insert, InsertProject, InsertUser, InsertItem, tables
  <2> DEFINE row == [kind |-> q.kind, project |-> q.row, name |-> q.name]
  <2>2. items' = Append(items, row)
    BY <2>1 DEF InsertItem, InsertRow
  <2>3. row \in Item
    <3>1. q.name \in Names /\ q.row = q.pid /\ q.pid # 0 /\ q.kind \in Kinds /\ q.pid \in 0..MaxRows
      BY <1>4, <2>1, Fields DEF Good, GoodParameters, GoodPlace, Writes, ItemOps
    <3>2. q.row \in Numbers
      <4> HIDE DEF q
      <4> QED BY <3>1, RowsAssumption DEF Numbers
    <3> QED BY <3>1, <3>2 DEF Item
  <2> HIDE DEF row
  <2>4. items'[i] = items[i]
    BY <1>1, <2>2, <2>3, AppendProperties
  <2> QED BY <2>4
<1>6. CASE UpdateItem(r)
  <2>1. q.pc = "update" /\ q.op = "update_item"
    BY <1>6 DEF UpdateItem
  <2>2. q.row = q.pid /\ GoodParameters(q, projects, items)
    BY <1>4, <2>1 DEF Good, GoodPlace, ItemOps
  <2>3. PICK j \in ItemWhere(q.kind, q.row, q.iid) : items' = [items EXCEPT ![j].name = q.name]
    BY <1>1, <1>6 DEF UpdateItem
  <2>4. j = q.iid /\ Of(j, q.kind, q.pid, items)
    <3> HIDE DEF q
    <3> QED BY <1>4, <2>2, <2>3, FoundItem
  <2>5. i = j
    BY <1>1, <2>3
  <2> QED BY <2>1, <2>4, <2>5 DEF Of
<1>7. ~(Begin(r) \/ GetProject(r) \/ UpdateProject(r) \/ GetBack(r) \/ GetMembers(r) \/ ListItems(r) \/ Leave(r))
  BY <1>1 DEF Begin, GetProject, UpdateProject, GetBack, GetMembers, ListItems, Leave, tables
<1> QED BY <1>3, <1>5, <1>6, <1>7

\* A role or user group is changed only by an update through its own project,
\* for any number of requests, kinds and names.
THEOREM WritesStay == Spec => WritesStayInProject
<1>1. AInv /\ [Next]_vars =>
        [\A i \in DOMAIN items : items'[i] # items[i] =>
           \E r \in Reqs : /\ req[r].op = "update_item" /\ req[r].iid = i
                           /\ req[r].pid = items[i].project /\ req[r].kind = items[i].kind]_vars
  BY StepWrites
<1> QED BY InitAInv, StepAInv, <1>1, PTL DEF Spec, WritesStayInProject
===============================================================================
