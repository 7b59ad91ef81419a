--------------------------- MODULE MCAdminService ---------------------------
(* Small instances of AdminService. *)
EXTENDS AdminService, TLC

ItemCalls == ItemOps \cup {"list_items", "create_project"}
MCSymmetry == Permutations(Reqs) \cup Permutations(Names)

\* Bound: no statement joins items and users, so that the two tables are filled
\* one at a time; a list is read page by page while there are no items.
OneTable ==
  /\ items = <<>> \/ users = <<>>
  /\ pager.table # "none" => items = <<>> /\ (pager.table = "users" => projects = <<>>)
                                           /\ (pager.table = "projects" => users = <<>>)
=============================================================================
