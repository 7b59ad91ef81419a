----------------------------- MODULE AuthLogout -----------------------------
(***************************************************************************)
(* AuthSession with a memory of what the clients were told: the sessions   *)
(* whose logout was answered 204, and the requests that arrived after that *)
(* answer.  The memory never restrains a step.                             *)
(***************************************************************************)
EXTENDS AuthSession

VARIABLES
  loggedOut,   \* sessions whose Logout was answered 204
  late         \* requests that arrived with a session logged out before

memory == <<loggedOut, late>>

LogoutInit == Init /\ loggedOut = {} /\ late = {}

\* A 204 is on its way; a request arrives; any other step.
LogoutNext ==
  /\ Next
  /\ loggedOut' = loggedOut \cup
       {req[r].id : r \in {x \in Reqs : req[x].op = "logout" /\ req'[x].pc = "done" /\ req'[x].status = 204}}
  /\ late' = {r \in Reqs : \/ r \in late /\ req'[r].pc # "idle"
                           \/ req[r].pc = "idle" /\ req'[r].id \in loggedOut}

LogoutSpec == LogoutInit /\ [][LogoutNext]_<<vars, memory>>

\* "Invalidates the user session" (the comment on the Logout operation): after
\* its 204, no request that arrives later is admitted with that session.
LogoutInvalidates == \A r \in late : req[r].pc # "admitted"
=============================================================================
