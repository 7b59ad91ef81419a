-------------------------- MODULE SessionLifecycle --------------------------
(***************************************************************************)
(* What the session store promises its users, without Redis, clocks or     *)
(* handlers: an id is unused, then open for one owner, then ended, and     *)
(* never open again; a request is served under an id only after it found   *)
(* the id open, and as the owner of that id.                               *)
(*                                                                         *)
(* Requests and ids may end together in any number: the server crashes     *)
(* (every request ends) and time passes (many sessions end).               *)
(***************************************************************************)
CONSTANTS Reqs, Ids, Users, NoUser, Nobody

VARIABLES
  phase,    \* of each id
  owner,    \* of each open id; NoUser for a login state and for an id not open
  serving   \* what each request is served as: [id, user], or Nobody

vars == <<phase, owner, serving>>

Owners == Users \cup {NoUser}

Init ==
  /\ phase = [id \in Ids |-> "unused"]
  /\ owner = [id \in Ids |-> NoUser]
  /\ serving = [r \in Reqs |-> Nobody]

Open(id, u) ==
  /\ phase[id] = "unused"
  /\ phase' = [phase EXCEPT ![id] = "open"]
  /\ owner' = [owner EXCEPT ![id] = u]
  /\ UNCHANGED serving

Admit(r, id) ==
  /\ serving[r] = Nobody
  /\ phase[id] = "open"
  /\ serving' = [serving EXCEPT ![r] = [id |-> id, user |-> owner[id]]]
  /\ UNCHANGED <<phase, owner>>

\* The ids of S end and the requests of R are over.
End(S, R) ==
  /\ \A id \in S : phase[id] = "open"
  /\ phase' = [id \in Ids |-> IF id \in S THEN "ended" ELSE phase[id]]
  /\ owner' = [id \in Ids |-> IF id \in S THEN NoUser ELSE owner[id]]
  /\ serving' = [r \in Reqs |-> IF r \in R THEN Nobody ELSE serving[r]]

Next ==
  \/ \E id \in Ids, u \in Owners : Open(id, u)
  \/ \E r \in Reqs, id \in Ids : Admit(r, id)
  \/ \E S \in SUBSET Ids, R \in SUBSET Reqs : End(S, R)

Spec == Init /\ [][Next]_vars
=============================================================================
