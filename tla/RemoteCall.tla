------------------------------ MODULE RemoteCall ------------------------------
(***************************************************************************)
(* What a caller of the generated client may rely on: the operation it     *)
(* called runs with the parameters it was called with, at most once or, if *)
(* the call may be sent again, at most once for each time it is sent; and  *)
(* the result is the answer of the last run or a failure, which says       *)
(* nothing about whether it ran.                                           *)
(***************************************************************************)
CONSTANTS None, Failed, Calls, Answers,
    Replayable  \* the calls that may be sent again

VARIABLES
    call,   \* the call being made
    ran,    \* the run it led to, the last time it was sent, and its answer
    result  \* what the caller got

rcvars == <<call, ran, result>>

Init == call = None /\ ran = None /\ result = None

Invoke ==
    /\ call = None
    /\ call' \in Calls
    /\ result' \in {None, Failed}   \* Failed: nothing to identify the caller with
    /\ UNCHANGED ran

Execute ==
    /\ call # None /\ ran = None
    /\ \E answer \in Answers \cup {Failed} :
        ran' = [op |-> call.op, params |-> call.params, answer |-> answer]
    /\ UNCHANGED <<call, result>>

\* The call is sent again: what came of it before is not told to the caller.
Repeat ==
    /\ call \in Replayable /\ result = None
    /\ ran' = None
    /\ UNCHANGED <<call, result>>

Return ==
    /\ result = None /\ ran # None /\ ran.answer # Failed
    /\ result' = ran.answer
    /\ UNCHANGED <<call, ran>>

Fail ==
    /\ call # None /\ result = None
    /\ result' = Failed
    /\ UNCHANGED <<call, ran>>

Finish ==
    /\ result # None
    /\ call' = None /\ ran' = None /\ result' = None

Next == Invoke \/ Execute \/ Repeat \/ Return \/ Fail \/ Finish

Spec == Init /\ [][Next]_rcvars
===============================================================================
