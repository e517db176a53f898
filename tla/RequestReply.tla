---------------------------- MODULE RequestReply ----------------------------
(***************************************************************************)
(* What a host expects of the jig on any of its links: each request is     *)
(* executed once, exactly as it was sent, and then answered.               *)
(***************************************************************************)
CONSTANTS Message, None

VARIABLES
    request,   \* the request that waits for its answer, or None
    executed   \* what has been executed for it, or None

vars == <<request, executed>>

Init == request = None /\ executed = None

Ask(m) ==
    /\ request = None
    /\ request' = m
    /\ executed' = None

Execute ==
    /\ request # None /\ executed = None
    /\ executed' = request
    /\ UNCHANGED request

Answer ==
    /\ request # None /\ executed = request
    /\ request' = None
    /\ UNCHANGED executed

Next == (\E m \in Message : Ask(m)) \/ Execute \/ Answer

Spec == Init /\ [][Next]_vars /\ WF_vars(Execute) /\ WF_vars(Answer)

=============================================================================
