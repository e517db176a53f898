----------------------------- MODULE TaskService ----------------------------
(***************************************************************************)
(* What the dispatcher guarantees to those that raise tasks, with history  *)
(* variables that record requests and what a call of TaskCheck found.      *)
(***************************************************************************)
EXTENDS SystemTask

VARIABLES
    due,    \* due[t]: t was raised and no run of its handler began since
    seen    \* the flags when this call of TaskCheck began

vars == <<flag, pc, pos, due, seen>>

TypeOK ==
    /\ TaskTypeOK
    /\ due \in [Task -> BOOLEAN]
    /\ seen \in [Task -> BOOLEAN]

Init ==
    /\ TaskInit
    /\ due = flag
    /\ seen = flag

Note(t) == due' = [due EXCEPT ![t] = TRUE] /\ UNCHANGED seen

MainLoop ==
    \/ CallTaskCheck /\ seen' = flag /\ UNCHANGED due
    \/ TestFlag /\ UNCHANGED <<due, seen>>
    \/ ClearFlag /\ UNCHANGED <<due, seen>>
    \/ CallHandler /\ due' = [due EXCEPT ![Chain[pos]] = FALSE] /\ UNCHANGED seen
    \/ HandlerReturn /\ UNCHANGED <<due, seen>>

Next ==
    \/ MainLoop
    \/ \E t \in IsrTask : Interrupt({t}) /\ Note(t)
    \/ \E t \in BsmpTask : EthernetCommand({t}) /\ Note(t)
    \/ \E t \in BsmpTask : HandlerCommand({t}) /\ Note(t)

Spec == Init /\ [][Next]_vars

(***************************************************************************)
(* The main loop is the only thread and no handler blocks for ever when    *)
(* the devices it waits for answer, so its steps are taken.  Nothing is    *)
(* assumed of interrupts and clients.                                      *)
(***************************************************************************)
FairSpec == Spec /\ WF_vars(MainLoop)

-----------------------------------------------------------------------------
(***************************************************************************)
(* A request is never lost: as long as no run of the handler has begun     *)
(* after the last TaskSetNew(t), the flag of t is raised or TaskCheck is   *)
(* about to call that handler.  TaskCheck clears the flag before the call, *)
(* so a request that comes while the handler runs is kept for the next     *)
(* run.                                                                    *)
(***************************************************************************)
NoLostRequest ==
    \A t \in Task : due[t] => flag[t] \/ (pc = "call" /\ Chain[pos] = t)

(***************************************************************************)
(* The handler TaskCheck calls is the first of the chain among those that  *)
(* were pending when it was called: a task pending at the call is never    *)
(* passed by one tested later, whatever interrupts come meanwhile.         *)
(***************************************************************************)
HigherPendingFirst ==
    pc \in {"take", "call", "run"} =>
        \A i \in 1 .. pos - 1 : ~seen[Chain[i]]

HigherQuiet(i) == \A j \in 1 .. i - 1 : ~flag[Chain[j]]

(***************************************************************************)
(* The chain serves by priority and does not age requests, so a request    *)
(* is served for certain only once the tasks before it in the chain stay   *)
(* quiet; then it is.                                                      *)
(***************************************************************************)
ServedWhenHigherQuiet ==
    \A i \in DOMAIN Chain :
        <>[]HigherQuiet(i) => (due[Chain[i]] ~> ~due[Chain[i]])

=============================================================================
