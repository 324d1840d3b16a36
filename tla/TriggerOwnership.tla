--------------------------- MODULE TriggerOwnership ---------------------------
(***************************************************************************)
(* What the instances of the trigger service promise one another: a        *)
(* trigger is owned by at most one instance, and only its owner runs it.   *)
(* TriggerService implements this with advisory locks and goroutines.      *)
(***************************************************************************)
CONSTANTS Instances, Ids

VARIABLES
    owners,    \* the instances that own a trigger
    runners    \* the instances that run it

vars == <<owners, runners>>

Init == /\ owners = [id \in Ids |-> {}]
        /\ runners = [id \in Ids |-> {}]

\* An instance takes a trigger nobody owns.
Take(i, id) ==
    /\ owners[id] = {}
    /\ owners' = [owners EXCEPT ![id] = {i}]
    /\ UNCHANGED runners

\* An owner starts to run its trigger, or runs it again after an update.
Run(i, id) ==
    /\ i \in owners[id]
    /\ runners' = [runners EXCEPT ![id] = @ \union {i}]
    /\ UNCHANGED owners

\* An instance stops running some triggers and gives up some it does not run:
\* an update, the end of a worker, a shutdown, the death of the process.
Leave(i, stopped, freed) ==
    /\ runners' = [id \in Ids |-> IF id \in stopped THEN runners[id] \ {i} ELSE runners[id]]
    /\ owners' = [id \in Ids |-> IF id \in freed THEN owners[id] \ {i} ELSE owners[id]]
    /\ \A id \in freed : i \notin runners'[id]

Next == \E i \in Instances :
            \/ \E id \in Ids : Take(i, id) \/ Run(i, id)
            \/ \E stopped, freed \in SUBSET Ids : Leave(i, stopped, freed)

Spec == Init /\ [][Next]_vars
=============================================================================
