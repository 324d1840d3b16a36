----------------------------- MODULE TriggerFeed -----------------------------
(***************************************************************************)
(* What a trigger store promises the trigger service: of every trigger the *)
(* service comes to know versions that were stored, and never an older one *)
(* after a newer one.  FileSystemStore and PostgresStore implement this.   *)
(***************************************************************************)
EXTENDS Naturals

CONSTANT Triggers

VARIABLES
    stored,   \* the number of versions of a trigger stored so far
    got       \* the version the service knows, 0 for none

vars == <<stored, got>>

Init == /\ stored \in [Triggers -> Nat]
        /\ got = [t \in Triggers |-> 0]

Store(t) == /\ stored' = [stored EXCEPT ![t] = @ + 1]
            /\ UNCHANGED got

\* Loading all triggers, or one update.
Learn == /\ got' \in [Triggers -> Nat]
         /\ \A t \in Triggers : got[t] <= got'[t] /\ got'[t] <= stored[t]
         /\ UNCHANGED stored

Next == Learn \/ \E t \in Triggers : Store(t)

Spec == Init /\ [][Next]_vars
=============================================================================
