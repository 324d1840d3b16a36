------------------------------ MODULE DurableRun ------------------------------
(***************************************************************************)
(* What StartWorkflow promises of one run, however often the program dies: *)
(* a step is begun behind steps that were answered with ok, one at a time, *)
(* and again only if a death took its answer; an answer is final; and the  *)
(* run ends with ok behind the last step, or with an error at the first    *)
(* step that failed or was refused.  WorkflowRun implements this.          *)
(***************************************************************************)
EXTENDS Naturals

VARIABLES
    accepted,   \* the steps that may be executed behind the ones before them
    answers,    \* the answer of each step, or "none"
    running,    \* the step that is being executed, or 0
    verdict     \* the end of the run, or "none"

vars == <<accepted, answers, running, verdict>>

Steps == DOMAIN answers
Reached(m) == \A k \in Steps : k < m => answers[k] = "ok"

Init ==
    /\ accepted \subseteq Steps
    /\ \A m \in Steps : answers[m] = "none"
    /\ running = 0
    /\ verdict = "none"

Begin(m) ==
    /\ running = 0 /\ verdict = "none"
    /\ m \in accepted /\ Reached(m) /\ answers[m] = "none"
    /\ running' = m
    /\ UNCHANGED <<accepted, answers, verdict>>

Answer(a) ==
    /\ running # 0
    /\ answers' = [answers EXCEPT ![running] = a]
    /\ running' = 0
    /\ UNCHANGED <<accepted, verdict>>

\* A death while a step is executed.
Die ==
    /\ running # 0
    /\ running' = 0
    /\ UNCHANGED <<accepted, answers, verdict>>

Stopped(m) == Reached(m) /\ (answers[m] = "error" \/ m \notin accepted)

End(v) ==
    /\ running = 0 /\ verdict = "none"
    /\ verdict' = v
    /\ \/ v = "ok" /\ \A m \in Steps : answers[m] = "ok"
       \/ v = "error" /\ \E m \in Steps : Stopped(m)
    /\ UNCHANGED <<accepted, answers, running>>

Next ==
    \/ \E m \in Steps : Begin(m)
    \/ (\E a \in {"ok", "error"} : Answer(a)) \/ Die
    \/ \E v \in {"ok", "error"} : End(v)

Spec == Init /\ [][Next]_vars
===============================================================================
