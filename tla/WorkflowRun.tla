------------------------------ MODULE WorkflowRun ------------------------------
(***************************************************************************)
(* One run of a workflow, from the event that asks for it to the verdict   *)
(* (internal/workflow/workflow.go, service.go, env.go), composed with the  *)
(* steps it executes and the expressions in them; the program may die at   *)
(* any moment and is restarted.                                            *)
(*                                                                         *)
(* DBOS is external: it runs the workflow function from its first step     *)
(* again after a restart, returns a recorded answer and environment        *)
(* instead of executing a step once more, and records the verdict.  What   *)
(* an execution that died left running (a container, a command, a request) *)
(* is forgotten, as the code does.                                         *)
(***************************************************************************)
EXTENDS Naturals, Sequences, ContainerStep, ExecStep, RequestStep, Expression

CONSTANTS
    Plans,       \* the workflows: sequences of steps
    Names,       \* the names of steps
    NoName,      \* the name of a step that lacks it, or another field it must have
    Specs,       \* the fields of steps
    MaxCrashes   \* bound on the deaths of the program

\* A plain step (if, action) puts its own fields in the environment, unevaluated.
Kinds == {"plain", "exec", "container"} \union Requests

Steps == [name : Names \union {NoName}, kind : Kinds, spec : Specs,
          isolation : Isolations, timeout : {"set", "negative"}]

Family(kind) == IF kind \in Requests THEN "request" ELSE kind

ASSUME PlanAssumption ==
    /\ MaxCrashes \in Nat
    /\ Plans \subseteq Seq(Steps)
    /\ \A spec \in Specs : IsStruct(spec)

VARIABLES
    plan,      \* the workflow's steps
    phase,     \* where the run is
    at,        \* the step it is at
    env,       \* the names in its environment
    values,    \* the execution whose answer is there for a step, 0 for none
    read,      \* the step's fields as they were evaluated for its execution
    outcome,   \* the answer of the step, or of the run
    recorded,  \* DBOS: the recorded answer of each step, or "none"
    snap,      \* DBOS: the values recorded with it
    verdict,   \* DBOS: the recorded end of the run, or "none"
    runs,      \* history: the executions of each step
    crashes    \* deaths so far

envVars == <<env, values>>
dbos == <<recorded, snap, verdict>>
runVars == <<plan, phase, at, envVars, read, outcome, dbos, runs, crashes>>
stepVars == <<vars, execVars, reqVars>>
allVars == <<runVars, stepVars>>

Untouched == [m \in DOMAIN plan |-> 0]
Unread == [ok |-> TRUE, input |-> <<>>, result |-> <<>>]

RunInit ==
    /\ Init /\ ExecInit /\ RequestInit
    /\ plan \in Plans
    /\ phase = "event"
    /\ at = 1 /\ env = {} /\ values = Untouched /\ read = Unread
    /\ outcome = "none"
    /\ recorded = [m \in DOMAIN plan |-> "none"] /\ verdict = "none"
    /\ snap = [m \in DOMAIN plan |-> Untouched]
    /\ runs = Untouched
    /\ crashes = 0

Step == plan[at]
Executing(kind) == phase = "running" /\ Step.kind = kind

----------------------------------------------------------------------------
(* StartWorkflow *)

\* The store has no such workflow: the error is logged, the event is gone.
WorkflowMissing ==
    /\ phase = "event"
    /\ phase' = "closed"
    /\ UNCHANGED <<plan, at, envVars, read, outcome, dbos, runs, crashes, stepVars>>

RunWorkflow ==
    /\ phase = "event"
    /\ phase' = "next"
    /\ UNCHANGED <<plan, at, envVars, read, outcome, dbos, runs, crashes, stepVars>>

----------------------------------------------------------------------------
(* The loop over the steps *)

Refused == Step.name = NoName \/ Step.name \in env

Validate ==
    /\ phase = "next" /\ at <= Len(plan) /\ ~Refused
    /\ phase' = "step"
    /\ env' = env \union {Step.name}
    /\ UNCHANGED <<plan, at, values, read, outcome, dbos, runs, crashes, stepVars>>

ValidateFails ==
    /\ phase = "next" /\ at <= Len(plan) /\ Refused
    /\ phase' = "over" /\ outcome' = "error"
    /\ UNCHANGED <<plan, at, envVars, read, dbos, runs, crashes, stepVars>>

\* An execution begins with nothing of an earlier one.
FreshContainer ==
    IF Step.kind = "container"
    THEN /\ ctr' = "none" /\ code' = NoCode /\ expired' = FALSE
         /\ pc' = "policy" /\ exitCode' = 0 /\ containerErr' = FALSE
         /\ registered' = FALSE /\ failed' = {} /\ result' = "none"
         /\ UNCHANGED <<config, present>>
    ELSE UNCHANGED vars

FreshCommand ==
    IF Step.kind = "exec"
    THEN /\ isolation' = Step.isolation /\ identity' = Program
         /\ xpc' = "prepare" /\ proc' = "none" /\ status' = NoStatus
         /\ held' = FALSE /\ late' = FALSE /\ killed' = FALSE
         /\ xresult' = "none"
    ELSE UNCHANGED execVars

FreshRequest == IF Step.kind \in Requests THEN Begin(Step.kind, Step.timeout) ELSE UNCHANGED reqVars

StepNamed(n) == CHOOSE m \in 1..at : plan[m].name = n
Environment == [n \in env |-> values[StepNamed(n)]]

\* Mutant: the step is executed by the workflow itself.
ExecuteAlways ==
    /\ phase = "step"
    /\ phase' = "running"
    /\ runs' = [runs EXCEPT ![at] = @ + 1]
    /\ read' = IF Step.kind = "plain" THEN Unread ELSE Parse(Step.spec, Environment)
    /\ FreshContainer /\ FreshCommand /\ FreshRequest
    /\ UNCHANGED <<plan, at, envVars, outcome, dbos, crashes>>

Execute ==
    /\ phase = "step" /\ recorded[at] = "none"
    /\ phase' = "running"
    /\ runs' = [runs EXCEPT ![at] = @ + 1]
    /\ read' = IF Step.kind = "plain" THEN Unread ELSE Parse(Step.spec, Environment)
    /\ FreshContainer /\ FreshCommand /\ FreshRequest
    /\ UNCHANGED <<plan, at, envVars, outcome, dbos, crashes>>

\* Arguments, headers, body and variables are evaluated later than the other
\* fields, yet before a container is created, a command started, a request sent.
ParseFails ==
    /\ phase = "running" /\ ~read.ok
    /\ \/ Step.kind = "container" /\ pc \in {"policy", "create"}
       \/ Step.kind = "exec" /\ xpc = "prepare"
       \/ Step.kind \in Requests /\ rpc = "build"
    /\ phase' = "returned" /\ outcome' = "error"
    /\ UNCHANGED <<plan, at, envVars, read, dbos, runs, crashes, stepVars>>

Answers ==
    CASE Step.kind = "plain" -> {"ok"}
      [] Step.kind = "exec" -> {xresult} \ {"none"}
      [] Step.kind = "container" ->
            IF pc # "done" THEN {} ELSE IF result = "ok" THEN {"ok"} ELSE {"error"}
      [] Step.kind \in Requests -> {rresult} \ {"none"}

\* The answer takes the place that Validate made in the environment; with an error
\* the environment is dropped.
StepReturns ==
    /\ phase = "running"
    /\ outcome' \in Answers
    /\ phase' = "returned"
    /\ values' = IF outcome' = "ok" THEN [values EXCEPT ![at] = runs[at]] ELSE values
    /\ UNCHANGED <<plan, at, env, read, dbos, runs, crashes, stepVars>>

RecordStep ==
    /\ phase = "returned"
    /\ phase' = "answered"
    /\ recorded' = [recorded EXCEPT ![at] = outcome]
    /\ snap' = [snap EXCEPT ![at] = values]
    /\ UNCHANGED <<plan, at, envVars, read, outcome, verdict, runs, crashes, stepVars>>

\* Mutant: the recorded environment is not taken over.
ReplayAnswerOnly ==
    /\ phase = "step" /\ recorded[at] # "none"
    /\ phase' = "answered"
    /\ outcome' = recorded[at]
    /\ UNCHANGED <<plan, at, envVars, read, dbos, runs, crashes, stepVars>>

Replay ==
    /\ phase = "step" /\ recorded[at] # "none"
    /\ phase' = "answered"
    /\ outcome' = recorded[at] /\ values' = snap[at]
    /\ UNCHANGED <<plan, at, env, read, dbos, runs, crashes, stepVars>>

\* Mutant: an error of a step does not end the run.
ProceedAnyway ==
    /\ phase = "answered"
    /\ phase' = "next" /\ at' = at + 1
    /\ UNCHANGED <<plan, envVars, read, outcome, dbos, runs, crashes, stepVars>>

Proceed ==
    /\ phase = "answered" /\ outcome = "ok"
    /\ phase' = "next" /\ at' = at + 1
    /\ UNCHANGED <<plan, envVars, read, outcome, dbos, runs, crashes, stepVars>>

StopAtError ==
    /\ phase = "answered" /\ outcome = "error"
    /\ phase' = "over"
    /\ UNCHANGED <<plan, at, envVars, read, outcome, dbos, runs, crashes, stepVars>>

Finish ==
    /\ phase = "next" /\ at > Len(plan)
    /\ phase' = "over" /\ outcome' = "ok"
    /\ UNCHANGED <<plan, at, envVars, read, dbos, runs, crashes, stepVars>>

RecordVerdict ==
    /\ phase = "over"
    /\ phase' = "closed" /\ verdict' = outcome
    /\ UNCHANGED <<plan, at, envVars, read, outcome, recorded, snap, runs, crashes, stepVars>>

----------------------------------------------------------------------------
(* The program dies and comes back *)

\* An event that no run was recorded for is lost.
Crash ==
    /\ phase \notin {"down", "closed"} /\ crashes < MaxCrashes
    /\ crashes' = crashes + 1
    /\ phase' = IF phase = "event" THEN "closed" ELSE "down"
    /\ UNCHANGED <<plan, at, envVars, read, outcome, dbos, runs, stepVars>>

\* Mutant: the environment outlives the call of run.
RecoverWithEnv ==
    /\ phase = "down"
    /\ phase' = "next" /\ at' = 1 /\ outcome' = "none"
    /\ UNCHANGED <<plan, envVars, read, dbos, runs, crashes, stepVars>>

Recover ==
    /\ phase = "down"
    /\ phase' = "next" /\ at' = 1 /\ outcome' = "none"
    /\ env' = {} /\ values' = Untouched
    /\ UNCHANGED <<plan, read, dbos, runs, crashes, stepVars>>

----------------------------------------------------------------------------
\* Without its fields a step comes to no container, command or request.
ContainerGoesOn(Move) ==
    Executing("container") /\ Move /\ (read.ok \/ pc # "create" \/ pc' = pc) /\ UNCHANGED <<runVars, execVars, reqVars>>
CommandGoesOn(Move) ==
    Executing("exec") /\ Move /\ (read.ok \/ xpc' = xpc) /\ UNCHANGED <<runVars, vars, reqVars>>
RequestGoesOn(Move) ==
    phase = "running" /\ Step.kind \in Requests /\ Move /\ (read.ok \/ rpc' = rpc)
    /\ UNCHANGED <<runVars, vars, execVars>>

\* The daemon does not care whether the program lives.
Daemon ==
    /\ (\E c \in {0, 1} : Exit(c)) \/ Remove
    /\ UNCHANGED <<runVars, execVars, reqVars>>

Loop ==
    \/ WorkflowMissing \/ RunWorkflow
    \/ Validate \/ ValidateFails \/ Execute \/ ParseFails \/ StepReturns \/ RecordStep \/ Replay
    \/ Proceed \/ StopAtError \/ Finish \/ RecordVerdict
    \/ Recover

RunNext ==
    \/ Loop \/ Crash
    \/ ContainerGoesOn(Prepare \/ Launch \/ Await \/ Report) \/ ContainerGoesOn(Expire)
    \/ ContainerGoesOn(DaemonMay)
    \/ Daemon
    \/ CommandGoesOn(ExecProceeds) \/ CommandGoesOn(Deadline) \/ CommandGoesOn(Kill)
    \/ CommandGoesOn(ExecWorld)
    \/ RequestGoesOn(RequestProceeds) \/ RequestGoesOn(TimeIsUp) \/ RequestGoesOn(Peer)

RunSpec == RunInit /\ [][RunNext]_allVars

\* The program runs while it is up and is restarted when it is not; timeouts
\* strike, and every call made under one returns when it does.  Neither a container
\* nor a command need end by itself, nor a peer answer, nor the daemon fail a wait or
\* answer a stop, which is under no timeout (step_container.go:250).
FairRunSpec ==
    /\ RunSpec
    /\ WF_allVars(Loop)
    /\ WF_allVars(ContainerGoesOn(Prepare \/ Launch \/ Await \/ Report))
    /\ WF_allVars(ContainerGoesOn(Expire))
    /\ WF_allVars(CommandGoesOn(ExecProceeds))
    /\ WF_allVars(CommandGoesOn(Deadline)) /\ WF_allVars(CommandGoesOn(Kill))
    /\ WF_allVars(RequestGoesOn(RequestProceeds)) /\ WF_allVars(RequestGoesOn(TimeIsUp))

----------------------------------------------------------------------------
Outcomes == {"none", "ok", "error"}

\* What a step returns is true of its container, its command or its peer, also in
\* an execution that repeats one which died; a command runs as the step asks.
TrueAnswers == TrueReport /\ SucceedsUntouched /\ RunsAsAsked /\ AnswerIsWhole

\* A step is executed with what its fields mean by the answers that DBOS has on
\* record for the steps before it, never by those of an execution that was lost
\* or repeated (workflow.go:35, 43).
OnRecord == [n \in env |-> IF StepNamed(n) = at THEN 0 ELSE snap[StepNamed(n)][StepNamed(n)]]

ReadsRecorded == phase = "running" /\ Step.kind # "plain" => read = Parse(Step.spec, OnRecord)

\* What a step is executed with is exactly what its fields say of the environment,
\* and so it is of structs of every kind of field and tag (expression.go:15, 48, 172).
ParseIsExact ==
    /\ phase = "running" /\ Step.kind # "plain" => Exact(Step.spec, Environment, read)
    /\ ExactOnAll

\* A step is executed only when every step before it is recorded as ok and it
\* has no recorded answer itself (workflow.go:35, 43), whenever the program died.
StepsInOrder ==
    [][\A m \in DOMAIN plan :
          runs'[m] # runs[m] =>
              recorded[m] = "none" /\ \A k \in 1..(m - 1) : recorded[k] = "ok"]_allVars

\* The sum of what f has for 1 to n.
Total(f, n) == LET sum[k \in 0..n] == IF k = 0 THEN 0 ELSE sum[k - 1] + f[k] IN sum[n]

\* All executions beyond one of each step are due to deaths, one to each.
OneRepeatPerCrash == Total(runs, Len(plan)) <= Len(plan) + crashes

\* What the state has of containers, commands and peers is the last one's.
LastOfItsKind(m) == \A n \in DOMAIN plan : Family(plan[n].kind) = Family(plan[m].kind) => n <= m

DistinctNames ==
    \A m, n \in DOMAIN plan : plan[m].name # NoName /\ (plan[m].name = plan[n].name => m = n)

\* The recorded verdict is true of what happened, over all restarts: a run that
\* succeeded has distinct names, every answer ok, a last container and a last command that
\* ended with 0, a last peer that answered; one that failed has a failed step or a name that is refused.
VerdictIsTrue ==
    /\ verdict = "ok" =>
          \A m \in DOMAIN plan :
              /\ recorded[m] = "ok"
              /\ LastOfItsKind(m) =>
                    /\ plan[m].kind = "container" => code = 0
                    /\ plan[m].kind = "exec" => status = 0 /\ ~killed
                    /\ plan[m].kind \in Requests \ {"mock"} => peer \in {"whole", "refused"}
    /\ (verdict = "error") => ~DistinctNames \/ \E m \in DOMAIN plan : recorded[m] = "error"
    /\ verdict = "ok" => DistinctNames

\* The run comes to its verdict or was never begun, unless a process that an exec
\* step left behind holds its output for ever, which no timeout helps against, or
\* a peer keeps silent that an llm step asks, or an http step with a negative
\* timeout, or the daemon keeps silent that is asked to stop a container.
StopUnanswered == Executing("container") /\ pc = "stopping"
RunEnds == <>[]held \/ <>[]Unanswered \/ <>[]StopUnanswered \/ <>(phase = "closed")

----------------------------------------------------------------------------
(* What a run promises: DurableRun, with DBOS's records as the answers. *)

Accepted == {m \in DOMAIN plan :
                plan[m].name # NoName /\ \A k \in 1..(m - 1) : plan[k].name # plan[m].name}
InHand == IF phase \in {"running", "returned"} THEN at ELSE 0
Durable == INSTANCE DurableRun WITH accepted <- Accepted, answers <- recorded, running <- InHand

\* Every step of the program, the daemon, the commands and the peers, and every
\* death, is a step of DurableRun or none: an execution is begun, answered or lost,
\* the verdict is that of the first step that failed or was refused.
ImplementsDurableRun == Durable!Spec
===============================================================================
