---------------------------- MODULE ContainerStep ----------------------------
(***************************************************************************)
(* One execution of a container step (internal/workflow/step_container.go) *)
(* and the Docker daemon it talks to: the image, the container, the wait,  *)
(* the timeout that runs from the first call on, and the logs.             *)
(*                                                                         *)
(* A call made under a context that is done fails; the daemon may have     *)
(* carried it out all the same.  The daemon removes a container that was   *)
(* created with AutoRemove when it ends, or when it does not start.  The   *)
(* container of a timeout is stopped under a context without a limit, and  *)
(* what comes of that call is ignored.                                     *)
(***************************************************************************)
EXTENDS Naturals

CONSTANTS
    Policies,   \* pull_policy: "always", "missing", "never", or an "unknown" one
    Settings,   \* auto_remove: "true", "false", or "absent"
    Timed,      \* whether the timeout may strike
    Faults      \* "registry", "create", "start", "wait", "stop", "logs": that call may fail

Calls == {"registry", "create", "start", "wait", "stop", "logs"}

ASSUME PolicyAssumption == Policies \subseteq {"always", "missing", "never", "unknown"}
ASSUME SettingAssumption == Settings \subseteq {"true", "false", "absent"}
ASSUME FaultAssumption == Timed \in BOOLEAN /\ Faults \subseteq Calls

VARIABLES
    policy, setting,  \* the step's configuration
    present,          \* the image is on this host
    ctr,              \* the container: none, created, running, exited, removed
    code,             \* history: the container's exit code, 2 before it has one
    expired,          \* containerCtx is done
    pc,               \* where Execute is
    exitCode,         \* its variables
    containerErr,
    registered,       \* the daemon has its wait, made while the container was there
    failed,           \* history: "wait" or "stop", where the daemon failed the step in that call
    result            \* what it returned: nothing yet, ok, or which error

config == <<policy, setting>>
vars == <<policy, setting, present, ctr, code, expired, pc, exitCode, containerErr, registered, failed, result>>

NoCode == 2

\* "AutoRemove || AutoRemove == false && AutoRemove": an absent field is false.
AutoRemove == setting = "true"

Init ==
    /\ policy \in Policies /\ setting \in Settings
    /\ present \in BOOLEAN
    /\ ctr = "none" /\ code = NoCode
    /\ expired = FALSE
    /\ pc = "policy"
    /\ exitCode = 0 /\ containerErr = FALSE /\ registered = FALSE /\ failed = {}
    /\ result = "none"

Go(from, to) == pc = from /\ pc' = to

Return(from, r) == Go(from, "done") /\ result' = r

MayFail(call) == call \in Faults \/ expired

----------------------------------------------------------------------------
(* The image *)

ShouldPull == policy = "always" \/ (policy = "missing" /\ (~present \/ expired))

CheckPolicy ==
    /\ policy # "unknown"
    /\ Go("policy", IF ShouldPull THEN "pull" ELSE "create")
    /\ UNCHANGED <<config, present, ctr, code, expired, exitCode, containerErr, registered, failed, result>>

RejectPolicy ==
    /\ policy = "unknown"
    /\ Return("policy", "invalid policy")
    /\ UNCHANGED <<config, present, ctr, code, expired, exitCode, containerErr, registered, failed>>

PullFails ==
    /\ MayFail("registry")
    /\ Return("pull", "pull failed")
    /\ UNCHANGED <<config, present, ctr, code, expired, exitCode, containerErr, registered, failed>>

\* An error of the transfer itself is ignored (147); the image is then missing.
Pull ==
    /\ Go("pull", "create")
    /\ present' \in {TRUE} \union (IF MayFail("registry") THEN {present} ELSE {})
    /\ UNCHANGED <<config, ctr, code, expired, exitCode, containerErr, registered, failed, result>>

----------------------------------------------------------------------------
(* The container *)

Create ==
    /\ present /\ ~expired
    /\ Go("create", "start")
    /\ ctr' = "created"
    /\ UNCHANGED <<config, present, code, expired, exitCode, containerErr, registered, failed, result>>

\* The id of a container that is created in spite of the error is lost.
CreateFails ==
    /\ ~present \/ MayFail("create")
    /\ Return("create", "create failed")
    /\ ctr' \in {"none"} \union (IF present /\ expired THEN {"created"} ELSE {})
    /\ UNCHANGED <<config, present, code, expired, exitCode, containerErr, registered, failed>>

Start ==
    /\ ~expired
    /\ Go("start", "started")
    /\ ctr' = "running"
    /\ UNCHANGED <<config, present, code, expired, exitCode, containerErr, registered, failed, result>>

\* Nothing is cleaned up.  Cancelled, the daemon may start it nevertheless.
StartFails ==
    /\ MayFail("start")
    /\ Return("start", "start failed")
    /\ ctr' \in {IF AutoRemove THEN "removed" ELSE "created"}
                \union (IF expired THEN {"created", "running"} ELSE {})
    /\ UNCHANGED <<config, present, code, expired, exitCode, containerErr, registered, failed>>

Exit(c) ==
    /\ ctr = "running"
    /\ ctr' = "exited"
    /\ code' = c
    /\ UNCHANGED <<config, present, expired, pc, exitCode, containerErr, registered, failed, result>>

Remove ==
    /\ ctr = "exited" /\ AutoRemove
    /\ ctr' = "removed"
    /\ UNCHANGED <<config, present, code, expired, pc, exitCode, containerErr, registered, failed, result>>

----------------------------------------------------------------------------
(* The select on statusCh, errCh and containerCtx.Done() *)

Wait ==
    /\ Go("started", "wait")
    /\ registered' = (ctr # "removed" /\ ~expired)
    /\ UNCHANGED <<config, present, ctr, code, expired, exitCode, containerErr, failed, result>>

Ended == ctr \in {"exited", "removed"}

\* Mutant: a status without an error is taken for one with an error.
StatusTakenForError ==
    /\ registered /\ Ended
    /\ Go("wait", "logs")
    /\ exitCode' = code /\ containerErr' = TRUE
    /\ UNCHANGED <<config, present, ctr, code, expired, registered, failed, result>>

\* The status may carry an error of the daemon's beside the exit code.
StatusComes ==
    /\ registered /\ Ended
    /\ Go("wait", "logs")
    /\ exitCode' = code
    /\ \/ UNCHANGED <<containerErr, failed>>
       \/ "wait" \in Faults /\ containerErr' = TRUE /\ failed' = failed \union {"wait"}
    /\ UNCHANGED <<config, present, ctr, code, expired, registered, result>>

\* Of a container that was removed before, and of a context that is done, the
\* wait reports an error; the select may take it although Done is ready too.
WaitErrorComes ==
    /\ ~registered \/ expired
    /\ Go("wait", "logs")
    /\ containerErr' = TRUE
    /\ UNCHANGED <<config, present, ctr, code, expired, exitCode, registered, failed, result>>

\* It reports one as well when the daemon is lost, whatever the container does.
WaitFails ==
    /\ "wait" \in Faults /\ registered /\ ~expired
    /\ Go("wait", "logs")
    /\ containerErr' = TRUE
    /\ failed' = failed \union {"wait"}
    /\ UNCHANGED <<config, present, ctr, code, expired, exitCode, registered, result>>

\* Execute calls ContainerStop, under a fresh context.
TimeoutComes ==
    /\ expired
    /\ Go("wait", "stopping")
    /\ UNCHANGED <<config, present, ctr, code, expired, exitCode, containerErr, registered, failed, result>>

StopReturns ==
    /\ Return("stopping", "timed out")
    /\ \/ /\ ctr = "running"
          /\ ctr' = "exited" /\ code' \in {0, 1}
       \/ ctr # "running" /\ UNCHANGED <<ctr, code>>
    /\ UNCHANGED <<config, present, expired, exitCode, containerErr, registered, failed>>

\* The error is dropped.
StopFails ==
    /\ "stop" \in Faults
    /\ Return("stopping", "timed out")
    /\ failed' = failed \union {"stop"}
    /\ UNCHANGED <<config, present, ctr, code, expired, exitCode, containerErr, registered>>

----------------------------------------------------------------------------
(* The logs, and the answer *)

LogsFail ==
    /\ ctr = "removed" \/ MayFail("logs")
    /\ Return("logs", "no logs")
    /\ UNCHANGED <<config, present, ctr, code, expired, exitCode, containerErr, registered, failed>>

\* The logs are read to their end: of a container that still runs, as one may
\* after an error of the wait, that is what it has written so far.
Answer ==
    /\ ctr # "removed" /\ ~expired
    /\ Return("logs", IF exitCode # 0 THEN "exit code" ELSE IF containerErr THEN "wait failed" ELSE "ok")
    /\ UNCHANGED <<config, present, ctr, code, expired, exitCode, containerErr, registered, failed>>

\* Mutant: the context of the calls has no timeout.
NeverExpires ==
    /\ Timed /\ ~expired /\ pc = "done"
    /\ expired' = TRUE
    /\ UNCHANGED <<config, present, ctr, code, pc, exitCode, containerErr, registered, failed, result>>

\* The timeout, or the end of the workflow's context.
Expire ==
    /\ Timed /\ ~expired /\ pc # "done"
    /\ expired' = TRUE
    /\ UNCHANGED <<config, present, ctr, code, pc, exitCode, containerErr, registered, failed, result>>

----------------------------------------------------------------------------
Prepare == CheckPolicy \/ RejectPolicy \/ PullFails \/ Pull
Launch == Create \/ CreateFails \/ Start \/ StartFails
Await == Wait \/ StatusComes \/ WaitErrorComes \/ TimeoutComes
DaemonMay == WaitFails \/ StopReturns \/ StopFails
Report == LogsFail \/ Answer

Next ==
    \/ Prepare \/ Launch \/ Await \/ DaemonMay \/ Report
    \/ (\E c \in {0, 1} : Exit(c)) \/ Remove
    \/ Expire

Spec == Init /\ [][Next]_vars

----------------------------------------------------------------------------
\* A step that succeeds has a container that ended with 0, one that fails with the
\* exit code a container that did not, and one that reports the timeout has stopped
\* its container, unless the daemon failed to (step_container.go:250 does not look).
TrueReport ==
    /\ result = "ok" => code = 0
    /\ result = "exit code" => code = 1
    /\ result = "timed out" => ctr # "running" \/ "stop" \in failed

\* "When a container execution times out: 1. The container is stopped gracefully"
\* (CONTAINER_STEP.md:444-446): no container that was started outlives its step.
NothingRunsOn == pc = "done" /\ result # "start failed" /\ result # "create failed" => ctr # "running"

\* A kept container that ends with 0 in time makes a step that succeeds, unless
\* the daemon fails the wait for it or its logs cannot be read.  Of one that Docker
\* removes when it ends the logs may be gone before the step asks for them.
KeptExitSucceeds ==
    pc = "done" /\ ~AutoRemove /\ code = 0 /\ ~expired /\ "wait" \notin failed => result \in {"ok", "no logs"}
=============================================================================
