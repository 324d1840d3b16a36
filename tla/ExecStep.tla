------------------------------- MODULE ExecStep -------------------------------
(***************************************************************************)
(* One execution of an exec step (internal/workflow/step_exec.go): a       *)
(* command, the processes it leaves behind, and the timeout.               *)
(*                                                                         *)
(* cmd.Run returns when the command has been reaped and its output is      *)
(* closed.  The timeout kills the command alone; a process the command has *)
(* started keeps the output open for as long as it likes.                  *)
(*                                                                         *)
(* Of the isolation (step_exec_isolation_linux.go) the user and the group  *)
(* are followed; namespaces and limits are handed to the kernel as asked.  *)
(***************************************************************************)
EXTENDS Naturals

CONSTANTS
    CommandMayFail   \* the isolation or the start of the command may fail

ASSUME CommandAssumption == CommandMayFail \in BOOLEAN

\* How a step names a user or a group: not at all, by name or number, or by one
\* that no account has.
Forms == {"", "name", "number", "stray name", "stray number"}
Isolations == [user : Forms, group : Forms]

VARIABLES
    isolation, \* the user and the group the step asks for
    identity,  \* the user and the group the command was started as
    xpc,      \* where Execute is: prepare, run, done
    proc,     \* the command: none, running, exited, reaped
    status,   \* its exit code: 0, 1, KilledCode; NoStatus before it has one
    held,     \* a process the command started has the output open
    late,     \* cmdCtx is done
    killed,   \* the watcher of cmdCtx has killed the command
    xresult   \* what Execute returned: nothing yet, ok, error

execVars == <<isolation, identity, xpc, proc, status, held, late, killed, xresult>>

KilledCode == 2
NoStatus == 3

Program == <<"program", "program">>

ExecInit ==
    /\ isolation = [user |-> "", group |-> ""] /\ identity = Program
    /\ xpc = "prepare" /\ proc = "none" /\ status = NoStatus
    /\ held = FALSE /\ late = FALSE /\ killed = FALSE
    /\ xresult = "none"

----------------------------------------------------------------------------
\* A number need not have an account: such a user's group is root's.
lookupUser(form) == IF form = "stray number" THEN <<form, "root">> ELSE <<"account", "primary">>
lookupGroup == "account's"

LookupFails == isolation.user = "stray name" \/ isolation.group \in {"stray name", "stray number"}

\* Mutant: the user's own group comes after the one asked for.
CredentialOfUser ==
    IF isolation.user # "" THEN lookupUser(isolation.user)
    ELSE IF isolation.group # "" THEN <<"root", lookupGroup>> ELSE Program

\* A group alone leaves the user at 0, root's.
Credential ==
    IF isolation.user = "" /\ isolation.group = "" THEN Program
    ELSE <<IF isolation.user = "" THEN "root" ELSE lookupUser(isolation.user)[1],
           IF isolation.group = "" THEN lookupUser(isolation.user)[2] ELSE lookupGroup>>

\* The isolation or the command itself is refused, or the timeout strikes before
\* the command is started.
PrepareFails ==
    /\ xpc = "prepare" /\ (CommandMayFail \/ late \/ LookupFails)
    /\ xpc' = "done" /\ xresult' = "error"
    /\ UNCHANGED <<isolation, identity, proc, status, held, late, killed>>

StartCommand ==
    /\ xpc = "prepare" /\ ~late /\ ~LookupFails
    /\ xpc' = "run" /\ proc' = "running"
    /\ identity' = Credential
    /\ UNCHANGED <<isolation, status, held, late, killed, xresult>>

\* The command starts a process that inherits its output, as "sh -c" may.
StartChild ==
    /\ proc = "running" /\ ~held
    /\ held' = TRUE
    /\ UNCHANGED <<isolation, identity, xpc, proc, status, late, killed, xresult>>

ChildEnds ==
    /\ held
    /\ held' = FALSE
    /\ UNCHANGED <<isolation, identity, xpc, proc, status, late, killed, xresult>>

CommandExits(c) ==
    /\ proc = "running"
    /\ proc' = "exited" /\ status' = c
    /\ UNCHANGED <<isolation, identity, xpc, held, late, killed, xresult>>

Deadline ==
    /\ ~late /\ xpc # "done"
    /\ late' = TRUE
    /\ UNCHANGED <<isolation, identity, xpc, proc, status, held, killed, xresult>>

\* A command that has exited and is not yet reaped can still be killed.
Kill ==
    /\ late /\ ~killed /\ proc \in {"running", "exited"}
    /\ killed' = TRUE
    /\ proc' = "exited"
    /\ status' = IF proc = "running" THEN KilledCode ELSE status
    /\ UNCHANGED <<isolation, identity, xpc, held, late, xresult>>

Reap ==
    /\ proc = "exited"
    /\ proc' = "reaped"
    /\ UNCHANGED <<isolation, identity, xpc, status, held, late, killed, xresult>>

\* Mutant: the exit code alone decides, not the error of Run.
AnswerFromCode ==
    /\ xpc = "run" /\ proc = "reaped" /\ ~held
    /\ xpc' = "done"
    /\ xresult' = IF status = 0 THEN "ok" ELSE "error"
    /\ UNCHANGED <<isolation, identity, proc, status, held, late, killed>>

\* Run's error is the exit code's, or of a killed command cmdCtx's.
CommandAnswers ==
    /\ xpc = "run" /\ proc = "reaped" /\ ~held
    /\ xpc' = "done"
    /\ xresult' = IF status = 0 /\ ~killed THEN "ok" ELSE "error"
    /\ UNCHANGED <<isolation, identity, proc, status, held, late, killed>>

----------------------------------------------------------------------------
ExecProceeds == PrepareFails \/ StartCommand \/ Reap \/ CommandAnswers

ExecWorld == StartChild \/ ChildEnds \/ (\E c \in {0, 1} : CommandExits(c))

\* A step that succeeds ran a command that ended by itself with 0 and that the
\* timeout did not touch, not even between its end and its reaping.
SucceedsUntouched == xresult = "ok" => status = 0 /\ ~killed

\* A command that was started has the user and the group the step asks for, also
\* by a number that no account has, and the program's own of both exactly if it asks
\* for neither.  What the other one is when only one is asked for is left open.
RunsAsAsked ==
    proc # "none" =>
        /\ isolation.user \in {"name", "number"} => identity[1] = "account"
        /\ isolation.user = "stray number" => identity[1] = "stray number"
        /\ isolation.group # "" => identity[2] = "account's"
        /\ (isolation.user = "" /\ isolation.group = "") = (identity = Program)
===============================================================================
