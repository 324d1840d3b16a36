------------------------------ MODULE Application ------------------------------
(***************************************************************************)
(* The application (internal/application): the RPC server over the two     *)
(* in-memory stores, the trigger service behind one of them, and the       *)
(* goroutines that take its events to the workflow service.                *)
(*                                                                         *)
(* The server handles RPCs once the trigger service has started.  Requests *)
(* that are refused before a store is called change nothing and are left   *)
(* out.  A direct caller uses the trigger store without the application,   *)
(* as the tests do, and only there the context ends or the store is shut   *)
(* down: the application's main gives it a context without an end.         *)
(***************************************************************************)
EXTENDS MockTriggerStore, WorkflowStore

CONSTANTS
    Roles,      \* assignments of direct, triggers, workflows or lists to the callers
    MaxCalls,   \* bound on the calls of all callers, for each assignment
    MaxEvents,  \* bound on the events triggers send
    Cap         \* capacity of the event channel (100 in service.go)

ASSUME CallersAssumption == Callers = Clients
ASSUME RoleAssumption == Roles \subseteq [Clients -> {"direct", "triggers", "workflows", "lists"}]

VARIABLES
    role,      \* what a caller calls
    calls,     \* calls so far
    sent,      \* events so far
    channel,   \* the service's events: a number and the workflow the trigger names
    routes     \* the events of the goroutines that start workflows

pipe == <<sent, channel, routes>>
appVars == <<vars, workflowVars, role, calls, pipe>>

AppInit ==
    /\ Init /\ WorkflowInit
    /\ role \in Roles
    /\ calls = 0 /\ sent = 0
    /\ channel = <<>> /\ routes = {}

Serving == svc \notin {"starting", "loaded"}
AppRuns == \A c \in Clients : role[c] # "direct"
Called == calls < MaxCalls[role] /\ calls' = calls + 1

----------------------------------------------------------------------------
(* RPCs, and direct calls of the trigger store *)

MayWrite(c) == role[c] = "direct" \/ (role[c] = "triggers" /\ Serving)

CreateTrigger(c, t) == MayWrite(c) /\ Called /\ AddBegins(c, t)
UpdateTrigger(c, t) == MayWrite(c) /\ Called /\ Update(c, t)
DeleteTrigger(c, t) == MayWrite(c) /\ Called /\ Delete(c, t)

TriggerRPC(c) ==
    /\ \/ \E t \in Triggers : CreateTrigger(c, t) \/ UpdateTrigger(c, t) \/ DeleteTrigger(c, t)
       \/ AddEnds(c) /\ UNCHANGED calls
    /\ UNCHANGED <<workflowVars, role, pipe>>

WorkflowRPC(c) ==
    /\ Serving
    /\ \/ role[c] = "workflows" /\ Called /\ WorkflowCall(c)
       \/ role[c] = "lists" /\ ListBegins(c) /\ Called
       \/ ~Idle(c) /\ ListCall(c) /\ UNCHANGED calls
    /\ UNCHANGED <<vars, role, pipe>>

----------------------------------------------------------------------------
(* From a trigger to a run *)

\* The worker of a trigger sends an event, for the workflow that the trigger it
\* was given names: an Update tells the service one that is not stored.
Emit ==
    /\ AppRuns /\ Serving /\ \E t \in Triggers : got[t] # 0
    /\ Len(channel) < Cap /\ sent < MaxEvents
    /\ sent' = sent + 1
    /\ \E w \in Workflows : channel' = Append(channel, <<sent + 1, w>>)
    /\ UNCHANGED <<vars, workflowVars, role, calls, routes>>

Forward ==
    /\ AppRuns /\ Serving /\ channel # <<>>
    /\ routes' = routes \union {Head(channel)}
    /\ channel' = Tail(channel)
    /\ UNCHANGED <<vars, workflowVars, role, calls, sent>>

\* Mutant: an event waits for its workflow to be created.
RouteRetries(n) ==
    /\ \E e \in routes :
          /\ e[1] = n
          /\ StartWorkflow(e[2])
          /\ routes' = routes \ {e}
    /\ UNCHANGED <<vars, rowVars, answer, listing, role, calls, sent, channel>>

\* Without the workflow, or when DBOS cannot record the run, the error is logged.
Route(n) ==
    /\ \E e \in routes :
          /\ e[1] = n
          /\ StartWorkflow(e[2]) \/ UNCHANGED begun
          /\ routes' = routes \ {e}
    /\ UNCHANGED <<vars, rowVars, answer, listing, role, calls, sent, channel>>

----------------------------------------------------------------------------
ServiceStep ==
    /\ LoadAll \/ Subscribe \/ Wait \/ ListenerStops \/ (~AppRuns /\ (CancelCtx \/ Shutdown))
    /\ UNCHANGED <<workflowVars, role, calls, pipe>>

AppNext ==
    \/ \E c \in Clients : TriggerRPC(c) \/ WorkflowRPC(c)
    \/ ServiceStep
    \/ Emit \/ Forward
    \/ \E n \in 1..MaxEvents : Route(n)

\* The goroutine that ranges over the channel and those it starts are scheduled.
AppFairness ==
    /\ WF_appVars(Forward)
    /\ \A n \in 1..MaxEvents : WF_appVars(Route(n))

AppSpec == AppInit /\ [][AppNext]_appVars /\ AppFairness

----------------------------------------------------------------------------
Underway(n) == \E e \in routes \union {channel[k] : k \in DOMAIN channel} : e[1] = n

\* An event that a trigger sent is dealt with, whatever happens to its workflow
\* in between, and keeps no goroutine (application.go:83).
EventsRouted == \A n \in 1..MaxEvents : Underway(n) ~> ~Underway(n)
===============================================================================
