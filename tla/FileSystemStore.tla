--------------------------- MODULE FileSystemStore ---------------------------
(***************************************************************************)
(* The file-backed trigger store (internal/trigger/store_fs.go): one file  *)
(* per trigger, written by the API's handlers under a mutex, and a watcher *)
(* goroutine that turns fsnotify events into updates for the service.      *)
(*                                                                         *)
(* A file's content is the number of its version.  os.WriteFile truncates  *)
(* and then writes, so that a write has a middle, in which the file is     *)
(* torn.  The service is the update listener: it loads, subscribes, reads. *)
(***************************************************************************)
EXTENDS Naturals, Sequences

CONSTANTS
    Triggers,
    Clients,     \* goroutines that call Add, Update and Delete
    NoClient,
    MaxWrites,   \* bound on the writes of one trigger
    MaxEvents,   \* bound on the unread fsnotify events when a write starts
    Cap,         \* capacity of updateCh
    Faults       \* "disk": a write fails half way; "watch": there is no fsnotify watcher to be had

ASSUME ClientAssumption == NoClient \notin Clients
ASSUME BoundAssumption == MaxWrites \in Nat \ {0} /\ MaxEvents \in Nat /\ Cap \in Nat \ {0} /\ Faults \subseteq {"disk", "watch"}

VARIABLES
    ver,      \* versions of a trigger written so far
    file,     \* the version a trigger's file holds, 0 if there is no file
    torn,     \* the file is truncated and not yet, or not fully, written
    broken,   \* history: the triggers whose last write failed
    mu,       \* the client that holds the store's mutex
    target,   \* the trigger a client writes
    events,   \* fsnotify events on their way to the watcher
    watched,  \* the fsnotify watcher: none yet, open, closed
    wpc,      \* where the watcher goroutine is
    cur,      \* the trigger, and the version it read, that it handles
    updateCh, \* updates on their way to the service
    svc,      \* the service: loading, subscribing (opened), listening, gone
    got,      \* the version of a trigger the service knows
    since,    \* history: versions written when the service subscribed
    ctxDone,  \* the context is cancelled
    shut,     \* the store's Shutdown; "panicked": the process is gone
    called    \* history: what the service was doing when Shutdown was called

files == <<ver, file, torn, broken, mu, target>>
watcher == <<watched, wpc, cur, updateCh>>
service == <<svc, got, since>>
shutdown == <<ctxDone, shut, called>>
vars == <<ver, file, torn, broken, mu, target, events, watched, wpc, cur, updateCh,
          svc, got, since, ctxDone, shut, called>>

Init ==
    /\ ver \in [Triggers -> 0..1]
    /\ file = ver
    /\ torn = [t \in Triggers |-> FALSE]
    /\ broken = {}
    /\ mu = NoClient
    /\ target \in [Clients -> Triggers]
    /\ events = <<>>
    /\ watched = "nil"
    /\ wpc = "off"
    /\ cur \in Triggers \X {0}
    /\ updateCh = <<>>
    /\ svc = "starting"
    /\ got = [t \in Triggers |-> 0]
    /\ since = ver
    /\ ctxDone = FALSE
    /\ shut = "no"
    /\ called = "never"

----------------------------------------------------------------------------
(* writeTrigger (Add, Update) and Delete *)

\* The kernel reports the change of a watched directory, and merges a report
\* with the last one if that is the same and still unread.
Report(t) ==
    IF wpc = "off" \/ watched # "open"
    THEN UNCHANGED events
    ELSE \/ events' = Append(events, t)
         \/ events # <<>> /\ events[Len(events)] = t /\ UNCHANGED events

\* Mutant: the file is written without the mutex.
WriteWithoutLock(c, t) ==
    /\ mu = NoClient /\ shut # "panicked"
    /\ ver[t] < MaxWrites /\ Len(events) < MaxEvents
    /\ target' = [target EXCEPT ![c] = t]
    /\ torn' = [torn EXCEPT ![t] = TRUE]
    /\ Report(t)
    /\ UNCHANGED <<ver, file, broken, mu, watcher, service, shutdown>>

WriteBegins(c, t) ==
    /\ mu = NoClient /\ shut # "panicked"
    /\ ver[t] < MaxWrites /\ Len(events) < MaxEvents
    /\ mu' = c
    /\ target' = [target EXCEPT ![c] = t]
    /\ torn' = [torn EXCEPT ![t] = TRUE]
    /\ Report(t)
    /\ UNCHANGED <<ver, file, broken, watcher, service, shutdown>>

WriteEnds(c) ==
    /\ mu = c
    /\ mu' = NoClient
    /\ ver' = [ver EXCEPT ![target[c]] = @ + 1]
    /\ file' = [file EXCEPT ![target[c]] = ver[target[c]] + 1]
    /\ torn' = [torn EXCEPT ![target[c]] = FALSE]
    /\ broken' = broken \ {target[c]}
    /\ Report(target[c])
    /\ UNCHANGED <<target, watcher, service, shutdown>>

WriteFails(c) ==
    /\ mu = c /\ "disk" \in Faults
    /\ mu' = NoClient
    /\ broken' = broken \union {target[c]}
    /\ UNCHANGED <<ver, file, torn, target, events, watcher, service, shutdown>>

\* The watcher is told of a removal too, and ignores it.
Delete(t) ==
    /\ mu = NoClient /\ shut # "panicked"
    /\ file[t] > 0 \/ torn[t]
    /\ file' = [file EXCEPT ![t] = 0]
    /\ torn' = [torn EXCEPT ![t] = FALSE]
    /\ broken' = broken \ {t}
    /\ UNCHANGED <<ver, mu, target, events, watcher, service, shutdown>>

----------------------------------------------------------------------------
(* The service's calls: All, Subscribe, and its update listener *)

\* One file that does not parse makes All, and with it Start, fail.
LoadAll ==
    /\ svc = "starting" /\ mu = NoClient
    /\ IF \E t \in Triggers : torn[t]
       THEN svc' = "failed" /\ UNCHANGED got
       ELSE svc' = "loaded" /\ got' = file
    /\ UNCHANGED <<files, events, watcher, since, shutdown>>

\* Subscribe first stores the new fsnotify watcher, where Shutdown finds it.
SubscribeBegins ==
    /\ svc = "loaded"
    /\ svc' = "opened"
    /\ watched' = "open"
    /\ UNCHANGED <<files, events, wpc, cur, updateCh, got, since, shutdown>>

\* Then it watches the directory and starts the goroutine.  A Shutdown in between
\* may have closed the watcher after the directory was added to it.
SubscribeEnds ==
    /\ svc = "opened"
    /\ svc' = "listening"
    /\ wpc' = "select"
    /\ since' = ver
    /\ UNCHANGED <<files, events, watched, cur, updateCh, got, shutdown>>

\* There is no watcher, or the directory cannot be added to it: it is closed.
SubscribeFails ==
    /\ \/ "watch" \in Faults /\ svc \in {"loaded", "opened"}
       \/ svc = "opened" /\ watched = "closed"
    /\ svc' = "failed"
    /\ watched' = IF svc = "opened" THEN "closed" ELSE watched
    /\ UNCHANGED <<files, events, wpc, cur, updateCh, got, since, shutdown>>

Receive ==
    /\ svc = "listening" /\ updateCh # <<>>
    /\ got' = [got EXCEPT ![Head(updateCh)[1]] = Head(updateCh)[2]]
    /\ updateCh' = Tail(updateCh)
    /\ UNCHANGED <<files, events, watched, wpc, cur, svc, since, shutdown>>

\* ctx.Done(), or the update channel is closed and empty.
ListenerStops ==
    /\ svc = "listening"
    /\ ctxDone \/ (shut = "closed" /\ updateCh = <<>>)
    /\ svc' = "stopped"
    /\ UNCHANGED <<files, events, watcher, got, since, shutdown>>

CancelCtx ==
    /\ ~ctxDone
    /\ ctxDone' = TRUE
    /\ UNCHANGED <<files, events, watcher, service, shut, called>>

----------------------------------------------------------------------------
(* watchChanges and handleFileChange *)

TakeEvent ==
    /\ wpc = "select" /\ events # <<>>
    /\ wpc' = "read"
    /\ cur' = <<Head(events), 0>>
    /\ events' = Tail(events)
    /\ UNCHANGED <<files, watched, updateCh, service, shutdown>>

\* The file is read under the read lock.  It may be gone, or not parse.
ReadFile ==
    /\ wpc = "read" /\ mu = NoClient
    /\ LET t == cur[1] IN
       IF file[t] = 0 \/ torn[t]
       THEN wpc' = "select" /\ UNCHANGED cur
       ELSE wpc' = "send" /\ cur' = <<t, file[t]>>
    /\ UNCHANGED <<files, events, watched, updateCh, service, shutdown>>

\* Mutant: a send that does not block, and drops the update.
SendOrDrop ==
    /\ wpc = "send" /\ shut # "closed"
    /\ updateCh' = IF Len(updateCh) < Cap THEN Append(updateCh, cur) ELSE updateCh
    /\ wpc' = "select"
    /\ UNCHANGED <<files, events, watched, cur, service, shutdown>>

\* Mutant: a goroutine per send, which may overtake an earlier one.
SendOvertakes ==
    /\ wpc = "send" /\ shut # "closed" /\ Len(updateCh) < Cap
    /\ updateCh' = <<cur>> \o updateCh
    /\ wpc' = "select"
    /\ UNCHANGED <<files, events, watched, cur, service, shutdown>>

Send ==
    /\ wpc = "send" /\ shut # "closed" /\ Len(updateCh) < Cap
    /\ updateCh' = Append(updateCh, cur)
    /\ wpc' = "select"
    /\ UNCHANGED <<files, events, watched, cur, service, shutdown>>

\* A send on a closed channel panics, in a goroutine that nothing recovers.
SendPanics ==
    /\ wpc = "send" /\ shut = "closed"
    /\ shut' = "panicked"
    /\ wpc' = "gone"
    /\ svc' = "stopped"
    /\ events' = <<>>
    /\ mu' = NoClient
    /\ broken' = broken \union {target[c] : c \in {mu} \ {NoClient}}
    /\ UNCHANGED <<ver, file, torn, target, watched, cur, updateCh, got, since, ctxDone, called>>

\* Mutant: closing the fsnotify watcher does not end the goroutine.
StopsOnlyOnCtx ==
    /\ wpc = "select"
    /\ ctxDone
    /\ wpc' = "gone"
    /\ watched' = "closed"
    /\ events' = <<>>
    /\ UNCHANGED <<files, cur, updateCh, service, shutdown>>

\* ctx.Done(), or Shutdown closed the fsnotify watcher.
WatchStops ==
    /\ wpc = "select"
    /\ ctxDone \/ watched = "closed"
    /\ wpc' = "gone"
    /\ watched' = "closed"
    /\ events' = <<>>
    /\ UNCHANGED <<files, cur, updateCh, service, shutdown>>

----------------------------------------------------------------------------
(* Shutdown *)

\* There may be no watcher to close yet, or a Subscribe that is under way may have
\* stored one that Shutdown, which takes no lock, does not see.  Close waits for
\* fsnotify's own reader, so that no event comes after it.
ShutdownBegins ==
    /\ shut = "no"
    /\ shut' = "closing"
    /\ called' = svc
    /\ \/ watched # "nil" /\ watched' = "closed" /\ events' = <<>>
       \/ watched = "nil" /\ UNCHANGED <<watched, events>>
       \/ svc = "opened" /\ UNCHANGED <<watched, events>>
    /\ UNCHANGED <<files, wpc, cur, updateCh, service, ctxDone>>

\* Mutant: updateCh is closed without waiting for the watcher.
ShutdownWithoutWait ==
    /\ shut = "closing"
    /\ shut' = "closed"
    /\ UNCHANGED <<files, events, watcher, service, ctxDone, called>>

\* Wait counts the watcher only if it was started.
ShutdownEnds ==
    /\ shut = "closing" /\ wpc \in {"off", "gone"}
    /\ shut' = "closed"
    /\ UNCHANGED <<files, events, watcher, service, ctxDone, called>>

----------------------------------------------------------------------------
Next ==
    \/ \E c \in Clients, t \in Triggers : WriteBegins(c, t)
    \/ \E c \in Clients : WriteEnds(c) \/ WriteFails(c)
    \/ \E t \in Triggers : Delete(t)
    \/ LoadAll \/ SubscribeBegins \/ SubscribeEnds \/ SubscribeFails
    \/ Receive \/ ListenerStops \/ CancelCtx
    \/ TakeEvent \/ ReadFile \/ Send \/ SendPanics \/ WatchStops
    \/ ShutdownBegins \/ ShutdownEnds

Spec == Init /\ [][Next]_vars

\* The holder of the mutex, the watcher, the listener and Shutdown go on; the
\* selects choose at random among the ready cases.
Fairness ==
    /\ \A c \in Clients : WF_vars(WriteEnds(c))
    /\ WF_vars(TakeEvent) /\ SF_vars(ReadFile) /\ WF_vars(Send)
    /\ SF_vars(WatchStops)
    /\ WF_vars(Receive) /\ SF_vars(ListenerStops)
    /\ WF_vars(ShutdownEnds)

FairSpec == Spec /\ Fairness

----------------------------------------------------------------------------
ServiceStates == {"starting", "loaded", "opened", "failed", "listening", "stopped"}

TypeOK ==
    /\ ver \in [Triggers -> 0..MaxWrites]
    /\ file \in [Triggers -> 0..MaxWrites]
    /\ torn \in [Triggers -> BOOLEAN]
    /\ broken \subseteq Triggers
    /\ mu \in Clients \union {NoClient}
    /\ target \in [Clients -> Triggers]
    /\ events \in Seq(Triggers)
    /\ watched \in {"nil", "open", "closed"}
    /\ wpc \in {"off", "select", "read", "send", "gone"}
    /\ cur \in Triggers \X (0..MaxWrites)
    /\ updateCh \in Seq(Triggers \X (0..MaxWrites)) /\ Len(updateCh) <= Cap
    /\ svc \in ServiceStates
    /\ got \in [Triggers -> 0..MaxWrites]
    /\ since \in [Triggers -> 0..MaxWrites]
    /\ ctxDone \in BOOLEAN
    /\ shut \in {"no", "closing", "closed", "panicked"}
    /\ called \in ServiceStates \union {"never"}

\* The mutex keeps half-written files from the readers: loading the triggers
\* fails only when the last write of one of them failed, never because a
\* handler is writing one.
LoadSeesWholeFiles ==
    [][svc = "starting" /\ svc' = "failed" => \E t \in broken : torn[t]]_vars

\* The service never goes back to an older version of a trigger, and knows only
\* versions that were stored.
Feed == INSTANCE TriggerFeed WITH stored <- ver
ImplementsFeed == Feed!Spec

\* Shutdown was called before Subscribe had returned.
Premature == called \in {"starting", "loaded", "opened"}

\* The watcher's send never panics on the closed update channel, unless Shutdown was
\* called before Subscribe had returned.  Then it closes the channel of a watcher that
\* it does not wait for (store_fs.go:218, :221), and the next change of a file ends
\* the process.
NoSendOnClosed == shut = "panicked" => Premature

\* "ensures updates are not dropped" (store_fs.go:213): a version stored after
\* the service subscribed reaches it, unless it is replaced or removed first or
\* the service or the store stops.
UpdatesArrive ==
    \A t \in Triggers, v \in 1..MaxWrites :
        (file[t] = v /\ ~torn[t] /\ svc = "listening" /\ since[t] < v)
            ~> (got[t] >= v \/ file[t] # v \/ torn[t] \/ svc # "listening" \/ shut # "no")

\* Shutdown, which the tests defer (service_test.go:51), returns as long as the
\* service reads on.  It need not once the service has stopped: the watcher may
\* be blocked on a full channel, where it sees neither the cancelled context nor
\* the closed fsnotify watcher.  Nor need a premature one: it may wait for a watcher
\* that it did not find to close.
ShutdownReturnsIfRead ==
    (shut = "closing" /\ ~Premature) ~> (shut = "closed" \/ svc = "stopped")
=============================================================================
