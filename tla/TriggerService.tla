---------------------------- MODULE TriggerService ----------------------------
(***************************************************************************)
(* The trigger service (internal/trigger/service.go) as several instances  *)
(* of it run against one database: every instance loads the triggers,      *)
(* takes a distributed lock per trigger (lock.go), runs one worker         *)
(* goroutine per lock it won, restarts the worker when the store reports   *)
(* an update, and forwards the workers' events to one bounded channel.     *)
(*                                                                         *)
(* One action is one step between two points where another goroutine can   *)
(* interfere.  The control goroutine of an instance is Start until it      *)
(* returns and the update listener afterwards; the two never overlap.      *)
(***************************************************************************)
EXTENDS Naturals, FiniteSets

CONSTANTS
    Instances,   \* processes that run a Service
    Triggers,    \* rows of the triggers table
    Ids,         \* values of Trigger.InternalID
    InternalID,  \* the id each trigger carries
    Workers,     \* slots for triggerWorker goroutines
    Home,        \* the instance whose goroutine a slot is
    NoWorker,    \* no entry in ownedTriggers, no worker being replaced
    Faults,      \* which calls may fail, a subset of FaultKinds
    MaxHold,     \* bound on the re-entrant count of an advisory lock
    Cap          \* capacity of eventCh

\* "db": All, Acquire, Subscribe of the store; "decode": mapSubscriber or
\* Decode; "subscribe": Subscriber.Subscribe; "release": a Release whose query
\* fails; "feed": the store closes the update channel; "crash": the process dies.
FaultKinds == {"db", "decode", "subscribe", "release", "feed", "crash"}

ASSUME IdAssumption == InternalID \in [Triggers -> Ids]
ASSUME WorkerAssumption == Home \in [Workers -> Instances] /\ NoWorker \notin Workers
ASSUME SlotAssumption == IsFiniteSet(Workers)
ASSUME FaultAssumption == Faults \subseteq FaultKinds
ASSUME BoundAssumption == MaxHold \in Nat \ {0} /\ Cap \in Nat

VARIABLES
    cpc,      \* where the control goroutine of an instance is
    ctrig,    \* the trigger it is starting a worker for
    old,      \* the worker it replaces (alreadyLocked), or NoWorker
    todo,     \* the triggers Start has not reached yet
    ctxDone,  \* the context given to Start is cancelled
    shut,     \* the goroutine that runs Shutdown
    owned,    \* ownedTriggers
    held,     \* how often each session holds each advisory lock
    wpc,      \* where a worker goroutine is
    job,      \* the trigger a worker was started for
    stop,     \* a worker's own cancel() was called
    skip,     \* a worker's skipCleanup
    queue     \* events buffered in eventCh

control == <<cpc, ctrig, old, todo>>
worker  == <<wpc, job, stop, skip>>
vars    == <<cpc, ctrig, old, todo, ctxDone, shut, owned, held, wpc, job, stop, skip, queue>>

Fault(f)  == f \in Faults
WorkersOf(i) == {w \in Workers : Home[w] = i}
IdOf(w)   == InternalID[job[w]]
CurId(i)  == InternalID[ctrig[i]]

\* A slot whose goroutine has returned and that no map entry points to.
Free(w) == wpc[w] = "done" /\ \A i \in Instances, id \in Ids : owned[i][id] # w

\* workerCtx.Done(): derived from the context of Start.
Cancelled(w) == stop[w] \/ ctxDone[Home[w]]

\* A worker that subscribes to, or forwards, its trigger's events.
Active(w) == wpc[w] \in {"spawned", "running", "sending"} /\ ~Cancelled(w)

----------------------------------------------------------------------------
(* The distributed lock: a session-level PostgreSQL advisory lock, which    *)
(* the session that holds it may take again, and which counts.              *)

\* Mutant: a lock that only its own process sees.
ProcessLocalLockFree(i, id) == held[i][id] = 0

LockFree(i, id) == \A j \in Instances \ {i} : held[j][id] = 0

Grant(i, id) == /\ LockFree(i, id)
                /\ held[i][id] < MaxHold
                /\ held' = [held EXCEPT ![i][id] = @ + 1]

\* pg_advisory_unlock: unlocking what is not held changes nothing.
Unlock(i, id) == held' = [held EXCEPT ![i][id] = IF @ = 0 THEN 0 ELSE @ - 1]

\* Release under the context of Start: no query is sent once it is cancelled.
ReleaseWithCtx(i, id) ==
    \/ ~ctxDone[i] /\ Unlock(i, id)
    \/ (ctxDone[i] \/ Fault("release")) /\ UNCHANGED held

----------------------------------------------------------------------------
Init ==
    /\ cpc = [i \in Instances |-> "down"]
    /\ ctrig \in [Instances -> Triggers]
    /\ old = [i \in Instances |-> NoWorker]
    /\ todo = [i \in Instances |-> {}]
    /\ ctxDone = [i \in Instances |-> FALSE]
    /\ shut = [i \in Instances |-> "off"]
    /\ owned = [i \in Instances |-> [id \in Ids |-> NoWorker]]
    /\ held = [i \in Instances |-> [id \in Ids |-> 0]]
    /\ wpc = [w \in Workers |-> "done"]
    /\ job \in [Workers -> Triggers]
    /\ stop = [w \in Workers |-> FALSE]
    /\ skip = [w \in Workers |-> FALSE]
    /\ queue = [i \in Instances |-> 0]

----------------------------------------------------------------------------
(* Start *)

\* store.All returned the rows it saw.
Boot(i) ==
    /\ cpc[i] = "down"
    /\ \E rows \in SUBSET Triggers : todo' = [todo EXCEPT ![i] = rows]
    /\ cpc' = [cpc EXCEPT ![i] = "starting"]
    /\ UNCHANGED <<ctrig, old, ctxDone, shut, owned, held, worker, queue>>

\* store.All or the store's Subscribe failed: Start returns the error.
StartFails(i) ==
    /\ \/ cpc[i] = "down"
       \/ cpc[i] = "starting" /\ todo[i] = {}
    /\ Fault("db") \/ ctxDone[i]
    /\ cpc' = [cpc EXCEPT ![i] = "failed"]
    /\ UNCHANGED <<ctrig, old, todo, ctxDone, shut, owned, held, worker, queue>>

\* The next iteration of the loop over the loaded triggers.
NextTrigger(i) ==
    /\ cpc[i] = "starting"
    /\ \E t \in todo[i] :
          /\ todo' = [todo EXCEPT ![i] = @ \ {t}]
          /\ ctrig' = [ctrig EXCEPT ![i] = t]
    /\ cpc' = [cpc EXCEPT ![i] = "acquire"]
    /\ UNCHANGED <<old, ctxDone, shut, owned, held, worker, queue>>

\* The listener goroutine and the goroutine waiting to run Shutdown exist.
StartReturns(i) ==
    /\ cpc[i] = "starting" /\ todo[i] = {}
    /\ cpc' = [cpc EXCEPT ![i] = "listening"]
    /\ shut' = [shut EXCEPT ![i] = "armed"]
    /\ UNCHANGED <<ctrig, old, todo, ctxDone, owned, held, worker, queue>>

----------------------------------------------------------------------------
(* startTriggerWorkerInternal, called from Start's loop and the listener *)

\* It returned, with an error or not, to the caller: Start gives up on an
\* error, the listener releases the lock of a failed restart and goes on.
AfterReturn(i, err) ==
    IF shut[i] = "off"
    THEN IF err THEN "failed" ELSE "starting"
    ELSE IF err /\ old[i] # NoWorker THEN "bail" ELSE "listening"

Return(i, err) ==
    /\ cpc' = [cpc EXCEPT ![i] = AfterReturn(i, err)]
    /\ old' = [old EXCEPT ![i] = NoWorker]
    /\ UNCHANGED <<ctrig, todo>>

\* Mutant: the result of pg_try_advisory_lock is ignored.
AcquireIgnoresResult(i) ==
    /\ cpc[i] = "acquire"
    /\ ~ctxDone[i]
    /\ cpc' = [cpc EXCEPT ![i] = "build"]
    /\ UNCHANGED <<ctrig, old, todo, ctxDone, shut, owned, held, worker, queue>>

AcquireGranted(i) ==
    /\ cpc[i] = "acquire"
    /\ ~ctxDone[i]
    /\ Grant(i, CurId(i))
    /\ cpc' = [cpc EXCEPT ![i] = "build"]
    /\ UNCHANGED <<ctrig, old, todo, ctxDone, shut, owned, worker, queue>>

\* Another instance holds the lock; nobody retries later.
AcquireBusy(i) ==
    /\ cpc[i] = "acquire"
    /\ ~ctxDone[i] /\ ~LockFree(i, CurId(i))
    /\ Return(i, FALSE)
    /\ UNCHANGED <<ctxDone, shut, owned, held, worker, queue>>

AcquireFails(i) ==
    /\ cpc[i] = "acquire"
    /\ ctxDone[i] \/ Fault("db")
    /\ Return(i, TRUE)
    /\ UNCHANGED <<ctxDone, shut, owned, held, worker, queue>>

\* mapSubscriber or Decode failed.
BuildFails(i) ==
    /\ cpc[i] = "build"
    /\ Fault("decode")
    /\ ReleaseWithCtx(i, CurId(i))
    /\ Return(i, TRUE)
    /\ UNCHANGED <<ctxDone, shut, owned, worker, queue>>

\* The worker is entered in ownedTriggers and its goroutine is started.
Register(i) ==
    /\ cpc[i] = "build"
    /\ \E w \in WorkersOf(i) :
          /\ Free(w)
          /\ owned' = [owned EXCEPT ![i][CurId(i)] = w]
          /\ wpc' = [wpc EXCEPT ![w] = "spawned"]
          /\ job' = [job EXCEPT ![w] = ctrig[i]]
          /\ stop' = [stop EXCEPT ![w] = FALSE]
          /\ skip' = [skip EXCEPT ![w] = FALSE]
    /\ Return(i, FALSE)
    /\ UNCHANGED <<ctxDone, shut, held, queue>>

----------------------------------------------------------------------------
(* startUpdateListener *)

\* An update arrived and the entry of its id was read under the read lock.
ReceiveUpdate(i, t) ==
    /\ cpc[i] = "listening"
    /\ ctrig' = [ctrig EXCEPT ![i] = t]
    /\ old' = [old EXCEPT ![i] = owned[i][InternalID[t]]]
    /\ cpc' = [cpc EXCEPT ![i] = IF owned[i][InternalID[t]] = NoWorker
                                 THEN "acquire" ELSE "replace"]
    /\ UNCHANGED <<todo, ctxDone, shut, owned, held, worker, queue>>

\* Mutant: the worker is cancelled without skipCleanup.
SupersedeWithoutSkip(i) ==
    /\ cpc[i] = "replace"
    /\ stop' = [stop EXCEPT ![old[i]] = TRUE]
    /\ cpc' = [cpc EXCEPT ![i] = "build"]
    /\ UNCHANGED <<ctrig, old, todo, ctxDone, shut, owned, held, wpc, job, skip, queue>>

\* Mutant: the listener goes back to its select without starting a worker.
SupersedeOnly(i) ==
    /\ cpc[i] = "replace"
    /\ skip' = [skip EXCEPT ![old[i]] = TRUE]
    /\ stop' = [stop EXCEPT ![old[i]] = TRUE]
    /\ cpc' = [cpc EXCEPT ![i] = "listening"]
    /\ old' = [old EXCEPT ![i] = NoWorker]
    /\ UNCHANGED <<ctrig, todo, ctxDone, shut, owned, held, wpc, job, queue>>

\* skipCleanup is set and the worker cancelled: the lock is meant to stay.
Supersede(i) ==
    /\ cpc[i] = "replace"
    /\ skip' = [skip EXCEPT ![old[i]] = TRUE]
    /\ stop' = [stop EXCEPT ![old[i]] = TRUE]
    /\ cpc' = [cpc EXCEPT ![i] = "build"]
    /\ UNCHANGED <<ctrig, old, todo, ctxDone, shut, owned, held, wpc, job, queue>>

\* The restart failed: the listener releases the lock (once more).
Bail(i) ==
    /\ cpc[i] = "bail"
    /\ ReleaseWithCtx(i, CurId(i))
    /\ cpc' = [cpc EXCEPT ![i] = "listening"]
    /\ UNCHANGED <<ctrig, old, todo, ctxDone, shut, owned, worker, queue>>

\* ctx.Done(), or the store closed the update channel.
ListenerStops(i) ==
    /\ cpc[i] = "listening"
    /\ ctxDone[i] \/ Fault("feed")
    /\ cpc' = [cpc EXCEPT ![i] = "stopped"]
    /\ UNCHANGED <<ctrig, old, todo, ctxDone, shut, owned, held, worker, queue>>

----------------------------------------------------------------------------
(* Cancellation, Shutdown, and the death of the process *)

CancelCtx(i) ==
    /\ cpc[i] # "down" /\ ~ctxDone[i]
    /\ ctxDone' = [ctxDone EXCEPT ![i] = TRUE]
    /\ UNCHANGED <<control, shut, owned, held, worker, queue>>

\* Shutdown cancels every worker in the map, under the lock.
ShutdownCancels(i) ==
    /\ shut[i] = "armed" /\ ctxDone[i]
    /\ stop' = [w \in Workers |-> stop[w] \/ \E id \in Ids : owned[i][id] = w]
    /\ shut' = [shut EXCEPT ![i] = "draining"]
    /\ UNCHANGED <<control, ctxDone, owned, held, wpc, job, skip, queue>>

\* Mutant: the workers are not counted by wg.
CloseWithoutWorkers(i) ==
    /\ shut[i] = "draining"
    /\ cpc[i] = "stopped"
    /\ shut' = [shut EXCEPT ![i] = "closed"]
    /\ UNCHANGED <<control, ctxDone, owned, held, worker, queue>>

\* wg.Wait() returned: the listener and every worker are gone.
ShutdownCloses(i) ==
    /\ shut[i] = "draining"
    /\ cpc[i] = "stopped"
    /\ \A w \in WorkersOf(i) : wpc[w] = "done"
    /\ shut' = [shut EXCEPT ![i] = "closed"]
    /\ UNCHANGED <<control, ctxDone, owned, held, worker, queue>>

\* The process dies: its memory is lost and the server frees its locks.
Crash(i) ==
    /\ Fault("crash") /\ cpc[i] # "down"
    /\ cpc' = [cpc EXCEPT ![i] = "down"]
    /\ old' = [old EXCEPT ![i] = NoWorker]
    /\ todo' = [todo EXCEPT ![i] = {}]
    /\ ctxDone' = [ctxDone EXCEPT ![i] = FALSE]
    /\ shut' = [shut EXCEPT ![i] = "off"]
    /\ owned' = [owned EXCEPT ![i] = [id \in Ids |-> NoWorker]]
    /\ held' = [held EXCEPT ![i] = [id \in Ids |-> 0]]
    /\ wpc' = [w \in Workers |-> IF Home[w] = i THEN "done" ELSE wpc[w]]
    /\ stop' = [w \in Workers |-> Home[w] # i /\ stop[w]]
    /\ skip' = [w \in Workers |-> Home[w] # i /\ skip[w]]
    /\ queue' = [queue EXCEPT ![i] = 0]
    /\ UNCHANGED <<ctrig, job>>

----------------------------------------------------------------------------
(* The worker goroutine *)

Goto(w, from, to) ==
    /\ wpc[w] \in from
    /\ wpc' = [wpc EXCEPT ![w] = to]

SubscribeSucceeds(w) ==
    /\ Goto(w, {"spawned"}, "running")
    /\ UNCHANGED <<control, ctxDone, shut, owned, held, job, stop, skip, queue>>

\* A cancelled context makes Subscribe fail too.
SubscribeFails(w) ==
    /\ Goto(w, {"spawned"}, "exiting")
    /\ Fault("subscribe") \/ Cancelled(w)
    /\ UNCHANGED <<control, ctxDone, shut, owned, held, job, stop, skip, queue>>

TakeEvent(w) ==
    /\ Goto(w, {"running"}, "sending")
    /\ UNCHANGED <<control, ctxDone, shut, owned, held, job, stop, skip, queue>>

\* select picks at random: a cancelled worker may still send.
SendEvent(w) ==
    /\ Goto(w, {"sending"}, "running")
    /\ queue[Home[w]] < Cap
    /\ queue' = [queue EXCEPT ![Home[w]] = @ + 1]
    /\ UNCHANGED <<control, ctxDone, shut, owned, held, job, stop, skip>>

\* Mutant: no ctx.Done() case beside the send.
StopsOnlyWhenIdle(w) ==
    /\ Goto(w, {"running"}, "exiting")
    /\ Cancelled(w)
    /\ UNCHANGED <<control, ctxDone, shut, owned, held, job, stop, skip, queue>>

\* workerCtx.Done(), or the subscriber closed its channel because of it.
WorkerStops(w) ==
    /\ Goto(w, {"running", "sending"}, "exiting")
    /\ Cancelled(w)
    /\ UNCHANGED <<control, ctxDone, shut, owned, held, job, stop, skip, queue>>

\* Nothing reads the flags of a goroutine that has returned: they go back to
\* their initial value with the slot.
Returned(w) ==
    /\ stop' = [stop EXCEPT ![w] = FALSE]
    /\ skip' = [skip EXCEPT ![w] = FALSE]

\* The deferred function reads skipCleanup once, under cleanupMu.
KeepLock(w) ==
    /\ skip[w]
    /\ Goto(w, {"exiting"}, "done")
    /\ Returned(w)
    /\ UNCHANGED <<control, ctxDone, shut, owned, held, job, queue>>

\* Mutant: skipCleanup is not looked at.
AlwaysCleanUp(w) ==
    /\ Goto(w, {"exiting"}, "cleanup")
    /\ UNCHANGED <<control, ctxDone, shut, owned, held, job, stop, skip, queue>>

StartCleanup(w) ==
    /\ ~skip[w]
    /\ Goto(w, {"exiting"}, "cleanup")
    /\ UNCHANGED <<control, ctxDone, shut, owned, held, job, stop, skip, queue>>

\* Mutant: the entry is deleted whosever it is.
DeregisterAnyone(w) ==
    /\ Goto(w, {"cleanup"}, "releasing")
    /\ owned' = [owned EXCEPT ![Home[w]][IdOf(w)] = NoWorker]
    /\ UNCHANGED <<control, ctxDone, shut, held, job, stop, skip, queue>>

\* The entry is deleted only if it is still this worker's.
Deregister(w) ==
    /\ Goto(w, {"cleanup"}, "releasing")
    /\ owned' = IF owned[Home[w]][IdOf(w)] = w
                THEN [owned EXCEPT ![Home[w]][IdOf(w)] = NoWorker]
                ELSE owned
    /\ UNCHANGED <<control, ctxDone, shut, held, job, stop, skip, queue>>

\* Mutant: Release under the worker's own context.
ReleaseUnderWorkerCtx(w) ==
    /\ Goto(w, {"releasing"}, "done")
    /\ IF Cancelled(w) THEN UNCHANGED held ELSE Unlock(Home[w], IdOf(w))
    /\ Returned(w)
    /\ UNCHANGED <<control, ctxDone, shut, owned, job, queue>>

\* Release under a context of its own.
ReleaseLock(w) ==
    /\ Goto(w, {"releasing"}, "done")
    /\ \/ Unlock(Home[w], IdOf(w))
       \/ Fault("release") /\ UNCHANGED held
    /\ Returned(w)
    /\ UNCHANGED <<control, ctxDone, shut, owned, job, queue>>

\* The application receives from the channel Start returned.
Consume(i) ==
    /\ queue[i] > 0
    /\ queue' = [queue EXCEPT ![i] = @ - 1]
    /\ UNCHANGED <<control, ctxDone, shut, owned, held, worker>>

----------------------------------------------------------------------------
ControlStep(i) ==
    \/ StartFails(i)
    \/ NextTrigger(i)
    \/ StartReturns(i)
    \/ AcquireGranted(i)
    \/ AcquireBusy(i)
    \/ AcquireFails(i)
    \/ BuildFails(i)
    \/ Register(i)
    \/ Supersede(i)
    \/ Bail(i)

ShutdownStep(i) == ShutdownCancels(i) \/ ShutdownCloses(i)

WorkerStep(w) ==
    \/ SubscribeSucceeds(w)
    \/ SubscribeFails(w)
    \/ SendEvent(w)
    \/ WorkerStops(w)
    \/ KeepLock(w)
    \/ StartCleanup(w)
    \/ Deregister(w)
    \/ ReleaseLock(w)

Next ==
    \/ \E i \in Instances :
          \/ Boot(i)
          \/ ControlStep(i)
          \/ \E t \in Triggers : ReceiveUpdate(i, t)
          \/ ListenerStops(i)
          \/ CancelCtx(i)
          \/ ShutdownStep(i)
          \/ Crash(i)
          \/ Consume(i)
    \/ \E w \in Workers : WorkerStep(w) \/ TakeEvent(w)

Spec == Init /\ [][Next]_vars

\* Every goroutine that can run does.  The selects of the listener and of the
\* workers choose at random among the ready cases, so a case that is ready
\* again and again is chosen.
\* Nothing is assumed of the store's updates, the events or the consumer.
Fairness ==
    /\ \A i \in Instances :
          /\ WF_vars(ControlStep(i))
          /\ WF_vars(ShutdownStep(i))
          /\ SF_vars(ListenerStops(i) /\ ctxDone[i])
    /\ \A w \in Workers : WF_vars(WorkerStep(w)) /\ SF_vars(WorkerStops(w))

FairSpec == Spec /\ Fairness

----------------------------------------------------------------------------
(* Properties *)

TypeOK ==
    /\ cpc \in [Instances -> {"down", "starting", "acquire", "build", "replace", "bail",
                              "listening", "stopped", "failed"}]
    /\ ctrig \in [Instances -> Triggers]
    /\ old \in [Instances -> Workers \union {NoWorker}]
    /\ todo \in [Instances -> SUBSET Triggers]
    /\ ctxDone \in [Instances -> BOOLEAN]
    /\ shut \in [Instances -> {"off", "armed", "draining", "closed"}]
    /\ owned \in [Instances -> [Ids -> Workers \union {NoWorker}]]
    /\ held \in [Instances -> [Ids -> 0..MaxHold]]
    /\ wpc \in [Workers -> {"done", "spawned", "running", "sending",
                            "exiting", "cleanup", "releasing"}]
    /\ job \in [Workers -> Triggers]
    /\ stop \in [Workers -> BOOLEAN]
    /\ skip \in [Workers -> BOOLEAN]
    /\ queue \in [Instances -> 0..Cap]

\* No send on, and no worker after, a closed event channel: once Shutdown has
\* closed eventCh no goroutine of the service is left, and none is started
\* (wg.Wait before close; wg.Add only from goroutines that wg counts).
ClosedIsQuiet ==
    \A i \in Instances : shut[i] = "closed" =>
        cpc[i] = "stopped" /\ \A w \in WorkersOf(i) : wpc[w] = "done"

\* Every worker that still runs is the one in ownedTriggers, so the next update
\* and Shutdown reach it, and an instance never runs a trigger twice.
ActiveIsRegistered ==
    \A w \in Workers : Active(w) => owned[Home[w]][IdOf(w)] = w

\* At most one session holds the advisory lock of a trigger.
LockIsExclusive ==
    \A i, j \in Instances, id \in Ids : held[i][id] > 0 /\ held[j][id] > 0 => i = j

\* A running worker's instance holds the lock of its trigger.
RunsUnderLock ==
    \A w \in Workers : Active(w) => held[Home[w]][IdOf(w)] > 0

\* What the locks are for: of all the workers of all the instances, at most one
\* runs a trigger.
SingleRunner ==
    \A v, w \in Workers : Active(v) /\ Active(w) /\ IdOf(v) = IdOf(w) => v = w

\* "Stop the old worker but keep the lock" (service.go:211): while a worker is
\* being replaced its instance holds the lock.
RestartKeepsLock ==
    \A i \in Instances : old[i] # NoWorker /\ ~ctxDone[i] => held[i][CurId(i)] > 0

\* A worker or the listener is there to release every lock that is held: no
\* trigger is locked against the other instances and run by nobody.
Responsible(i, id) ==
    \/ cpc[i] \in {"build", "bail", "replace"} /\ CurId(i) = id
    \/ \E w \in WorkersOf(i) : IdOf(w) = id /\ wpc[w] # "done"
NoOrphanLock ==
    \A i \in Instances, id \in Ids : held[i][id] > 0 => Responsible(i, id)

\* Only an update of a trigger stops that trigger's worker: an update for a
\* trigger without a worker starts one (service.go:227).
UpdateStopsOwnWorker ==
    \A i \in Instances : cpc[i] = "replace" => job[old[i]] = ctrig[i]

\* Cancelling the context ends the service: Shutdown returns and the event
\* channel is closed, whether or not anybody still receives from it.
ShutdownCompletes ==
    \A i \in Instances : (shut[i] = "armed" /\ ctxDone[i]) ~> (shut[i] = "closed")

\* A replaced worker's goroutine ends, even if it is blocked on a full channel.
SupersededWorkerEnds ==
    \A w \in Workers : (wpc[w] # "done" /\ stop[w]) ~> (wpc[w] = "done")

\* An update is not lost between the listener's steps: the trigger ends up with
\* a worker that was started for it, unless the new configuration does not
\* decode, the service is being stopped, or no worker slot is free.
UpdateIsServed ==
    \A i \in Instances :
        (cpc[i] = "replace") ~>
            \/ ctxDone[i] \/ cpc[i] = "bail"
            \/ \A w \in WorkersOf(i) : ~Free(w)
            \/ /\ cpc[i] = "listening"
               /\ \E w \in WorkersOf(i) : Active(w) /\ job[w] = ctrig[i]

----------------------------------------------------------------------------
(* What the service promises: TriggerOwnership, with the lock's holders as  *)
(* the owners and the instances with an active worker as the runners.       *)

Holders == [id \in Ids |-> {i \in Instances : held[i][id] > 0}]
Runners == [id \in Ids |-> {i \in Instances :
                              \E w \in WorkersOf(i) : Active(w) /\ IdOf(w) = id}]
Ownership == INSTANCE TriggerOwnership WITH owners <- Holders, runners <- Runners

\* Every step of the instances is a step of TriggerOwnership or leaves owners
\* and runners alone: ownership passes from one instance to another only after
\* the first has stopped its worker and released the lock.
OwnershipSpec == Ownership!Spec
=============================================================================
