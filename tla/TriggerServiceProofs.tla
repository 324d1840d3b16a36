------------------------- MODULE TriggerServiceProofs -------------------------
(***************************************************************************)
(* Theorems about TriggerService, for any number of instances, triggers    *)
(* and worker slots.                                                       *)
(***************************************************************************)
EXTENDS TriggerService, FiniteSetTheorems, TLAPS

USE IdAssumption, WorkerAssumption, BoundAssumption

----------------------------------------------------------------------------
(* Typing, whatever fails. *)

LEMMA InitTyped == Init => TypeOK
BY DEF Init, TypeOK

LEMMA StartTyped ==
    ASSUME TypeOK, NEW i \in Instances,
           Boot(i) \/ StartFails(i) \/ NextTrigger(i) \/ StartReturns(i)
    PROVE  TypeOK'
<1>1. CASE Boot(i)
  BY <1>1 DEF TypeOK, Boot, worker
<1>2. CASE StartFails(i)
  BY <1>2 DEF TypeOK, StartFails, worker
<1>3. CASE NextTrigger(i)
  BY <1>3 DEF TypeOK, NextTrigger, worker
<1>4. CASE StartReturns(i)
  BY <1>4 DEF TypeOK, StartReturns, worker
<1>5. QED
  BY <1>1, <1>2, <1>3, <1>4

LEMMA ReturnTyped ==
    ASSUME TypeOK, NEW i \in Instances, NEW err \in BOOLEAN, Return(i, err)
    PROVE  /\ cpc' \in [Instances -> {"down", "starting", "acquire", "build", "replace", "bail",
                                      "listening", "stopped", "failed"}]
           /\ old' \in [Instances -> Workers \union {NoWorker}]
           /\ ctrig' = ctrig /\ todo' = todo
BY DEF TypeOK, Return, AfterReturn

LEMMA UnlockTyped ==
    ASSUME TypeOK, NEW i \in Instances, NEW id \in Ids, Unlock(i, id) \/ UNCHANGED held
    PROVE  held' \in [Instances -> [Ids -> 0..MaxHold]]
<1>1. CASE UNCHANGED held
  BY <1>1 DEF TypeOK
<1>2. CASE Unlock(i, id)
  <2>1. held[i][id] \in 0..MaxHold
    BY DEF TypeOK
  <2>2. (IF held[i][id] = 0 THEN 0 ELSE held[i][id] - 1) \in 0..MaxHold
    BY <2>1
  <2>3. QED
    BY <1>2, <2>2 DEF TypeOK, Unlock
<1>3. QED
  BY <1>1, <1>2

LEMMA UnlockLowers ==
    ASSUME TypeOK, NEW i \in Instances, NEW id \in Ids, Unlock(i, id) \/ UNCHANGED held
    PROVE  \A any \in Ids : held'[i][any] > 0 => held[i][any] > 0
<1>1. SUFFICES ASSUME NEW any \in Ids PROVE held'[i][any] > 0 => held[i][any] > 0
  OBVIOUS
<1>2. held[i][any] \in Nat
  BY DEF TypeOK
<1>3. CASE UNCHANGED held
  BY <1>3
<1>4. CASE Unlock(i, id) /\ any = id
  BY <1>2, <1>4 DEF Unlock, TypeOK
<1>5. CASE Unlock(i, id) /\ any # id
  BY <1>5 DEF Unlock, TypeOK
<1>6. QED
  BY <1>3, <1>4, <1>5

LEMMA StartWorkerTyped ==
    ASSUME TypeOK, NEW i \in Instances,
           \/ AcquireGranted(i) \/ AcquireBusy(i) \/ AcquireFails(i)
           \/ BuildFails(i) \/ Register(i)
    PROVE  TypeOK'
<1>1. CASE AcquireGranted(i)
  BY <1>1 DEF TypeOK, AcquireGranted, Grant, CurId, worker
<1>2. CASE AcquireBusy(i)
  BY <1>2, ReturnTyped DEF TypeOK, AcquireBusy, worker
<1>3. CASE AcquireFails(i)
  BY <1>3, ReturnTyped DEF TypeOK, AcquireFails, worker
<1>4. CASE BuildFails(i)
  <2>1. held' \in [Instances -> [Ids -> 0..MaxHold]]
    BY <1>4, UnlockTyped DEF TypeOK, BuildFails, ReleaseWithCtx, CurId
  <2>2. QED
    BY <1>4, <2>1, ReturnTyped DEF TypeOK, BuildFails, worker
<1>5. CASE Register(i)
  <2>1. PICK w \in Workers :
           /\ owned' = [owned EXCEPT ![i][CurId(i)] = w]
           /\ wpc' = [wpc EXCEPT ![w] = "spawned"]
           /\ job' = [job EXCEPT ![w] = ctrig[i]]
           /\ stop' = [stop EXCEPT ![w] = FALSE]
           /\ skip' = [skip EXCEPT ![w] = FALSE]
    BY <1>5 DEF Register, WorkersOf
  <2>2. Return(i, FALSE) /\ UNCHANGED <<ctxDone, shut, held, queue>>
    BY <1>5 DEF Register
  <2>3. QED
    BY <2>1, <2>2, ReturnTyped DEF TypeOK, CurId
<1>6. QED
  BY <1>1, <1>2, <1>3, <1>4, <1>5

LEMMA ListenerTyped ==
    ASSUME TypeOK, NEW i \in Instances,
           \/ \E t \in Triggers : ReceiveUpdate(i, t)
           \/ Supersede(i) \/ Bail(i) \/ ListenerStops(i)
    PROVE  TypeOK'
<1>1. CASE \E t \in Triggers : ReceiveUpdate(i, t)
  BY <1>1 DEF TypeOK, ReceiveUpdate, worker
<1>2. CASE Supersede(i)
  BY <1>2 DEF TypeOK, Supersede
<1>3. CASE Bail(i)
  <2>1. held' \in [Instances -> [Ids -> 0..MaxHold]]
    BY <1>3, UnlockTyped DEF TypeOK, Bail, ReleaseWithCtx, CurId
  <2>2. QED
    BY <1>3, <2>1 DEF TypeOK, Bail, worker
<1>4. CASE ListenerStops(i)
  BY <1>4 DEF TypeOK, ListenerStops, worker
<1>5. QED
  BY <1>1, <1>2, <1>3, <1>4

LEMMA StopTyped ==
    ASSUME TypeOK, NEW i \in Instances,
           CancelCtx(i) \/ ShutdownCancels(i) \/ ShutdownCloses(i) \/ Crash(i) \/ Consume(i)
    PROVE  TypeOK'
<1>1. CASE CancelCtx(i)
  BY <1>1 DEF TypeOK, CancelCtx, control, worker
<1>2. CASE ShutdownCancels(i)
  BY <1>2 DEF TypeOK, ShutdownCancels, control
<1>3. CASE ShutdownCloses(i)
  BY <1>3 DEF TypeOK, ShutdownCloses, control, worker
<1>4. CASE Crash(i)
  BY <1>4 DEF TypeOK, Crash
<1>5. CASE Consume(i)
  BY <1>5 DEF TypeOK, Consume, control, worker
<1>6. QED
  BY <1>1, <1>2, <1>3, <1>4, <1>5

LEMMA WorkerTyped ==
    ASSUME TypeOK, NEW w \in Workers, WorkerStep(w) \/ TakeEvent(w)
    PROVE  TypeOK'
<1>1. CASE SubscribeSucceeds(w) \/ SubscribeFails(w) \/ TakeEvent(w) \/ WorkerStops(w)
           \/ StartCleanup(w)
  BY <1>1 DEF TypeOK, SubscribeSucceeds, SubscribeFails, TakeEvent, WorkerStops,
              StartCleanup, Goto, control
<1>2. CASE SendEvent(w)
  BY <1>2 DEF TypeOK, SendEvent, Goto, control
<1>3. CASE KeepLock(w)
  BY <1>3 DEF TypeOK, KeepLock, Returned, Goto, control
<1>4. CASE Deregister(w)
  BY <1>4 DEF TypeOK, Deregister, Goto, IdOf, control
<1>5. CASE ReleaseLock(w)
  <2>1. held' \in [Instances -> [Ids -> 0..MaxHold]]
    BY <1>5, UnlockTyped DEF TypeOK, ReleaseLock, IdOf
  <2>2. QED
    BY <1>5, <2>1 DEF TypeOK, ReleaseLock, Returned, Goto, control
<1>6. QED
  BY <1>1, <1>2, <1>3, <1>4, <1>5 DEF WorkerStep

\* The variables always hold values of their types: the advisory counts stay
\* within MaxHold, the buffered events within the capacity of eventCh.
THEOREM Typing == Spec => []TypeOK
<1>1. TypeOK /\ [Next]_vars => TypeOK'
  <2>1. CASE UNCHANGED vars
    BY <2>1 DEF TypeOK, vars
  <2>2. CASE Next
    BY <2>2, StartTyped, StartWorkerTyped, ListenerTyped, StopTyped, WorkerTyped
       DEF Next, ControlStep, ShutdownStep
  <2>3. QED
    BY <2>1, <2>2
<1>2. QED
  BY InitTyped, <1>1, PTL DEF Spec

----------------------------------------------------------------------------
(* The end of a service, whatever fails. *)

LEMMA QuietStep ==
    ASSUME TypeOK, ClosedIsQuiet, Next
    PROVE  ClosedIsQuiet'
<1>1. CASE \E i \in Instances : ControlStep(i) \/ Boot(i) \/ ListenerStops(i)
                                \/ \E t \in Triggers : ReceiveUpdate(i, t)
  <2>1. PICK i \in Instances : ControlStep(i) \/ Boot(i) \/ ListenerStops(i)
                               \/ \E t \in Triggers : ReceiveUpdate(i, t)
    BY <1>1
  <2>2. shut[i] # "closed"
    BY <2>1 DEF ClosedIsQuiet, ControlStep, Boot, ListenerStops, ReceiveUpdate, StartFails,
                NextTrigger, StartReturns, AcquireGranted, AcquireBusy, AcquireFails,
                BuildFails, Register, Supersede, Bail
  <2>3. /\ \A j \in Instances \ {i} : shut'[j] = shut[j] /\ cpc'[j] = cpc[j]
        /\ shut'[i] # "closed"
    BY <2>1, <2>2
       DEF TypeOK, ControlStep, Boot, ListenerStops, ReceiveUpdate, StartFails,
           NextTrigger, StartReturns, AcquireGranted, AcquireBusy, AcquireFails,
           BuildFails, Register, Supersede, Bail, Return
  <2>4. \A w \in Workers : Home[w] # i => wpc'[w] = wpc[w]
    BY <2>1
       DEF TypeOK, ControlStep, Boot, ListenerStops, ReceiveUpdate, StartFails,
           NextTrigger, StartReturns, AcquireGranted, AcquireBusy, AcquireFails,
           BuildFails, Register, Supersede, Bail, worker, WorkersOf
  <2>5. QED
    BY <2>3, <2>4 DEF ClosedIsQuiet, WorkersOf
<1>2. CASE \E i \in Instances : CancelCtx(i) \/ ShutdownStep(i) \/ Crash(i) \/ Consume(i)
  BY <1>2 DEF TypeOK, ClosedIsQuiet, CancelCtx, ShutdownStep, ShutdownCancels,
              ShutdownCloses, Crash, Consume, WorkersOf, control, worker
<1>3. CASE \E w \in Workers : WorkerStep(w) \/ TakeEvent(w)
  <2>1. PICK w \in Workers : WorkerStep(w) \/ TakeEvent(w)
    BY <1>3
  <2>2. /\ UNCHANGED <<cpc, shut>>
        /\ wpc[w] # "done"
        /\ \A v \in Workers \ {w} : wpc'[v] = wpc[v]
    BY <2>1 DEF TypeOK, WorkerStep, TakeEvent, SubscribeSucceeds, SubscribeFails, SendEvent,
                WorkerStops, KeepLock, StartCleanup, Deregister, ReleaseLock, Goto, control
  <2>3. QED
    BY <2>2 DEF ClosedIsQuiet, WorkersOf
<1>4. QED
  BY <1>1, <1>2, <1>3 DEF Next

\* Once Shutdown has closed the event channel no goroutine of the service is
\* left to send on it, and none is started again.
THEOREM Quiet == Spec => []ClosedIsQuiet
<1>1. Init => ClosedIsQuiet
  BY DEF Init, ClosedIsQuiet
<1>2. TypeOK /\ ClosedIsQuiet /\ [Next]_vars => ClosedIsQuiet'
  <2>1. CASE UNCHANGED vars
    BY <2>1 DEF ClosedIsQuiet, WorkersOf, vars
  <2>2. QED
    BY <2>1, QuietStep
<1>3. QED
  BY <1>1, <1>2, Typing, PTL DEF Spec

----------------------------------------------------------------------------
(* One running worker per trigger and instance, whatever fails, provided    *)
(* that triggers have ids of their own.                                     *)

DistinctIds == \A t, u \in Triggers : InternalID[t] = InternalID[u] => t = u

\* A process that has not called Start has no entries and no worker goroutines.
DownIsEmpty ==
    \A i \in Instances : cpc[i] = "down" =>
        /\ shut[i] = "off"
        /\ \A id \in Ids : owned[i][id] = NoWorker
        /\ \A w \in WorkersOf(i) : wpc[w] = "done"

\* Map entries are workers of the instance itself.
EntriesAreLocal ==
    \A i \in Instances, id \in Ids :
        owned[i][id] # NoWorker => owned[i][id] \in WorkersOf(i)

\* Start has no entry yet for the triggers it has not reached, and the trigger
\* it is at is not one of them.
TodoIsNew ==
    \A i \in Instances :
        /\ cpc[i] \in {"down", "listening", "replace", "bail"} \/ shut[i] # "off" => todo[i] = {}
        /\ cpc[i] \in {"acquire", "build"} => ctrig[i] \notin todo[i]
        /\ \A t \in todo[i] : owned[i][InternalID[t]] = NoWorker

\* The trigger a worker is being started for has no worker, or only the one
\* that is being replaced, and that one has been cancelled.
NothingElseRuns ==
    \A i \in Instances :
        /\ cpc[i] \notin {"build", "replace"} => old[i] = NoWorker
        /\ cpc[i] \in {"acquire", "build"} => owned[i][CurId(i)] \in {NoWorker, old[i]}
        /\ cpc[i] = "replace" => old[i] \in WorkersOf(i)
                                 /\ owned[i][CurId(i)] \in {NoWorker, old[i]}
        /\ cpc[i] = "build" /\ old[i] # NoWorker => old[i] \in WorkersOf(i) /\ ~Active(old[i])

RegisteredInv == /\ DownIsEmpty
                 /\ EntriesAreLocal
                 /\ TodoIsNew
                 /\ NothingElseRuns
                 /\ ActiveIsRegistered

LEMMA StartKeepsRegistered ==
    ASSUME TypeOK, RegisteredInv, DistinctIds, NEW i \in Instances,
           Boot(i) \/ StartFails(i) \/ NextTrigger(i) \/ StartReturns(i)
    PROVE  RegisteredInv'
<1> USE DEF TypeOK, RegisteredInv, DownIsEmpty, EntriesAreLocal, TodoIsNew,
            NothingElseRuns, ActiveIsRegistered, Active, Cancelled, WorkersOf, IdOf, CurId
<1>1. CASE Boot(i)
  <2>1. /\ \A j \in Instances \ {i} : cpc'[j] = cpc[j] /\ todo'[j] = todo[j]
        /\ cpc[i] = "down" /\ cpc'[i] = "starting" /\ todo'[i] \in SUBSET Triggers
        /\ UNCHANGED <<ctrig, old, ctxDone, shut, owned, held, wpc, job, stop, skip, queue>>
    BY <1>1 DEF Boot, worker
  <2>2. shut[i] = "off" /\ old[i] = NoWorker /\ \A id \in Ids : owned[i][id] = NoWorker
    BY <2>1
  <2>3. \A t \in todo'[i] : owned[i][InternalID[t]] = NoWorker
    BY <2>1, <2>2
  <2>4. TodoIsNew'
    <3>1. SUFFICES ASSUME NEW j \in Instances
                   PROVE  /\ cpc'[j] \in {"down", "listening", "replace", "bail"} \/ shut'[j] # "off"
                                => todo'[j] = {}
                          /\ cpc'[j] \in {"acquire", "build"} => ctrig'[j] \notin todo'[j]
                          /\ \A t \in todo'[j] : owned'[j][InternalID[t]] = NoWorker
      BY DEF TodoIsNew
    <3>2. CASE j = i
      BY <2>1, <2>2, <2>3, <3>2
    <3>3. CASE j # i
      BY <2>1, <3>3
    <3>4. QED
      BY <3>2, <3>3
  <2>5. QED
    BY <2>1, <2>4
<1>2. CASE StartFails(i)
  BY <1>2 DEF StartFails, worker
<1>3. CASE NextTrigger(i)
  BY <1>3 DEF NextTrigger, worker, DistinctIds
<1>4. CASE StartReturns(i)
  BY <1>4 DEF StartReturns, worker
<1>5. QED
  BY <1>1, <1>2, <1>3, <1>4

LEMMA StartWorkerKeepsRegistered ==
    ASSUME TypeOK, RegisteredInv, DistinctIds, NEW i \in Instances,
           \/ AcquireGranted(i) \/ AcquireBusy(i) \/ AcquireFails(i)
           \/ BuildFails(i) \/ Register(i)
    PROVE  RegisteredInv'
<1> USE DEF TypeOK, RegisteredInv, DownIsEmpty, EntriesAreLocal, TodoIsNew,
            NothingElseRuns, ActiveIsRegistered, Active, Cancelled, WorkersOf, IdOf, CurId
<1>1. CASE AcquireGranted(i)
  BY <1>1 DEF AcquireGranted, worker
<1>2. CASE AcquireBusy(i)
  BY <1>2 DEF AcquireBusy, Return, AfterReturn, worker
<1>3. CASE AcquireFails(i)
  BY <1>3 DEF AcquireFails, Return, AfterReturn, worker
<1>4. CASE BuildFails(i)
  BY <1>4 DEF BuildFails, Return, AfterReturn, worker
<1>5. CASE Register(i)
  <2>1. PICK w \in Workers :
           /\ Home[w] = i /\ Free(w)
           /\ owned' = [owned EXCEPT ![i][CurId(i)] = w]
           /\ wpc' = [wpc EXCEPT ![w] = "spawned"]
           /\ job' = [job EXCEPT ![w] = ctrig[i]]
           /\ stop' = [stop EXCEPT ![w] = FALSE]
           /\ skip' = [skip EXCEPT ![w] = FALSE]
    BY <1>5 DEF Register
  <2>2. /\ cpc[i] = "build" /\ cpc'[i] \in {"starting", "listening"} /\ old'[i] = NoWorker
        /\ \A j \in Instances \ {i} : cpc'[j] = cpc[j] /\ old'[j] = old[j]
        /\ shut[i] # "off" => cpc'[i] = "listening"
        /\ shut[i] = "off" => cpc'[i] = "starting"
        /\ UNCHANGED <<ctrig, todo, ctxDone, shut, held, queue>>
    BY <1>5 DEF Register, Return, AfterReturn
  <2>3. /\ owned'[i][CurId(i)] = w
        /\ \A j \in Instances, id \in Ids : j # i \/ id # CurId(i) => owned'[j][id] = owned[j][id]
    BY <2>1
  <2>4. ASSUME NEW v \in Workers, Home[v] = i, Active(v) PROVE IdOf(v) # CurId(i)
    <3>1. owned[i][CurId(i)] \in {NoWorker, old[i]}
      BY <2>2
    <3>2. v # NoWorker /\ (old[i] # NoWorker => v # old[i])
      BY <2>2, <2>4
    <3>3. owned[i][IdOf(v)] = v
      BY <2>4
    <3>4. QED
      BY <3>1, <3>2, <3>3
  <2>5. \A v \in Workers \ {w} : Active(v)' = Active(v) /\ IdOf(v)' = IdOf(v)
    BY <2>1, <2>2
  <2>6. IdOf(w)' = CurId(i)
    BY <2>1
  <2>7. ActiveIsRegistered'
    BY <2>1, <2>3, <2>4, <2>5, <2>6
  <2>8. DownIsEmpty' /\ EntriesAreLocal'
    BY <2>1, <2>2, <2>3
  <2>9. TodoIsNew'
    <3>1. \A t \in todo[i] : InternalID[t] \in Ids /\ InternalID[t] # CurId(i)
      BY <2>2 DEF DistinctIds
    <3>2. \A j \in Instances : \A t \in todo[j] : owned'[j][InternalID[t]] = NoWorker
      BY <2>3, <3>1
    <3>3. QED
      BY <2>2, <3>2
  <2>10. NothingElseRuns'
    BY <2>1, <2>2, <2>3, <2>5
  <2>11. QED
    BY <2>7, <2>8, <2>9, <2>10
<1>6. QED
  BY <1>1, <1>2, <1>3, <1>4, <1>5

LEMMA ListenerKeepsRegistered ==
    ASSUME TypeOK, RegisteredInv, NEW i \in Instances,
           \/ \E t \in Triggers : ReceiveUpdate(i, t)
           \/ Supersede(i) \/ Bail(i) \/ ListenerStops(i)
    PROVE  RegisteredInv'
<1> USE DEF TypeOK, RegisteredInv, DownIsEmpty, EntriesAreLocal, TodoIsNew,
            NothingElseRuns, ActiveIsRegistered, Active, Cancelled, WorkersOf, IdOf, CurId
<1>1. CASE \E t \in Triggers : ReceiveUpdate(i, t)
  <2>1. PICK t \in Triggers : ReceiveUpdate(i, t)
    BY <1>1
  <2>2. /\ ctrig'[i] = t /\ old'[i] = owned[i][InternalID[t]]
        /\ cpc'[i] = IF owned[i][InternalID[t]] = NoWorker THEN "acquire" ELSE "replace"
        /\ \A j \in Instances \ {i} : cpc'[j] = cpc[j] /\ old'[j] = old[j] /\ ctrig'[j] = ctrig[j]
        /\ UNCHANGED <<todo, ctxDone, shut, owned, held, wpc, job, stop, skip, queue>>
    BY <2>1 DEF ReceiveUpdate, worker
  <2>3. cpc[i] = "listening"
    BY <2>1 DEF ReceiveUpdate
  <2>4. /\ CurId(i)' = InternalID[t] /\ InternalID[t] \in Ids
        /\ old'[i] # NoWorker => old'[i] \in WorkersOf(i)
        /\ old'[i] = NoWorker \/ cpc'[i] = "replace"
        /\ old'[i] # NoWorker \/ cpc'[i] = "acquire"
    BY <2>2
  <2>5. NothingElseRuns'
    <3>1. SUFFICES ASSUME NEW j \in Instances
                   PROVE  (/\ cpc[j] \notin {"build", "replace"} => old[j] = NoWorker
                           /\ cpc[j] \in {"acquire", "build"} => owned[j][CurId(j)] \in {NoWorker, old[j]}
                           /\ cpc[j] = "replace" => old[j] \in WorkersOf(j)
                                                    /\ owned[j][CurId(j)] \in {NoWorker, old[j]}
                           /\ cpc[j] = "build" /\ old[j] # NoWorker =>
                                 old[j] \in WorkersOf(j) /\ ~Active(old[j]))'
      BY DEF NothingElseRuns
    <3>2. CASE j = i
      BY <2>2, <2>4, <3>2
    <3>3. CASE j # i
      BY <2>2, <3>3
    <3>4. QED
      BY <3>2, <3>3
  <2>6. TodoIsNew'
    BY <2>2, <2>3
  <2>7. DownIsEmpty'
    BY <2>2
  <2>8. EntriesAreLocal' /\ ActiveIsRegistered'
    BY <2>2
  <2>9. QED
    BY <2>5, <2>6, <2>7, <2>8
<1>2. CASE Supersede(i)
  BY <1>2 DEF Supersede
<1>3. CASE Bail(i)
  BY <1>3 DEF Bail, worker
<1>4. CASE ListenerStops(i)
  BY <1>4 DEF ListenerStops, worker
<1>5. QED
  BY <1>1, <1>2, <1>3, <1>4

LEMMA StopKeepsRegistered ==
    ASSUME TypeOK, RegisteredInv, NEW i \in Instances,
           CancelCtx(i) \/ ShutdownStep(i) \/ Crash(i) \/ Consume(i)
    PROVE  RegisteredInv'
<1> USE DEF TypeOK, RegisteredInv, DownIsEmpty, EntriesAreLocal, TodoIsNew,
            NothingElseRuns, ActiveIsRegistered, Active, Cancelled, WorkersOf, IdOf, CurId
<1>1. CASE CancelCtx(i)
  BY <1>1 DEF CancelCtx, control, worker
<1>2. CASE ShutdownCancels(i)
  BY <1>2 DEF ShutdownCancels, control
<1>3. CASE ShutdownCloses(i)
  BY <1>3 DEF ShutdownCloses, control, worker
<1>4. CASE Crash(i)
  BY <1>4 DEF Crash
<1>5. CASE Consume(i)
  BY <1>5 DEF Consume, control, worker
<1>6. QED
  BY <1>1, <1>2, <1>3, <1>4, <1>5 DEF ShutdownStep

LEMMA WorkerKeepsRegistered ==
    ASSUME TypeOK, RegisteredInv, NEW w \in Workers, WorkerStep(w) \/ TakeEvent(w)
    PROVE  RegisteredInv'
<1> USE DEF TypeOK, RegisteredInv, DownIsEmpty, EntriesAreLocal, TodoIsNew,
            NothingElseRuns, ActiveIsRegistered, Active, Cancelled, WorkersOf, IdOf, CurId
<1>1. CASE SubscribeSucceeds(w)
  BY <1>1 DEF SubscribeSucceeds, Goto, control
<1>2. CASE SubscribeFails(w)
  BY <1>2 DEF SubscribeFails, Goto, control
<1>3. CASE TakeEvent(w)
  BY <1>3 DEF TakeEvent, Goto, control
<1>4. CASE SendEvent(w)
  BY <1>4 DEF SendEvent, Goto, control
<1>5. CASE WorkerStops(w)
  BY <1>5 DEF WorkerStops, Goto, control
<1>6. CASE KeepLock(w)
  BY <1>6 DEF KeepLock, Goto, control, Returned
<1>7. CASE StartCleanup(w)
  BY <1>7 DEF StartCleanup, Goto, control
<1>8. CASE Deregister(w)
  BY <1>8 DEF Deregister, Goto, control
<1>9. CASE ReleaseLock(w)
  BY <1>9 DEF ReleaseLock, Goto, control, Returned
<1>10. QED
  BY <1>1, <1>2, <1>3, <1>4, <1>5, <1>6, <1>7, <1>8, <1>9 DEF WorkerStep

LEMMA Registered ==
    ASSUME DistinctIds
    PROVE  Spec => []RegisteredInv
<1>1. Init => RegisteredInv
  <2>1. SUFFICES ASSUME Init PROVE RegisteredInv
    OBVIOUS
  <2>2. DownIsEmpty /\ EntriesAreLocal
    BY <2>1 DEF Init, DownIsEmpty, EntriesAreLocal, WorkersOf
  <2>3. TodoIsNew /\ NothingElseRuns
    BY <2>1 DEF Init, TodoIsNew, NothingElseRuns
  <2>4. ActiveIsRegistered
    BY <2>1 DEF Init, ActiveIsRegistered, Active
  <2>5. QED
    BY <2>2, <2>3, <2>4 DEF RegisteredInv
<1>2. TypeOK /\ RegisteredInv /\ [Next]_vars => RegisteredInv'
  <2>1. CASE UNCHANGED vars
    BY <2>1 DEF RegisteredInv, DownIsEmpty, EntriesAreLocal, TodoIsNew, NothingElseRuns,
                ActiveIsRegistered, Active, Cancelled, WorkersOf, IdOf, CurId, vars
  <2>2. CASE Next /\ TypeOK /\ RegisteredInv
    BY <2>2, DistinctIds, StartKeepsRegistered, StartWorkerKeepsRegistered,
       ListenerKeepsRegistered, StopKeepsRegistered, WorkerKeepsRegistered
       DEF Next, ControlStep
  <2>3. QED
    BY <2>1, <2>2
<1>3. QED
  BY <1>1, <1>2, Typing, PTL DEF Spec

\* An instance never runs a trigger twice: a worker that still runs is the one
\* in ownedTriggers.  (With one id for all triggers, as the in-memory store has
\* it, this fails.)
THEOREM OneWorkerPerInstance ==
    ASSUME DistinctIds
    PROVE  Spec => []ActiveIsRegistered
<1>1. RegisteredInv => ActiveIsRegistered
  BY DEF RegisteredInv
<1>2. QED
  BY <1>1, Registered, PTL

----------------------------------------------------------------------------
(* The lock covers the worker, provided that no worker ends by itself and   *)
(* no restart fails: triggers decode and subscribe.                         *)

NoEarlyExit == "decode" \notin Faults /\ "subscribe" \notin Faults

\* Whoever is about to start a worker holds the lock of its trigger.
StartersHoldLock ==
    \A i \in Instances :
        /\ cpc[i] # "bail"
        /\ cpc[i] \in {"build", "replace"} /\ ~ctxDone[i] => held[i][CurId(i)] > 0

\* Every entry of ownedTriggers stands for a lock.
OwnersHoldLock ==
    \A i \in Instances, id \in Ids :
        owned[i][id] # NoWorker /\ ~ctxDone[i] => held[i][id] > 0

\* A worker ends because it was cancelled, and it releases the lock only if the
\* whole service is stopping.
WorkersEndCancelled ==
    \A w \in Workers :
        /\ wpc[w] = "exiting" => Cancelled(w)
        /\ wpc[w] \in {"cleanup", "releasing"} => ctxDone[Home[w]]
        /\ wpc[w] # "done" /\ stop[w] => skip[w] \/ ctxDone[Home[w]]

LockInv == /\ LockIsExclusive
           /\ RunsUnderLock
           /\ StartersHoldLock
           /\ OwnersHoldLock
           /\ WorkersEndCancelled

LEMMA StartKeepsLocks ==
    ASSUME TypeOK, RegisteredInv, LockInv, NoEarlyExit, NEW i \in Instances,
           Boot(i) \/ StartFails(i) \/ NextTrigger(i) \/ StartReturns(i)
    PROVE  LockInv'
<1> USE DEF TypeOK, LockInv, LockIsExclusive, RunsUnderLock, StartersHoldLock, OwnersHoldLock,
            WorkersEndCancelled, Active, Cancelled, WorkersOf, IdOf, CurId, Fault
<1>1. CASE Boot(i)
  BY <1>1 DEF Boot, worker
<1>2. CASE StartFails(i)
  BY <1>2 DEF StartFails, worker
<1>3. CASE NextTrigger(i)
  BY <1>3 DEF NextTrigger, worker
<1>4. CASE StartReturns(i)
  BY <1>4 DEF StartReturns, worker
<1>5. QED
  BY <1>1, <1>2, <1>3, <1>4

LEMMA StartWorkerKeepsLocks ==
    ASSUME TypeOK, RegisteredInv, LockInv, NoEarlyExit, NEW i \in Instances,
           \/ AcquireGranted(i) \/ AcquireBusy(i) \/ AcquireFails(i)
           \/ BuildFails(i) \/ Register(i)
    PROVE  LockInv'
<1> USE DEF TypeOK, LockInv, LockIsExclusive, RunsUnderLock, StartersHoldLock, OwnersHoldLock,
            WorkersEndCancelled, Active, Cancelled, WorkersOf, IdOf, CurId, Fault
<1>1. CASE AcquireGranted(i)
  BY <1>1 DEF AcquireGranted, Grant, LockFree, worker
<1>2. CASE AcquireBusy(i)
  BY <1>2 DEF AcquireBusy, Return, AfterReturn, worker
<1>3. CASE AcquireFails(i)
  <2>1. old[i] = NoWorker
    BY <1>3 DEF AcquireFails, RegisteredInv, NothingElseRuns
  <2>2. QED
    BY <1>3, <2>1 DEF AcquireFails, Return, AfterReturn, worker
<1>4. CASE BuildFails(i)
  BY <1>4 DEF BuildFails, NoEarlyExit
<1>5. CASE Register(i)
  BY <1>5 DEF Register, Return, AfterReturn, Free
<1>6. QED
  BY <1>1, <1>2, <1>3, <1>4, <1>5

LEMMA ListenerKeepsLocks ==
    ASSUME TypeOK, RegisteredInv, LockInv, NoEarlyExit, NEW i \in Instances,
           \/ \E t \in Triggers : ReceiveUpdate(i, t)
           \/ Supersede(i) \/ Bail(i) \/ ListenerStops(i)
    PROVE  LockInv'
<1> USE DEF TypeOK, LockInv, LockIsExclusive, RunsUnderLock, StartersHoldLock, OwnersHoldLock,
            WorkersEndCancelled, Active, Cancelled, WorkersOf, IdOf, CurId, Fault
<1>1. CASE \E t \in Triggers : ReceiveUpdate(i, t)
  BY <1>1 DEF ReceiveUpdate, worker
<1>2. CASE Supersede(i)
  BY <1>2 DEF Supersede
<1>3. CASE Bail(i)
  BY <1>3 DEF Bail
<1>4. CASE ListenerStops(i)
  BY <1>4 DEF ListenerStops, worker
<1>5. QED
  BY <1>1, <1>2, <1>3, <1>4

LEMMA StopKeepsLocks ==
    ASSUME TypeOK, RegisteredInv, LockInv, NoEarlyExit, NEW i \in Instances,
           CancelCtx(i) \/ ShutdownStep(i) \/ Crash(i) \/ Consume(i)
    PROVE  LockInv'
<1> USE DEF TypeOK, LockInv, LockIsExclusive, RunsUnderLock, StartersHoldLock, OwnersHoldLock,
            WorkersEndCancelled, Active, Cancelled, WorkersOf, IdOf, CurId, Fault
<1>1. CASE CancelCtx(i)
  BY <1>1 DEF CancelCtx, control, worker
<1>2. CASE ShutdownCancels(i)
  <2>1. /\ ctxDone[i]
        /\ \A w \in Workers : stop[w] => stop'[w]
        /\ \A w \in Workers : stop'[w] => stop[w] \/ \E id \in Ids : owned[i][id] = w
        /\ UNCHANGED <<cpc, ctrig, old, todo, ctxDone, owned, held, wpc, job, skip, queue>>
    BY <1>2 DEF ShutdownCancels, control
  <2>2. \A w \in Workers : stop'[w] /\ ~stop[w] => ctxDone[Home[w]]
    <3>1. SUFFICES ASSUME NEW w \in Workers, stop'[w], ~stop[w] PROVE Home[w] = i
      BY <2>1
    <3>2. PICK id \in Ids : owned[i][id] = w
      BY <2>1, <3>1
    <3>3. QED
      BY <3>2 DEF RegisteredInv, EntriesAreLocal
  <2>3. LockIsExclusive' /\ RunsUnderLock' /\ StartersHoldLock' /\ OwnersHoldLock'
    BY <2>1
  <2>4. WorkersEndCancelled'
    BY <2>1, <2>2
  <2>5. QED
    BY <2>3, <2>4
<1>3. CASE ShutdownCloses(i)
  BY <1>3 DEF ShutdownCloses, control, worker
<1>4. CASE Crash(i)
  BY <1>4 DEF Crash
<1>5. CASE Consume(i)
  BY <1>5 DEF Consume, control, worker
<1>6. QED
  BY <1>1, <1>2, <1>3, <1>4, <1>5 DEF ShutdownStep

LEMMA WorkerKeepsLocks ==
    ASSUME TypeOK, RegisteredInv, LockInv, NoEarlyExit, NEW w \in Workers, WorkerStep(w) \/ TakeEvent(w)
    PROVE  LockInv'
<1> USE DEF TypeOK, LockInv, LockIsExclusive, RunsUnderLock, StartersHoldLock, OwnersHoldLock,
            WorkersEndCancelled, Active, Cancelled, WorkersOf, IdOf, CurId, Fault
<1>1. CASE SubscribeSucceeds(w)
  BY <1>1 DEF SubscribeSucceeds, Goto, control
<1>2. CASE SubscribeFails(w)
  BY <1>2 DEF SubscribeFails, Goto, control, NoEarlyExit
<1>3. CASE TakeEvent(w)
  BY <1>3 DEF TakeEvent, Goto, control
<1>4. CASE SendEvent(w)
  BY <1>4 DEF SendEvent, Goto, control
<1>5. CASE WorkerStops(w)
  BY <1>5 DEF WorkerStops, Goto, control
<1>6. CASE KeepLock(w)
  BY <1>6 DEF KeepLock, Goto, control, Returned
<1>7. CASE StartCleanup(w)
  BY <1>7 DEF StartCleanup, Goto, control
<1>8. CASE Deregister(w)
  BY <1>8 DEF Deregister, Goto, control
<1>9. CASE ReleaseLock(w)
  <2>1. /\ ctxDone[Home[w]]
        /\ wpc[w] = "releasing" /\ wpc' = [wpc EXCEPT ![w] = "done"]
        /\ stop' = [stop EXCEPT ![w] = FALSE] /\ skip' = [skip EXCEPT ![w] = FALSE]
        /\ UNCHANGED <<cpc, ctrig, old, todo, ctxDone, shut, owned, job, queue>>
    BY <1>9 DEF ReleaseLock, Goto, control, Returned
  <2>2. held' = held \/ held' = [held EXCEPT ![Home[w]][IdOf(w)] = IF @ = 0 THEN 0 ELSE @ - 1]
    BY <1>9 DEF ReleaseLock, Unlock
  <2>3. \A j \in Instances \ {Home[w]}, id \in Ids : held'[j][id] = held[j][id]
    BY <2>2
  <2>4. \A id \in Ids : held'[Home[w]][id] > 0 => held[Home[w]][id] > 0
    BY <2>2, UnlockLowers DEF Unlock
  <2>5. \A j \in Instances, id \in Ids : held'[j][id] > 0 => held[j][id] > 0
    BY <2>3, <2>4, ZenonT(30)
  <2>6. LockIsExclusive'
    BY <2>5
  <2>7. RunsUnderLock'
    BY <2>1, <2>3
  <2>8. \A j \in Instances : ~ctxDone[j] => held'[j] = held[j]
    <3>1. \A j \in Instances \ {Home[w]} : held'[j] = held[j]
      BY <2>2
    <3>2. QED
      BY <2>1, <3>1
  <2>9. StartersHoldLock' /\ OwnersHoldLock'
    BY <2>1, <2>8
  <2>10. WorkersEndCancelled'
    BY <2>1
  <2>11. QED
    BY <2>6, <2>7, <2>9, <2>10
<1>10. QED
  BY <1>1, <1>2, <1>3, <1>4, <1>5, <1>6, <1>7, <1>8, <1>9 DEF WorkerStep

LEMMA Locked ==
    ASSUME NoEarlyExit, DistinctIds
    PROVE  Spec => []LockInv
<1>1. Init => LockInv
  <2>1. SUFFICES ASSUME Init PROVE LockInv
    OBVIOUS
  <2>2. LockIsExclusive /\ RunsUnderLock /\ WorkersEndCancelled
    BY <2>1 DEF Init, LockIsExclusive, RunsUnderLock, WorkersEndCancelled, Active
  <2>3. StartersHoldLock /\ OwnersHoldLock
    BY <2>1 DEF Init, StartersHoldLock, OwnersHoldLock
  <2>4. QED
    BY <2>2, <2>3 DEF LockInv
<1>2. TypeOK /\ RegisteredInv /\ LockInv /\ [Next]_vars => LockInv'
  <2>1. CASE UNCHANGED vars
    BY <2>1 DEF LockInv, LockIsExclusive, RunsUnderLock, StartersHoldLock, OwnersHoldLock,
                WorkersEndCancelled, Active, Cancelled, IdOf, CurId, vars
  <2>2. CASE Next /\ TypeOK /\ RegisteredInv /\ LockInv
    BY <2>2, NoEarlyExit, StartKeepsLocks, StartWorkerKeepsLocks, ListenerKeepsLocks,
       StopKeepsLocks, WorkerKeepsLocks
       DEF Next, ControlStep, RegisteredInv
  <2>3. QED
    BY <2>1, <2>2
<1>3. QED
  BY <1>1, <1>2, Typing, Registered, PTL DEF Spec

\* A running worker's instance holds the lock of its trigger.
THEOREM WorkersHoldLocks ==
    ASSUME NoEarlyExit, DistinctIds
    PROVE  Spec => []RunsUnderLock
<1>1. LockInv => RunsUnderLock
  BY DEF LockInv
<1>2. QED
  BY <1>1, Locked, PTL

\* While a worker is replaced, its instance keeps the lock.
THEOREM RestartsKeepLocks ==
    ASSUME NoEarlyExit, DistinctIds
    PROVE  Spec => []RestartKeepsLock
<1>1. RegisteredInv /\ LockInv => RestartKeepsLock
  BY DEF RegisteredInv, NothingElseRuns, LockInv, StartersHoldLock, RestartKeepsLock
<1>2. QED
  BY <1>1, Typing, Registered, Locked, PTL

\* Of all the workers of all the instances at most one runs a trigger.
THEOREM MutualExclusion ==
    ASSUME NoEarlyExit, DistinctIds
    PROVE  Spec => []SingleRunner
<1>1. TypeOK /\ RegisteredInv /\ LockInv => SingleRunner
  <2>1. SUFFICES ASSUME TypeOK, RegisteredInv, LockInv, NEW v \in Workers, NEW w \in Workers,
                        Active(v), Active(w), IdOf(v) = IdOf(w)
                 PROVE  v = w
    BY DEF SingleRunner
  <2>2. held[Home[v]][IdOf(v)] > 0 /\ held[Home[w]][IdOf(w)] > 0
    BY <2>1 DEF LockInv, RunsUnderLock
  <2>3. IdOf(v) \in Ids
    BY <2>1 DEF IdOf, TypeOK
  <2>4. Home[v] = Home[w]
    BY <2>1, <2>2, <2>3 DEF LockInv, LockIsExclusive
  <2>5. QED
    BY <2>1, <2>4 DEF RegisteredInv, ActiveIsRegistered
<1>2. QED
  BY <1>1, Typing, Registered, Locked, PTL

----------------------------------------------------------------------------
(* No lock is left to nobody, provided that no restart fails and the        *)
(* releases work: whoever keeps a lock has still to release it.             *)

ReleasesWork == "decode" \notin Faults /\ "release" \notin Faults

\* The workers of i that will release the lock of id.
Owing(i, id) ==
    {w \in WorkersOf(i) :
        /\ IdOf(w) = id
        /\ \/ wpc[w] \in {"cleanup", "releasing"}
           \/ wpc[w] \in {"spawned", "running", "sending", "exiting"} /\ ~skip[w]}

Starting(i, id) == cpc[i] = "build" /\ CurId(i) = id

\* Each of them releases once, and so does the worker that is about to start.
LocksAreOwed ==
    \A i \in Instances, id \in Ids :
        held[i][id] <= Cardinality(Owing(i, id)) + (IF Starting(i, id) THEN 1 ELSE 0)

\* An entry, and a worker that is being replaced, is of the id it is there for.
EntriesMatch ==
    /\ \A i \in Instances, id \in Ids : owned[i][id] # NoWorker => IdOf(owned[i][id]) = id
    /\ \A i \in Instances : old[i] # NoWorker => old[i] \in WorkersOf(i) /\ IdOf(old[i]) = CurId(i)

LEMMA OwingIsFinite ==
    ASSUME NEW i, NEW id
    PROVE  IsFiniteSet(Owing(i, id)) /\ Cardinality(Owing(i, id)) \in Nat
<1>1. Owing(i, id) \in SUBSET Workers
  BY DEF Owing, WorkersOf
<1>2. QED
  BY <1>1, SlotAssumption, FS_Subset, FS_CardinalityType

LEMMA OwingIsFiniteNext ==
    ASSUME NEW i, NEW id
    PROVE  IsFiniteSet(Owing(i, id)') /\ Cardinality(Owing(i, id)') \in Nat
<1>1. Owing(i, id)' \in SUBSET Workers
  BY DEF Owing, WorkersOf
<1>2. QED
  BY <1>1, SlotAssumption, FS_Subset, FS_CardinalityType

\* A step that takes no lock and lets nobody off.
LEMMA NobodyLetOff ==
    ASSUME TypeOK, TypeOK', LocksAreOwed,
           \A j \in Instances, id \in Ids :
               /\ Owing(j, id)' = Owing(j, id)
               /\ held'[j][id] <= held[j][id]
               /\ Starting(j, id) => Starting(j, id)'
    PROVE  LocksAreOwed'
<1> SUFFICES ASSUME NEW j \in Instances, NEW id \in Ids
             PROVE  held'[j][id] <= Cardinality(Owing(j, id)') + (IF Starting(j, id)' THEN 1 ELSE 0)
  BY DEF LocksAreOwed
<1>1. held[j][id] \in Nat /\ held'[j][id] \in Nat /\ Cardinality(Owing(j, id)) \in Nat
  BY OwingIsFinite DEF TypeOK
<1>2. held[j][id] <= Cardinality(Owing(j, id)) + (IF Starting(j, id) THEN 1 ELSE 0)
  BY DEF LocksAreOwed
<1>3. Cardinality(Owing(j, id)') = Cardinality(Owing(j, id))
  OBVIOUS
<1>4. QED
  BY <1>1, <1>2, <1>3

LEMMA GrantIsOwed ==
    ASSUME TypeOK, LocksAreOwed, NEW i \in Instances, AcquireGranted(i)
    PROVE  LocksAreOwed'
<1> SUFFICES ASSUME NEW j \in Instances, NEW id \in Ids
             PROVE  held'[j][id] <= Cardinality(Owing(j, id)') + (IF Starting(j, id)' THEN 1 ELSE 0)
  BY DEF LocksAreOwed
<1>1. held[j][id] \in Nat /\ Cardinality(Owing(j, id)) \in Nat
  BY OwingIsFinite DEF TypeOK
<1>2. held[j][id] <= Cardinality(Owing(j, id)) + (IF Starting(j, id) THEN 1 ELSE 0)
  BY DEF LocksAreOwed
<1>3. Owing(j, id)' = Owing(j, id)
  BY DEF AcquireGranted, worker, Owing, WorkersOf, IdOf
<1>4. /\ cpc[i] = "acquire" /\ cpc' = [cpc EXCEPT ![i] = "build"] /\ ctrig' = ctrig
      /\ held' = [held EXCEPT ![i][CurId(i)] = @ + 1]
  BY DEF AcquireGranted, Grant
<1>5. CASE j = i /\ id = CurId(i)
  <2>1. ~Starting(j, id) /\ Starting(j, id)'
    BY <1>4, <1>5 DEF Starting, CurId, TypeOK
  <2>2. held'[j][id] = held[j][id] + 1
    BY <1>4, <1>5 DEF TypeOK
  <2>3. QED
    BY <1>1, <1>2, <1>3, <2>1, <2>2
<1>6. CASE ~(j = i /\ id = CurId(i))
  <2>1. held'[j][id] = held[j][id] /\ (Starting(j, id)' <=> Starting(j, id))
    BY <1>4, <1>6 DEF Starting, CurId, TypeOK
  <2>2. QED
    BY <1>1, <1>2, <1>3, <2>1
<1>7. QED
  BY <1>5, <1>6

\* The worker that is started owes the lock in its starter's place.
LEMMA RegisterIsOwed ==
    ASSUME TypeOK, LocksAreOwed, NEW i \in Instances, Register(i)
    PROVE  LocksAreOwed'
<1> SUFFICES ASSUME NEW j \in Instances, NEW id \in Ids
             PROVE  held'[j][id] <= Cardinality(Owing(j, id)') + (IF Starting(j, id)' THEN 1 ELSE 0)
  BY DEF LocksAreOwed
<1>1. held[j][id] \in Nat /\ IsFiniteSet(Owing(j, id)) /\ Cardinality(Owing(j, id)) \in Nat
  BY OwingIsFinite DEF TypeOK
<1>2. held[j][id] <= Cardinality(Owing(j, id)) + (IF Starting(j, id) THEN 1 ELSE 0)
  BY DEF LocksAreOwed
<1>3. PICK w \in WorkersOf(i) :
         /\ Free(w)
         /\ wpc' = [wpc EXCEPT ![w] = "spawned"]
         /\ job' = [job EXCEPT ![w] = ctrig[i]]
         /\ skip' = [skip EXCEPT ![w] = FALSE]
  BY DEF Register
<1>4. w \in Workers /\ Home[w] = i /\ wpc[w] = "done"
  BY <1>3 DEF WorkersOf, Free
<1>5. /\ cpc[i] = "build" /\ held' = held /\ ctrig' = ctrig
      /\ cpc' = [cpc EXCEPT ![i] = AfterReturn(i, FALSE)]
      /\ AfterReturn(i, FALSE) # "build"
  BY DEF Register, Return, AfterReturn
<1>6. CASE j = i /\ id = CurId(i)
  <2>1. Owing(j, id)' = Owing(j, id) \union {w} /\ w \notin Owing(j, id)
    BY <1>3, <1>4, <1>6 DEF Owing, WorkersOf, IdOf, CurId, TypeOK
  <2>2. Cardinality(Owing(j, id)') = Cardinality(Owing(j, id)) + 1
    BY <1>1, <2>1, FS_AddElement
  <2>3. QED
    BY <1>1, <1>2, <1>5, <2>2
<1>7. CASE ~(j = i /\ id = CurId(i))
  <2>1. Owing(j, id)' = Owing(j, id)
    BY <1>3, <1>4, <1>7 DEF Owing, WorkersOf, IdOf, CurId, TypeOK
  <2>2. ~Starting(j, id) \/ (Starting(j, id) /\ Starting(j, id)')
    BY <1>5, <1>7 DEF Starting, CurId, TypeOK
  <2>3. QED
    BY <1>1, <1>2, <1>5, <2>1, <2>2
<1>8. QED
  BY <1>6, <1>7

\* The listener owes the lock in the place of the worker it cancels.
LEMMA SupersedeIsOwed ==
    ASSUME TypeOK, RegisteredInv, EntriesMatch, LocksAreOwed, NEW i \in Instances, Supersede(i)
    PROVE  LocksAreOwed'
<1> SUFFICES ASSUME NEW j \in Instances, NEW id \in Ids
             PROVE  held'[j][id] <= Cardinality(Owing(j, id)') + (IF Starting(j, id)' THEN 1 ELSE 0)
  BY DEF LocksAreOwed
<1>1. held[j][id] \in Nat /\ IsFiniteSet(Owing(j, id)) /\ Cardinality(Owing(j, id)) \in Nat
  BY OwingIsFinite DEF TypeOK
<1>2. held[j][id] <= Cardinality(Owing(j, id)) + (IF Starting(j, id) THEN 1 ELSE 0)
  BY DEF LocksAreOwed
<1> DEFINE w == old[i]
<1>3. /\ cpc[i] = "replace" /\ cpc' = [cpc EXCEPT ![i] = "build"]
      /\ skip' = [skip EXCEPT ![w] = TRUE]
      /\ ctrig' = ctrig /\ held' = held /\ wpc' = wpc /\ job' = job
  BY DEF Supersede
<1>4. w \in Workers /\ Home[w] = i /\ IdOf(w) = CurId(i)
  BY <1>3 DEF RegisteredInv, NothingElseRuns, WorkersOf, EntriesMatch
<1> HIDE DEF w
<1>5. CASE j = i /\ id = CurId(i)
  <2>1. Owing(j, id)' = Owing(j, id) \/ Owing(j, id)' = Owing(j, id) \ {w}
    BY <1>3, <1>4 DEF Owing, WorkersOf, IdOf, TypeOK
  <2>2. Cardinality(Owing(j, id)') >= Cardinality(Owing(j, id)) - 1
    <3> DEFINE owing == Owing(j, id)
    <3> HIDE DEF owing
    <3>1. Cardinality(owing \ {w}) = IF w \in owing THEN Cardinality(owing) - 1 ELSE Cardinality(owing)
      BY <1>1, FS_RemoveElement DEF owing
    <3>2. Cardinality(owing) \in Nat /\ (Owing(j, id)' = owing \/ Owing(j, id)' = owing \ {w})
      BY <1>1, <2>1 DEF owing
    <3>3. Cardinality(owing \ {w}) >= Cardinality(owing) - 1
      BY <3>1, <3>2
    <3>4. CASE Owing(j, id)' = owing
      <4>1. Cardinality(Owing(j, id)') = Cardinality(owing)
        BY <3>4
      <4>2. QED
        BY <3>2, <4>1 DEF owing
    <3>5. CASE Owing(j, id)' = owing \ {w}
      <4>1. Cardinality(Owing(j, id)') = Cardinality(owing \ {w})
        BY <3>5
      <4>2. QED
        BY <3>3, <4>1 DEF owing
    <3>6. QED
      BY <3>2, <3>4, <3>5
  <2>3. ~Starting(j, id) /\ Starting(j, id)'
    BY <1>3, <1>5 DEF Starting, CurId, TypeOK
  <2>4. Cardinality(Owing(j, id)') \in Nat
    BY OwingIsFiniteNext
  <2>5. QED
    BY <1>1, <1>2, <1>3, <2>2, <2>3, <2>4
<1>6. CASE ~(j = i /\ id = CurId(i))
  <2>1. w \notin WorkersOf(j) \/ IdOf(w) # id
    BY <1>4, <1>6 DEF WorkersOf
  <2>2. Owing(j, id)' = Owing(j, id)
    BY <1>3, <1>4, <2>1 DEF Owing, WorkersOf, IdOf, TypeOK
  <2>3. Starting(j, id)' <=> Starting(j, id)
    BY <1>3, <1>6 DEF Starting, CurId, TypeOK
  <2>4. QED
    BY <1>1, <1>2, <1>3, <2>2, <2>3
<1>7. QED
  BY <1>5, <1>6

LEMMA ReleasePays ==
    ASSUME TypeOK, ReleasesWork, LocksAreOwed, NEW w \in Workers, ReleaseLock(w)
    PROVE  LocksAreOwed'
<1> SUFFICES ASSUME NEW j \in Instances, NEW id \in Ids
             PROVE  held'[j][id] <= Cardinality(Owing(j, id)') + (IF Starting(j, id)' THEN 1 ELSE 0)
  BY DEF LocksAreOwed
<1>1. held[j][id] \in Nat /\ IsFiniteSet(Owing(j, id)) /\ Cardinality(Owing(j, id)) \in Nat
  BY OwingIsFinite DEF TypeOK
<1>2. held[j][id] <= Cardinality(Owing(j, id)) + (IF Starting(j, id) THEN 1 ELSE 0)
  BY DEF LocksAreOwed
<1>3. /\ wpc[w] = "releasing" /\ wpc' = [wpc EXCEPT ![w] = "done"]
      /\ skip' = [skip EXCEPT ![w] = FALSE]
      /\ cpc' = cpc /\ ctrig' = ctrig /\ job' = job
  BY DEF ReleaseLock, Goto, Returned, control
<1>4. held' = [held EXCEPT ![Home[w]][IdOf(w)] = IF @ = 0 THEN 0 ELSE @ - 1]
  BY DEF ReleaseLock, Unlock, ReleasesWork, Fault
<1>5. Home[w] \in Instances /\ IdOf(w) \in Ids
  BY DEF IdOf, TypeOK
<1>6. Starting(j, id)' <=> Starting(j, id)
  BY <1>3 DEF Starting, CurId
<1>7. CASE j = Home[w] /\ id = IdOf(w)
  <2>1. Owing(j, id)' = Owing(j, id) \ {w} /\ w \in Owing(j, id)
    BY <1>3, <1>7 DEF Owing, WorkersOf, IdOf, TypeOK
  <2>2. Cardinality(Owing(j, id)') = Cardinality(Owing(j, id)) - 1
    BY <1>1, <2>1, FS_RemoveElement, ZenonT(30)
  <2>3. held'[j][id] = IF held[j][id] = 0 THEN 0 ELSE held[j][id] - 1
    BY <1>4, <1>5, <1>7 DEF TypeOK
  <2>4. Cardinality(Owing(j, id)') \in Nat
    BY OwingIsFiniteNext
  <2>5. QED
    BY <1>1, <1>2, <1>6, <2>2, <2>3, <2>4
<1>8. CASE ~(j = Home[w] /\ id = IdOf(w))
  <2>1. Owing(j, id)' = Owing(j, id)
    BY <1>3, <1>8 DEF Owing, WorkersOf, IdOf, TypeOK
  <2>2. held'[j][id] = held[j][id]
    BY <1>4, <1>5, <1>8 DEF TypeOK
  <2>3. QED
    BY <1>1, <1>2, <1>6, <2>1, <2>2
<1>9. QED
  BY <1>7, <1>8

LEMMA CrashPays ==
    ASSUME TypeOK, LocksAreOwed, NEW i \in Instances, Crash(i)
    PROVE  LocksAreOwed'
<1> SUFFICES ASSUME NEW j \in Instances, NEW id \in Ids
             PROVE  held'[j][id] <= Cardinality(Owing(j, id)') + (IF Starting(j, id)' THEN 1 ELSE 0)
  BY DEF LocksAreOwed
<1>1. Cardinality(Owing(j, id)') \in Nat
  BY OwingIsFiniteNext
<1>2. CASE j = i
  <2>1. held'[j][id] = 0
    BY <1>2 DEF Crash, TypeOK
  <2>2. QED
    BY <1>1, <2>1
<1>3. CASE j # i
  <2>1. held'[j][id] = held[j][id] /\ (Starting(j, id)' <=> Starting(j, id))
    BY <1>3 DEF Crash, TypeOK, Starting, CurId
  <2>2. Owing(j, id)' = Owing(j, id)
    BY <1>3 DEF Crash, Owing, WorkersOf, IdOf, TypeOK
  <2>3. held[j][id] <= Cardinality(Owing(j, id)) + (IF Starting(j, id) THEN 1 ELSE 0)
    BY DEF LocksAreOwed
  <2>4. QED
    BY <2>1, <2>2, <2>3
<1>4. QED
  BY <1>2, <1>3

LEMMA Owed ==
    ASSUME ReleasesWork, DistinctIds
    PROVE  TypeOK /\ TypeOK' /\ RegisteredInv /\ EntriesMatch /\ LocksAreOwed /\ [Next]_vars => LocksAreOwed'
<1> SUFFICES ASSUME TypeOK, TypeOK', RegisteredInv, EntriesMatch, LocksAreOwed, [Next]_vars PROVE LocksAreOwed'
  OBVIOUS
<1> USE DEF Owing, Starting, WorkersOf, IdOf, CurId
<1>1. CASE UNCHANGED vars
  BY <1>1 DEF vars, LocksAreOwed
<1>2. ASSUME NEW i \in Instances,
             \/ Boot(i) \/ StartFails(i) \/ NextTrigger(i) \/ StartReturns(i)
             \/ AcquireBusy(i) \/ AcquireFails(i)
             \/ (\E t \in Triggers : ReceiveUpdate(i, t)) \/ ListenerStops(i)
             \/ CancelCtx(i) \/ ShutdownCancels(i) \/ ShutdownCloses(i) \/ Consume(i)
      PROVE  LocksAreOwed'
  <2>1. UNCHANGED <<held, wpc, job, skip>>
    BY <1>2 DEF Boot, StartFails, NextTrigger, StartReturns, AcquireBusy, AcquireFails, ReceiveUpdate,
                ListenerStops, CancelCtx, ShutdownCancels, ShutdownCloses, Consume, worker
  <2>2. \A j \in Instances : cpc[j] = "build" => cpc'[j] = "build" /\ ctrig'[j] = ctrig[j]
    <3>1. CASE CancelCtx(i) \/ ShutdownCancels(i) \/ ShutdownCloses(i) \/ Consume(i)
      BY <3>1 DEF CancelCtx, ShutdownCancels, ShutdownCloses, Consume, control
    <3>2. CASE ~(CancelCtx(i) \/ ShutdownCancels(i) \/ ShutdownCloses(i) \/ Consume(i))
      <4>1. cpc[i] # "build" /\ \A j \in Instances : j # i => cpc'[j] = cpc[j] /\ ctrig'[j] = ctrig[j]
        <5>1. CASE \E t \in Triggers : ReceiveUpdate(i, t)
          BY <5>1 DEF ReceiveUpdate, TypeOK
        <5>2. CASE Boot(i) \/ StartFails(i) \/ NextTrigger(i) \/ StartReturns(i)
          BY <5>2 DEF Boot, StartFails, NextTrigger, StartReturns, TypeOK
        <5>3. CASE AcquireBusy(i) \/ AcquireFails(i) \/ ListenerStops(i)
          BY <5>3 DEF AcquireBusy, AcquireFails, Return, ListenerStops, TypeOK
        <5>4. QED
          BY <1>2, <3>2, <5>1, <5>2, <5>3
      <4>2. QED
        BY <4>1
    <3>3. QED
      BY <3>1, <3>2
  <2>3. \A j \in Instances, id \in Ids : held[j][id] \in Nat
    BY DEF TypeOK
  <2>4. QED
    BY <2>1, <2>2, <2>3, NobodyLetOff
<1>3. ASSUME NEW i \in Instances, AcquireGranted(i) \/ Register(i) \/ Supersede(i) \/ Crash(i)
      PROVE  LocksAreOwed'
  BY <1>3, GrantIsOwed, RegisterIsOwed, SupersedeIsOwed, CrashPays
<1>4. ASSUME NEW i \in Instances, BuildFails(i) PROVE FALSE
  BY <1>4 DEF BuildFails, Fault, ReleasesWork
<1>5. ASSUME NEW i \in Instances, Bail(i) PROVE LocksAreOwed'
  <2>1. /\ cpc[i] = "bail" /\ cpc' = [cpc EXCEPT ![i] = "listening"]
        /\ UNCHANGED <<ctrig, wpc, job, skip>>
    BY <1>5 DEF Bail, worker
  <2>2. \A j \in Instances, id \in Ids : held[j][id] \in Nat
    BY DEF TypeOK
  <2>3. ASSUME NEW j \in Instances, NEW id \in Ids PROVE held'[j][id] <= held[j][id]
    <3>1. held' = held \/ held' = [held EXCEPT ![i][CurId(i)] = IF @ = 0 THEN 0 ELSE @ - 1]
      BY <1>5 DEF Bail, ReleaseWithCtx, Unlock
    <3>2. held'[j][id] \in {held[j][id], IF held[j][id] = 0 THEN 0 ELSE held[j][id] - 1}
      <4>1. CASE j = i /\ id = CurId(i)
        BY <3>1, <4>1 DEF TypeOK
      <4>2. CASE ~(j = i /\ id = CurId(i))
        BY <3>1, <4>2 DEF TypeOK
      <4>3. QED
        BY <4>1, <4>2
    <3>3. QED
      BY <2>2, <3>2
  <2>4. \A j \in Instances, id \in Ids : Starting(j, id) => Starting(j, id)'
    BY <2>1 DEF TypeOK
  <2>5. QED
    BY <2>1, <2>3, <2>4, NobodyLetOff
<1>6. ASSUME NEW w \in Workers,
             \/ SubscribeSucceeds(w) \/ SubscribeFails(w) \/ TakeEvent(w) \/ SendEvent(w)
             \/ WorkerStops(w) \/ KeepLock(w) \/ StartCleanup(w) \/ Deregister(w)
      PROVE  LocksAreOwed'
  <2>1. UNCHANGED <<held, cpc, ctrig, job>>
    BY <1>6 DEF SubscribeSucceeds, SubscribeFails, TakeEvent, SendEvent, WorkerStops, KeepLock,
                StartCleanup, Deregister, control
  <2>2. \A j \in Instances, id \in Ids : Owing(j, id)' = Owing(j, id)
    BY <1>6 DEF SubscribeSucceeds, SubscribeFails, TakeEvent, SendEvent, WorkerStops, KeepLock,
                StartCleanup, Deregister, Goto, Returned, TypeOK
  <2>3. \A j \in Instances, id \in Ids : held[j][id] \in Nat
    BY DEF TypeOK
  <2>4. QED
    BY <2>1, <2>2, <2>3, NobodyLetOff
<1>7. ASSUME NEW w \in Workers, ReleaseLock(w) PROVE LocksAreOwed'
  BY <1>7, ReleasePays
<1>8. QED
  BY <1>1, <1>2, <1>3, <1>4, <1>5, <1>6, <1>7 DEF Next, ControlStep, ShutdownStep, WorkerStep

LEMMA Matching ==
    ASSUME DistinctIds
    PROVE  TypeOK /\ TypeOK' /\ RegisteredInv /\ EntriesMatch /\ [Next]_vars => EntriesMatch'
<1> SUFFICES ASSUME TypeOK, TypeOK', RegisteredInv, EntriesMatch, [Next]_vars PROVE EntriesMatch'
  OBVIOUS
<1> USE DEF EntriesMatch, IdOf, CurId, TypeOK
<1>1. CASE UNCHANGED vars
  BY <1>1 DEF vars
<1>2. ASSUME NEW i \in Instances,
             \/ Boot(i) \/ StartFails(i) \/ NextTrigger(i) \/ StartReturns(i)
             \/ AcquireGranted(i) \/ AcquireBusy(i) \/ AcquireFails(i) \/ BuildFails(i)
             \/ (\E t \in Triggers : ReceiveUpdate(i, t)) \/ Supersede(i) \/ Bail(i) \/ ListenerStops(i)
             \/ CancelCtx(i) \/ ShutdownCancels(i) \/ ShutdownCloses(i) \/ Consume(i)
      PROVE  EntriesMatch'
  <2>1. owned' = owned /\ job' = job
    BY <1>2 DEF Boot, StartFails, NextTrigger, StartReturns, AcquireGranted, AcquireBusy, AcquireFails,
                BuildFails, ReceiveUpdate, Supersede, Bail, ListenerStops, CancelCtx, ShutdownCancels,
                ShutdownCloses, Consume, worker
  <2>2. \A j \in Instances : \/ old'[j] = NoWorker
                             \/ old'[j] = old[j] /\ ctrig'[j] = ctrig[j]
                             \/ old'[j] = owned[j][InternalID[ctrig'[j]]]
    <3>1. CASE NextTrigger(i)
      <4>1. old[i] = NoWorker
        BY <3>1 DEF NextTrigger, RegisteredInv, NothingElseRuns
      <4>2. old' = old /\ \A j \in Instances : j # i => ctrig'[j] = ctrig[j]
        BY <3>1 DEF NextTrigger
      <4>3. \A j \in Instances : old'[j] = NoWorker \/ (old'[j] = old[j] /\ ctrig'[j] = ctrig[j])
        BY ONLY <4>1, <4>2
      <4>4. QED
        BY <4>3
    <3>2. CASE \E t \in Triggers : ReceiveUpdate(i, t)
      BY <3>2 DEF ReceiveUpdate
    <3>3. CASE AcquireBusy(i) \/ AcquireFails(i) \/ BuildFails(i)
      BY <3>3, ZenonT(30) DEF AcquireBusy, AcquireFails, BuildFails, Return
    <3>4. CASE \/ Boot(i) \/ StartFails(i) \/ StartReturns(i) \/ AcquireGranted(i) \/ Supersede(i) \/ Bail(i)
               \/ ListenerStops(i) \/ CancelCtx(i) \/ ShutdownCancels(i) \/ ShutdownCloses(i) \/ Consume(i)
      BY <3>4 DEF Boot, StartFails, StartReturns, AcquireGranted, Supersede, Bail, ListenerStops, CancelCtx,
                  ShutdownCancels, ShutdownCloses, Consume, control
    <3>5. QED
      BY <1>2, <3>1, <3>2, <3>3, <3>4
  <2>3. \A j \in Instances : InternalID[ctrig'[j]] \in Ids
    OBVIOUS
  <2>4. \A j \in Instances, id \in Ids : owned[j][id] # NoWorker => owned[j][id] \in WorkersOf(j)
    BY DEF RegisteredInv, EntriesAreLocal
  <2>5. ASSUME NEW j \in Instances, old'[j] # NoWorker
        PROVE  old'[j] \in WorkersOf(j) /\ InternalID[job[old'[j]]] = InternalID[ctrig'[j]]
    <3>1. CASE old'[j] = old[j] /\ ctrig'[j] = ctrig[j]
      BY <2>5, <3>1
    <3>2. CASE old'[j] = owned[j][InternalID[ctrig'[j]]]
      <4> DEFINE id == InternalID[ctrig'[j]]
      <4>1. id \in Ids /\ owned[j][id] # NoWorker /\ old'[j] = owned[j][id]
        BY <2>3, <2>5, <3>2
      <4>2. owned[j][id] \in WorkersOf(j) /\ IdOf(owned[j][id]) = id
        BY <2>4, <4>1, ZenonT(30)
      <4>3. QED
        BY <4>1, <4>2
    <3>3. QED
      BY <2>2, <2>5, <3>1, <3>2
  <2>6. QED
    BY <2>1, <2>5 DEF WorkersOf
<1>3. ASSUME NEW i \in Instances, Register(i) PROVE EntriesMatch'
  <2>1. PICK w \in WorkersOf(i) :
           /\ Free(w)
           /\ owned' = [owned EXCEPT ![i][CurId(i)] = w]
           /\ job' = [job EXCEPT ![w] = ctrig[i]]
    BY <1>3 DEF Register
  <2>2. ctrig' = ctrig /\ old' = [old EXCEPT ![i] = NoWorker]
    BY <1>3 DEF Register, Return
  <2>3. w \in Workers /\ Home[w] = i /\ \A j \in Instances, id \in Ids : owned[j][id] # w
    BY <2>1 DEF WorkersOf, Free
  <2>4. \A j \in Instances : old'[j] # NoWorker => j # i /\ old'[j] = old[j] /\ old[j] # w
    BY <2>2, <2>3 DEF WorkersOf
  <2>5. QED
    BY <2>1, <2>2, <2>3, <2>4 DEF WorkersOf
<1>4. ASSUME NEW i \in Instances, Crash(i) PROVE EntriesMatch'
  BY <1>4 DEF Crash, WorkersOf
<1>5. ASSUME NEW w \in Workers, WorkerStep(w) \/ TakeEvent(w) PROVE EntriesMatch'
  <2>1. UNCHANGED <<ctrig, old, job>>
    BY <1>5 DEF WorkerStep, TakeEvent, SubscribeSucceeds, SubscribeFails, SendEvent, WorkerStops, KeepLock,
                StartCleanup, Deregister, ReleaseLock, control
  <2>2. \A j \in Instances, id \in Ids : owned'[j][id] \in {owned[j][id], NoWorker}
    <3>1. CASE Deregister(w)
      BY <3>1 DEF Deregister
    <3>2. CASE ~Deregister(w)
      BY <1>5, <3>2 DEF WorkerStep, TakeEvent, SubscribeSucceeds, SubscribeFails, SendEvent, WorkerStops,
                        KeepLock, StartCleanup, ReleaseLock
    <3>3. QED
      BY <3>1, <3>2
  <2>3. QED
    BY <2>1, <2>2 DEF WorkersOf
<1>6. QED
  BY <1>1, <1>2, <1>3, <1>4, <1>5 DEF Next, ControlStep, ShutdownStep

LEMMA OwedAtFirst == Init => EntriesMatch /\ LocksAreOwed
<1> SUFFICES ASSUME Init PROVE EntriesMatch /\ LocksAreOwed
  OBVIOUS
<1>1. EntriesMatch
  BY DEF Init, EntriesMatch
<1>2. \A i \in Instances, id \in Ids : held[i][id] = 0 /\ ~Starting(i, id)
  BY DEF Init, Starting
<1>3. QED
  BY <1>1, <1>2, OwingIsFinite DEF LocksAreOwed

\* A lock that is held will be released by a worker that has not ended, or is in
\* the hands of the listener: none stays locked against the other instances.
THEOREM NoLockIsOrphaned ==
    ASSUME ReleasesWork, DistinctIds
    PROVE  Spec => []NoOrphanLock
<1>1. Init => EntriesMatch /\ LocksAreOwed
  BY OwedAtFirst
<1>2. ASSUME TypeOK, LocksAreOwed PROVE NoOrphanLock
  <2> SUFFICES ASSUME NEW i \in Instances, NEW id \in Ids, held[i][id] > 0, ~Starting(i, id)
               PROVE  \E w \in WorkersOf(i) : IdOf(w) = id /\ wpc[w] # "done"
    BY DEF NoOrphanLock, Responsible, Starting
  <2>1. held[i][id] \in Nat /\ IsFiniteSet(Owing(i, id)) /\ Cardinality(Owing(i, id)) \in Nat
    BY <1>2, OwingIsFinite DEF TypeOK
  <2>2. Cardinality(Owing(i, id)) # 0
    BY <1>2, <2>1 DEF LocksAreOwed
  <2>3. Owing(i, id) # {}
    BY <2>1, <2>2, FS_EmptySet
  <2>4. QED
    BY <2>3 DEF Owing
<1>3. QED
  BY <1>1, <1>2, Owed, Matching, Typing, Registered, PTL DEF Spec

\* A session holds a lock at most as often as it has goroutines that will release
\* it, so the bound on the count that the runs need, once it is above the number
\* of slots, never keeps anybody from a lock (AcquireGranted).
THEOREM BoundIsNoBound ==
    ASSUME ReleasesWork, DistinctIds, MaxHold > Cardinality(Workers)
    PROVE  Spec => [](\A i \in Instances : cpc[i] = "acquire" => held[i][CurId(i)] < MaxHold)
<1>1. Init => EntriesMatch /\ LocksAreOwed
  BY OwedAtFirst
<1>2. ASSUME TypeOK, LocksAreOwed
      PROVE  \A i \in Instances : cpc[i] = "acquire" => held[i][CurId(i)] < MaxHold
  <2> SUFFICES ASSUME NEW i \in Instances, cpc[i] = "acquire" PROVE held[i][CurId(i)] < MaxHold
    OBVIOUS
  <2>1. CurId(i) \in Ids /\ ~Starting(i, CurId(i))
    BY <1>2, IdAssumption DEF CurId, Starting, TypeOK
  <2>2. held[i][CurId(i)] \in Nat /\ Cardinality(Owing(i, CurId(i))) \in Nat
    BY <1>2, <2>1, OwingIsFinite DEF TypeOK
  <2>3. held[i][CurId(i)] <= Cardinality(Owing(i, CurId(i)))
    BY <1>2, <2>1, <2>2 DEF LocksAreOwed
  <2>4. Owing(i, CurId(i)) \in SUBSET Workers
    BY DEF Owing, WorkersOf
  <2>5. Cardinality(Owing(i, CurId(i))) <= Cardinality(Workers) /\ Cardinality(Workers) \in Nat
    BY <2>4, SlotAssumption, FS_Subset, FS_CardinalityType
  <2>6. QED
    BY <2>2, <2>3, <2>5, BoundAssumption
<1>3. QED
  BY <1>1, <1>2, Owed, Matching, Typing, Registered, PTL DEF Spec

\* Nobody asks for a lock that its instance holds: until the context is cancelled a
\* lock that is held has its entry, or is being given one.
HoldersListed ==
    \A i \in Instances, id \in Ids :
        /\ held[i][id] <= 1
        /\ held[i][id] > 0 /\ ~ctxDone[i] => owned[i][id] # NoWorker \/ Starting(i, id)

LEMMA AcquireOnce ==
    ASSUME TypeOK, RegisteredInv, HoldersListed, NEW i \in Instances, AcquireGranted(i)
    PROVE  HoldersListed'
<1>1. /\ cpc[i] = "acquire" /\ ~ctxDone[i] /\ CurId(i) \in Ids
      /\ cpc' = [cpc EXCEPT ![i] = "build"] /\ UNCHANGED <<ctrig, ctxDone, owned>>
      /\ held' = [held EXCEPT ![i][CurId(i)] = @ + 1]
  BY IdAssumption DEF AcquireGranted, Grant, CurId, TypeOK
<1>2. owned[i][CurId(i)] = NoWorker /\ ~Starting(i, CurId(i))
  BY <1>1 DEF RegisteredInv, NothingElseRuns, Starting
<1>3. held[i][CurId(i)] = 0
  BY <1>1, <1>2 DEF HoldersListed, TypeOK
<1>4. held'[i][CurId(i)] = 1 /\ Starting(i, CurId(i))'
  BY <1>1, <1>3 DEF TypeOK, Starting, CurId
<1>5. CurId(i)' = CurId(i)
  BY <1>1 DEF CurId
<1>6. ASSUME NEW j \in Instances, NEW id \in Ids, ~(j = i /\ id = CurId(i))
      PROVE  held'[j][id] = held[j][id] /\ (Starting(j, id) => Starting(j, id)')
  BY <1>1, <1>6 DEF TypeOK, Starting, CurId
<1> QED
  <2> SUFFICES ASSUME NEW j \in Instances, NEW id \in Ids
               PROVE  /\ held'[j][id] <= 1
                      /\ held'[j][id] > 0 /\ ~ctxDone'[j] => owned'[j][id] # NoWorker \/ Starting(j, id)'
    BY DEF HoldersListed
  <2>1. CASE j = i /\ id = CurId(i)
    BY <1>4, <1>5, <2>1
  <2>2. CASE ~(j = i /\ id = CurId(i))
    BY <1>1, <1>6, <2>2 DEF HoldersListed
  <2> QED BY <2>1, <2>2

LEMMA ListedStep ==
    ASSUME NoEarlyExit
    PROVE  TypeOK /\ RegisteredInv /\ LockInv /\ HoldersListed /\ [Next]_vars => HoldersListed'
<1> SUFFICES ASSUME TypeOK, RegisteredInv, LockInv, HoldersListed, [Next]_vars PROVE HoldersListed'
  OBVIOUS
<1> USE DEF HoldersListed, Starting, CurId
<1>1. CASE UNCHANGED vars
  BY <1>1 DEF vars
<1>2. ASSUME NEW i \in Instances,
             \/ Boot(i) \/ StartFails(i) \/ NextTrigger(i) \/ StartReturns(i) \/ AcquireBusy(i) \/ AcquireFails(i)
             \/ (\E t \in Triggers : ReceiveUpdate(i, t)) \/ Supersede(i) \/ ListenerStops(i)
      PROVE  HoldersListed'
  <2>1. cpc[i] # "build" /\ UNCHANGED <<held, owned, ctxDone>>
    BY <1>2 DEF Boot, StartFails, NextTrigger, StartReturns, AcquireBusy, AcquireFails, ReceiveUpdate, Supersede, ListenerStops
  <2>2. \A j \in Instances : j # i => cpc'[j] = cpc[j] /\ ctrig'[j] = ctrig[j]
    <3>1. CASE \E t \in Triggers : ReceiveUpdate(i, t)
      BY <3>1 DEF ReceiveUpdate, TypeOK
    <3>2. CASE Boot(i) \/ StartFails(i) \/ NextTrigger(i) \/ StartReturns(i)
      BY <3>2 DEF Boot, StartFails, NextTrigger, StartReturns, TypeOK
    <3>3. CASE AcquireBusy(i) \/ AcquireFails(i)
      <4>1. ctrig' = ctrig /\ \E p : cpc' = [cpc EXCEPT ![i] = p]
        BY <3>3, Zenon DEF AcquireBusy, AcquireFails, Return
      <4> QED BY <4>1 DEF TypeOK
    <3>4. CASE Supersede(i) \/ ListenerStops(i)
      BY <3>4 DEF Supersede, ListenerStops, TypeOK
    <3> QED BY <1>2, <3>1, <3>2, <3>3, <3>4
  <2> QED BY <2>1, <2>2
<1>3. ASSUME NEW i \in Instances, Register(i) PROVE HoldersListed'
  <2>1. PICK w \in Workers : owned' = [owned EXCEPT ![i][CurId(i)] = w]
    BY <1>3 DEF Register, WorkersOf
  <2>2. /\ UNCHANGED <<held, ctxDone, ctrig>>
        /\ \A j \in Instances : j # i => cpc'[j] = cpc[j]
    BY <1>3 DEF Register, Return, TypeOK
  <2>3. w # NoWorker
    BY <2>1, WorkerAssumption
  <2> QED BY <2>1, <2>2, <2>3 DEF TypeOK
<1>4. ASSUME NEW i \in Instances, BuildFails(i) \/ Bail(i) PROVE FALSE
  BY <1>4 DEF BuildFails, Fault, NoEarlyExit, Bail, LockInv, StartersHoldLock
<1>5. ASSUME NEW i \in Instances, CancelCtx(i) \/ ShutdownStep(i) \/ Consume(i) PROVE HoldersListed'
  BY <1>5 DEF CancelCtx, ShutdownStep, ShutdownCancels, ShutdownCloses, Consume, control, TypeOK
<1>6. ASSUME NEW i \in Instances, Crash(i) PROVE HoldersListed'
  BY <1>6 DEF Crash, TypeOK
<1>7. ASSUME NEW w \in Workers, WorkerStep(w) \/ TakeEvent(w) PROVE HoldersListed'
  <2>1. CASE Deregister(w)
    <3>1. ctxDone[Home[w]] /\ UNCHANGED <<cpc, ctrig, ctxDone, held>>
      BY <2>1 DEF Deregister, Goto, control, LockInv, WorkersEndCancelled
    <3>2. \A j \in Instances : j # Home[w] => owned'[j] = owned[j]
      BY <2>1 DEF Deregister, TypeOK
    <3> QED BY <3>1, <3>2
  <2>2. CASE ReleaseLock(w)
    <3>1. ctxDone[Home[w]] /\ UNCHANGED <<cpc, ctrig, ctxDone, owned>>
      BY <2>2 DEF ReleaseLock, Goto, control, LockInv, WorkersEndCancelled
    <3>2. held' = held \/ held' = [held EXCEPT ![Home[w]][IdOf(w)] = IF @ = 0 THEN 0 ELSE @ - 1]
      BY <2>2 DEF ReleaseLock, Unlock
    <3>3. \A j \in Instances, id \in Ids : held'[j][id] = held[j][id] \/ (j = Home[w] /\ held'[j][id] <= 1)
      BY <3>2 DEF TypeOK
    <3> QED BY <3>1, <3>3
  <2>3. CASE ~Deregister(w) /\ ~ReleaseLock(w)
    BY <1>7, <2>3 DEF WorkerStep, TakeEvent, SubscribeSucceeds, SubscribeFails, SendEvent, WorkerStops, KeepLock,
                      StartCleanup, control
  <2> QED BY <2>1, <2>2, <2>3
<1> QED BY <1>1, <1>2, <1>3, <1>4, <1>5, <1>6, <1>7, AcquireOnce DEF Next, ControlStep

\* If triggers decode and subscribe, no session takes an advisory lock twice, which
\* the server would count: one release, by the worker that ends, frees the trigger
\* for the other instances (lock.go:45), also after restarts of the worker.
THEOREM HeldOnce ==
    ASSUME NoEarlyExit, DistinctIds
    PROVE  Spec => [](\A i \in Instances, id \in Ids : held[i][id] <= 1)
<1>1. Init => HoldersListed
  BY DEF Init, HoldersListed
<1>2. HoldersListed => \A i \in Instances, id \in Ids : held[i][id] <= 1
  BY DEF HoldersListed
<1>3. QED
  BY <1>1, <1>2, ListedStep, Typing, Registered, Locked, PTL DEF Spec

\* Where triggers have ids of their own, as service.go:221 takes for granted, an
\* update cancels the worker of the trigger it is about and of no other one: the
\* worker was looked up by the id, before other goroutines took their steps.
THEOREM UpdatesStopTheirOwn ==
    ASSUME DistinctIds
    PROVE  Spec => []UpdateStopsOwnWorker
<1>1. Init => EntriesMatch
  BY DEF Init, EntriesMatch
<1>2. ASSUME TypeOK, RegisteredInv, EntriesMatch PROVE UpdateStopsOwnWorker
  <2> SUFFICES ASSUME NEW i \in Instances, cpc[i] = "replace" PROVE job[old[i]] = ctrig[i]
    BY DEF UpdateStopsOwnWorker
  <2>1. old[i] \in Workers /\ old[i] # NoWorker
    BY <1>2, WorkerAssumption DEF RegisteredInv, NothingElseRuns, WorkersOf
  <2>2. InternalID[job[old[i]]] = InternalID[ctrig[i]]
    BY <1>2, <2>1 DEF EntriesMatch, IdOf, CurId
  <2>3. job[old[i]] \in Triggers /\ ctrig[i] \in Triggers
    BY <1>2, <2>1 DEF TypeOK
  <2>4. QED
    BY <2>2, <2>3 DEF DistinctIds
<1>3. QED
  BY <1>1, <1>2, Matching, Typing, Registered, PTL DEF Spec

----------------------------------------------------------------------------
(* The service implements TriggerOwnership. *)

\* A step of i after which i runs and holds no more than before, and which
\* does not touch what the others run and hold.
Yields(i) ==
    /\ \A w \in Workers : /\ job'[w] = job[w]
                          /\ Active(w)' => Active(w)
                          /\ Home[w] # i => (Active(w)' <=> Active(w))
    /\ \A j \in Instances, id \in Ids : j # i => held'[j][id] = held[j][id]
    /\ \A id \in Ids : held'[i][id] > 0 => held[i][id] > 0

LEMMA YieldingLeaves ==
    ASSUME TypeOK, TypeOK', RunsUnderLock', NEW i \in Instances, Yields(i)
    PROVE  Ownership!Next
<1> DEFINE stopped == {id \in Ids : i \in Runners[id] /\ i \notin Runners'[id]}
<1> DEFINE freed == {id \in Ids : held'[i][id] = 0}
<1>1. ASSUME NEW id \in Ids
      PROVE  Runners'[id] = IF id \in stopped THEN Runners[id] \ {i} ELSE Runners[id]
  <2>1. \A j \in Instances : j # i => (j \in Runners'[id] <=> j \in Runners[id])
    BY DEF Runners, Yields, WorkersOf, IdOf
  <2>2. i \in Runners'[id] => i \in Runners[id]
    BY DEF Runners, Yields, WorkersOf, IdOf
  <2>3. Runners[id] \subseteq Instances /\ Runners'[id] \subseteq Instances
    BY DEF Runners
  <2>4. CASE id \in stopped
    BY <2>1, <2>3, <2>4
  <2>5. CASE id \notin stopped
    BY <2>1, <2>2, <2>3, <2>5
  <2>6. QED
    BY <2>4, <2>5
<1>2. ASSUME NEW id \in Ids
      PROVE  Holders'[id] = IF id \in freed THEN Holders[id] \ {i} ELSE Holders[id]
  <2>1. held'[i][id] \in Nat
    BY DEF TypeOK
  <2>2. QED
    BY <2>1 DEF Holders, Yields
<1>3. ASSUME NEW id \in freed PROVE i \notin Runners'[id]
  <2>1. id \in Ids /\ ~(held'[i][id] > 0)
    OBVIOUS
  <2>2. \A w \in Workers : Active(w)' /\ Home[w] = i => IdOf(w)' # id
    BY <2>1 DEF RunsUnderLock
  <2>3. QED
    BY <2>1, <2>2 DEF Runners, WorkersOf
<1>4. Ownership!Leave(i, stopped, freed)
  <2>1. Runners' = [id \in Ids |-> IF id \in stopped THEN Runners[id] \ {i} ELSE Runners[id]]
    BY <1>1 DEF Runners
  <2>2. Holders' = [id \in Ids |-> IF id \in freed THEN Holders[id] \ {i} ELSE Holders[id]]
    BY <1>2 DEF Holders
  <2>3. QED
    BY <1>3, <2>1, <2>2 DEF Ownership!Leave
<1>5. stopped \in SUBSET Ids /\ freed \in SUBSET Ids
  OBVIOUS
<1>6. QED
  BY <1>4, <1>5 DEF Ownership!Next

LEMMA GrantTakes ==
    ASSUME TypeOK, NEW i \in Instances, AcquireGranted(i)
    PROVE  Ownership!Next \/ UNCHANGED Ownership!vars
<1>1. /\ LockFree(i, CurId(i)) /\ CurId(i) \in Ids
      /\ held' = [held EXCEPT ![i][CurId(i)] = @ + 1]
      /\ UNCHANGED <<ctxDone, wpc, job, stop>>
  BY DEF AcquireGranted, Grant, CurId, TypeOK, worker
<1>2. Runners' = Runners
  BY <1>1 DEF Runners, Active, Cancelled, IdOf, WorkersOf
<1>3. \A id \in Ids : id # CurId(i) => Holders'[id] = Holders[id]
  BY <1>1 DEF Holders, TypeOK
<1>4. Holders'[CurId(i)] = {i}
  <2>1. held[i][CurId(i)] \in Nat
    BY <1>1 DEF TypeOK
  <2>2. held'[i][CurId(i)] > 0
    BY <1>1, <2>1 DEF TypeOK
  <2>3. \A j \in Instances : j # i => held'[j][CurId(i)] = 0
    BY <1>1 DEF TypeOK, LockFree
  <2>4. QED
    BY <1>1, <2>2, <2>3 DEF Holders
<1>5. Holders[CurId(i)] \in {{}, {i}}
  BY <1>1 DEF Holders, LockFree
<1>6. Holders' = [Holders EXCEPT ![CurId(i)] = {i}]
  BY <1>1, <1>3, <1>4 DEF Holders
<1>7. CASE Holders[CurId(i)] = {}
  BY <1>1, <1>2, <1>6, <1>7 DEF Ownership!Next, Ownership!Take
<1>8. CASE Holders[CurId(i)] = {i}
  <2>1. Holders' = Holders
    BY <1>6, <1>8 DEF Holders
  <2>2. QED
    BY <1>2, <2>1 DEF Ownership!vars
<1>9. QED
  BY <1>5, <1>7, <1>8

LEMMA RegisterRuns ==
    ASSUME TypeOK, LockInv, NEW i \in Instances, Register(i)
    PROVE  Ownership!Next \/ UNCHANGED Ownership!vars
<1>1. PICK w \in Workers :
         /\ Home[w] = i /\ wpc[w] = "done"
         /\ wpc' = [wpc EXCEPT ![w] = "spawned"]
         /\ job' = [job EXCEPT ![w] = ctrig[i]]
         /\ stop' = [stop EXCEPT ![w] = FALSE]
  BY DEF Register, WorkersOf, Free
<1>2. cpc[i] = "build" /\ CurId(i) \in Ids /\ UNCHANGED <<ctxDone, held>>
  BY DEF Register, CurId, TypeOK
<1>3. Holders' = Holders
  BY <1>2 DEF Holders
<1>4. ~Active(w) /\ (Active(w)' <=> ~ctxDone[i]) /\ IdOf(w)' = CurId(i)
  BY <1>1, <1>2 DEF Active, Cancelled, IdOf, CurId, TypeOK
<1>5. \A v \in Workers : v # w => (Active(v)' <=> Active(v)) /\ IdOf(v)' = IdOf(v)
  BY <1>1, <1>2 DEF Active, Cancelled, IdOf, TypeOK
<1>6. CASE ctxDone[i]
  <2>1. Runners' = Runners
    BY <1>4, <1>5, <1>6 DEF Runners, WorkersOf
  <2>2. QED
    BY <1>3, <2>1 DEF Ownership!vars
<1>7. CASE ~ctxDone[i]
  <2>1. i \in Holders[CurId(i)]
    BY <1>2, <1>7 DEF Holders, LockInv, StartersHoldLock
  <2>2. Runners'[CurId(i)] = Runners[CurId(i)] \union {i}
    BY <1>1, <1>2, <1>4, <1>5, <1>7 DEF Runners, WorkersOf
  <2>3. \A id \in Ids : id # CurId(i) => Runners'[id] = Runners[id]
    BY <1>1, <1>4, <1>5 DEF Runners, WorkersOf
  <2>4. Runners' = [Runners EXCEPT ![CurId(i)] = @ \union {i}]
    BY <1>2, <2>2, <2>3 DEF Runners
  <2>5. QED
    BY <1>2, <1>3, <2>1, <2>4 DEF Ownership!Next, Ownership!Run
<1>8. QED
  BY <1>6, <1>7

LEMMA ControlYields ==
    ASSUME TypeOK, NoEarlyExit, RegisteredInv, LockInv, NEW i \in Instances,
           \/ Boot(i) \/ StartFails(i) \/ NextTrigger(i) \/ StartReturns(i)
           \/ AcquireBusy(i) \/ AcquireFails(i) \/ BuildFails(i)
           \/ (\E t \in Triggers : ReceiveUpdate(i, t))
           \/ Supersede(i) \/ Bail(i) \/ ListenerStops(i)
    PROVE  Yields(i)
<1> USE DEF TypeOK, Yields, Active, Cancelled
<1>1. CASE Boot(i)
  BY <1>1 DEF Boot, worker
<1>2. CASE StartFails(i)
  BY <1>2 DEF StartFails, worker
<1>3. CASE NextTrigger(i)
  BY <1>3 DEF NextTrigger, worker
<1>4. CASE StartReturns(i)
  BY <1>4 DEF StartReturns, worker
<1>5. CASE AcquireBusy(i)
  BY <1>5 DEF AcquireBusy, worker
<1>6. CASE AcquireFails(i)
  BY <1>6 DEF AcquireFails, worker
<1>7. CASE BuildFails(i) \/ Bail(i)
  BY <1>7 DEF BuildFails, Bail, NoEarlyExit, Fault, LockInv, StartersHoldLock
<1>8. CASE \E t \in Triggers : ReceiveUpdate(i, t)
  BY <1>8 DEF ReceiveUpdate, worker
<1>9. CASE Supersede(i)
  BY <1>9 DEF Supersede, RegisteredInv, NothingElseRuns, WorkersOf
<1>10. CASE ListenerStops(i)
  BY <1>10 DEF ListenerStops, worker
<1>11. QED
  BY <1>1, <1>2, <1>3, <1>4, <1>5, <1>6, <1>7, <1>8, <1>9, <1>10

LEMMA StopYields ==
    ASSUME TypeOK, RegisteredInv, NEW i \in Instances,
           CancelCtx(i) \/ ShutdownStep(i) \/ Crash(i) \/ Consume(i)
    PROVE  Yields(i)
<1> USE DEF TypeOK, Yields, Active, Cancelled
<1>1. CASE CancelCtx(i)
  BY <1>1 DEF CancelCtx, control, worker
<1>2. CASE ShutdownCancels(i)
  BY <1>2 DEF ShutdownCancels, control, RegisteredInv, EntriesAreLocal, WorkersOf
<1>3. CASE ShutdownCloses(i)
  BY <1>3 DEF ShutdownCloses, control, worker
<1>4. CASE Crash(i)
  BY <1>4 DEF Crash
<1>5. CASE Consume(i)
  BY <1>5 DEF Consume, control, worker
<1>6. QED
  BY <1>1, <1>2, <1>3, <1>4, <1>5 DEF ShutdownStep

LEMMA WorkerYields ==
    ASSUME TypeOK, NEW w \in Workers, WorkerStep(w) \/ TakeEvent(w)
    PROVE  Yields(Home[w])
<1> USE DEF TypeOK, Yields, Active, Cancelled
<1>1. CASE SubscribeSucceeds(w)
  BY <1>1 DEF SubscribeSucceeds, Goto, control
<1>2. CASE SubscribeFails(w)
  BY <1>2 DEF SubscribeFails, Goto, control
<1>3. CASE TakeEvent(w)
  BY <1>3 DEF TakeEvent, Goto, control
<1>4. CASE SendEvent(w)
  BY <1>4 DEF SendEvent, Goto, control
<1>5. CASE WorkerStops(w)
  BY <1>5 DEF WorkerStops, Goto, control
<1>6. CASE KeepLock(w)
  BY <1>6 DEF KeepLock, Goto, control, Returned
<1>7. CASE StartCleanup(w)
  BY <1>7 DEF StartCleanup, Goto, control
<1>8. CASE Deregister(w)
  BY <1>8 DEF Deregister, Goto, control
<1>9. CASE ReleaseLock(w)
  <2>1. /\ wpc[w] = "releasing" /\ wpc' = [wpc EXCEPT ![w] = "done"]
        /\ stop' = [stop EXCEPT ![w] = FALSE]
        /\ UNCHANGED <<ctxDone, job>>
    BY <1>9 DEF ReleaseLock, Goto, Returned, control
  <2>2. held' = held \/ held' = [held EXCEPT ![Home[w]][IdOf(w)] = IF @ = 0 THEN 0 ELSE @ - 1]
    BY <1>9 DEF ReleaseLock, Unlock
  <2>3. \A j \in Instances, id \in Ids : j # Home[w] => held'[j][id] = held[j][id]
    BY <2>2
  <2>4. \A id \in Ids : held'[Home[w]][id] > 0 => held[Home[w]][id] > 0
    BY <2>2, UnlockLowers DEF Unlock, IdOf
  <2>5. QED
    BY <2>1, <2>3, <2>4
<1>10. QED
  BY <1>1, <1>2, <1>3, <1>4, <1>5, <1>6, <1>7, <1>8, <1>9 DEF WorkerStep

\* Ownership passes from one instance to another only after the first has
\* stopped its worker and released the lock: every step of the instances is a
\* step of TriggerOwnership or leaves owners and runners alone.
THEOREM Implements ==
    ASSUME NoEarlyExit, DistinctIds
    PROVE  Spec => OwnershipSpec
<1>1. Init => Ownership!Init
  BY DEF Init, Ownership!Init, Holders, Runners, Active, WorkersOf
<1>2. /\ TypeOK /\ RegisteredInv /\ LockInv
      /\ TypeOK' /\ LockInv' /\ [Next]_vars
      => [Ownership!Next]_Ownership!vars
  <2>1. SUFFICES ASSUME TypeOK, RegisteredInv, LockInv, TypeOK', LockInv', [Next]_vars
                 PROVE  Ownership!Next \/ UNCHANGED Ownership!vars
    BY DEF Ownership!vars
  <2>2. \A i \in Instances : Yields(i) => Ownership!Next
    BY <2>1, YieldingLeaves DEF LockInv
  <2>3. CASE UNCHANGED vars
    BY <2>3 DEF vars, Ownership!vars, Holders, Runners, Active, Cancelled, WorkersOf, IdOf
  <2>4. ASSUME NEW i \in Instances, AcquireGranted(i) \/ Register(i)
        PROVE  Ownership!Next \/ UNCHANGED Ownership!vars
    BY <2>1, <2>4, GrantTakes, RegisterRuns
  <2>5. ASSUME NEW i \in Instances,
               \/ Boot(i) \/ StartFails(i) \/ NextTrigger(i) \/ StartReturns(i)
               \/ AcquireBusy(i) \/ AcquireFails(i) \/ BuildFails(i)
               \/ (\E t \in Triggers : ReceiveUpdate(i, t))
               \/ Supersede(i) \/ Bail(i) \/ ListenerStops(i)
        PROVE  Ownership!Next
    BY <2>1, <2>2, <2>5, NoEarlyExit, ControlYields
  <2>6. ASSUME NEW i \in Instances, CancelCtx(i) \/ ShutdownStep(i) \/ Crash(i) \/ Consume(i)
        PROVE  Ownership!Next
    BY <2>1, <2>2, <2>6, StopYields
  <2>7. ASSUME NEW w \in Workers, WorkerStep(w) \/ TakeEvent(w)
        PROVE  Ownership!Next
    BY <2>1, <2>2, <2>7, WorkerYields
  <2>8. CASE Next
    BY <2>4, <2>5, <2>6, <2>7, <2>8 DEF Next, ControlStep
  <2>9. QED
    BY <2>1, <2>3, <2>8
<1>3. QED
  BY <1>1, <1>2, Typing, Registered, Locked, PTL DEF Spec, OwnershipSpec, Ownership!Spec

----------------------------------------------------------------------------
(* What the abstract specification is worth. *)

\* Nobody shares a trigger, and nobody runs one it does not own.
Exclusive ==
    \A id \in Ids : /\ Runners[id] \subseteq Holders[id]
                    /\ \A i, j \in Holders[id] : i = j

\* TriggerOwnership is worth implementing: its steps, of any number of instances,
\* never make two owners of a trigger nor a runner that is no owner (service.go:254).
THEOREM OwnershipIsExclusive == OwnershipSpec => []Exclusive
<1>1. Ownership!Init => Exclusive
  BY DEF Ownership!Init, Exclusive
<1>2. ASSUME Exclusive, [Ownership!Next]_(Ownership!vars) PROVE Exclusive'
  <2>1. CASE UNCHANGED Ownership!vars
    BY <1>2, <2>1 DEF Exclusive, Ownership!vars
  <2>2. DOMAIN Holders = Ids /\ DOMAIN Runners = Ids
    BY DEF Holders, Runners
  <2> HIDE DEF Holders, Runners
  <2>3. ASSUME NEW i \in Instances, NEW id \in Ids, Ownership!Take(i, id) PROVE Exclusive'
    BY <1>2, <2>2, <2>3 DEF Exclusive, Ownership!Take
  <2>4. ASSUME NEW i \in Instances, NEW id \in Ids, Ownership!Run(i, id) PROVE Exclusive'
    BY <1>2, <2>2, <2>4 DEF Exclusive, Ownership!Run
  <2>5. ASSUME NEW i \in Instances, NEW stopped \in SUBSET Ids, NEW freed \in SUBSET Ids,
               Ownership!Leave(i, stopped, freed)
        PROVE  Exclusive'
    BY <1>2, <2>2, <2>5 DEF Exclusive, Ownership!Leave
  <2>6. QED
    BY <1>2, <2>1, <2>3, <2>4, <2>5 DEF Ownership!Next
<1>3. QED
  BY <1>1, <1>2, PTL DEF OwnershipSpec, Ownership!Spec
=============================================================================
