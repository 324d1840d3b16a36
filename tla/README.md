# motoras: models, checks and proofs

TLA+ modules for [motoras](../src/README.md), a service that watches triggers
(git repositories, timers) and starts workflows when they fire. The modules are
translated from the Go code under `src/`; paths below are relative to
`src/internal/` unless they start with `src/`. `PROJECT.json` maps every
definition to its lines, and lists runs, mutants, findings, hazards and theorems.

To check a run: `tlc -config <run>.cfg MC<Module>.tla`. To check the proofs:
`tlapm <Module>Proofs.tla`, with `<Module>` one of `TriggerService`,
`FileSystemStore`, `PostgresStore`, `Migrations`, `GitSubscriber`, `WorkflowStore`,
`Application` and `WorkflowRun`.

## 1. The system

    RPC handlers ──write──> trigger store ──updates──> trigger service (per process)
     (server/)              mock | files |               Start, update listener,
                            PostgreSQL                   one worker per trigger
                                                            │ lock     │ events
                                              advisory locks┘          v
                                              (lock.go)          event pipeline
    git / mock subscribers ──events──> worker                   (application/)
                                                                       v
                                              workflow service: runs of steps
                                              (http, exec, container, llm, ...)

| Part | State | Operations | What is hard | What makes it correct |
|---|---|---|---|---|
| Trigger service (`trigger/service.go`) | `ownedTriggers`, event channel, contexts, wait group | Start, update listener, worker, Shutdown | goroutines interleave at every lock and channel; restart of a worker keeps its lock; shutdown in any state; process death | one runner per trigger over all instances, no send on the closed channel, shutdown ends, updates are served |
| Locker (`trigger/lock.go`) | session advisory locks | Acquire, Release | re-entrant counts, death of the session | exclusion, no lock without somebody to release it |
| File store (`trigger/store_fs.go`) | a file per trigger, watcher, channel | Add, Update, Delete, All, Subscribe, Shutdown | writes are not atomic, events are merged, the send blocks | readers see whole files, updates arrive in order, none is lost, shutdown returns |
| PostgreSQL store (`trigger/store_postgres.go`) | rows, LISTEN session, channel | the same | one connection for calls and for the wait, a channel that drops, a broken connection | as above, except what the full channel skips |
| Migrations (`store_postgres.go:246`) | `schema_migrations`, the schema | run at start | several instances at once, death between statements | recorded = effective, in order, ready only on the whole schema |
| In-memory store (`trigger/store_mock.go`) | slice, unbuffered channel | the same | drops a send nobody waits for, Add sends after its unlock, partial Update | the service knows what is stored, but for what was dropped; only an Add is overtaken |
| Git subscriber (`trigger/subscribers/git`) | last commit, known tags, clone | poll: fetch, commits, tags | remote against tracking ref against branch, a remote that goes away, cancellation between check and send | every new commit and tag announced, once |
| Mock subscriber | ticker | events until cancelled | - | inside TriggerService |
| Event pipeline (`application/application.go`) | event channel, a goroutine per event | forward, start workflow | no back pressure; the workflow is deleted or changed in between | every event is dealt with, a run gets the steps stored when it starts |
| RPC server (`server/`) | none | CRUD handlers | concurrent handlers, one of which reads what the store handed out without its lock | calls are answered as if done one by one |
| Workflow service (`workflow/service.go`, `workflow.go`) | DBOS steps, environment | StartWorkflow, run | steps run again after a crash, a failing step | steps in order, a repetition only for a death, a verdict that is true of all restarts |
| Workflow store (`workflow/store.go`) | slice | CRUD | deletes from the slice it ranges over and panics, List shares its array | answers as a map does; creating and updating do a listing no harm |
| Container step (`workflow/step_container.go`) | image, container | Execute | timeout against end against auto-removal, a daemon that fails the wait or the stop, or never answers the stop | true reports, nothing left running |
| Exec step (`workflow/step_exec*.go`) | process, its children, output, its user and group | Execute | timeout against exit, children that hold the output, which of user and group decides | success means an untouched exit with 0, a command runs as asked |
| HTTP and LLM steps (`workflow/step_http.go`, `step_llm.go`) | request | Validate, Execute | timeouts that count for one of them, answers that break off | success means a whole answer |
| If, action steps | - | Validate, Execute | - | plain steps in WorkflowRun |
| Expressions (`expression/`) | none | Parse, evaluate | a copy that shares what pointers point to, errors half way | every field is evaluated, or none |
| Config, main, generated API | - | - | - | not modelled |

## 2. Modules

| Module | Models | Composed with |
|---|---|---|
| `TriggerService` | service and lock, for several instances | refines `TriggerOwnership` |
| `TriggerOwnership` | abstract: a trigger has at most one owner, only the owner runs it | - |
| `TriggerFeed` | abstract: the service learns stored versions, never an older after a newer | - |
| `FileSystemStore`, `PostgresStore` | the two stores with the service's listener as their reader | refine `TriggerFeed` |
| `Migrations` | schema migration by several instances | - |
| `GitSubscriber` | a subscription and the repository it polls | - |
| `MockTriggerStore` | the in-memory trigger store and the service's listener | - |
| `WorkflowStore` | the store of workflows and the handlers over it | refines `WorkflowRegistry` |
| `WorkflowRegistry` | abstract: a map from ids to steps, every call done at once | - |
| `Application` | the server's callers over both stores, the start of the service, the event pipeline | extends `MockTriggerStore` and `WorkflowStore` |
| `ContainerStep` | one execution and the Docker daemon | - |
| `ExecStep` | one execution, the command and its children, its user and group | - |
| `RequestStep` | one execution of an http or llm step and its peer | - |
| `Expression` | `Parse`, a pure function, and what it should do | - |
| `WorkflowRun` | a run of a workflow, its restarts and DBOS's records | extends the three steps, whose actions are its own, and `Expression`; refines `DurableRun` |
| `DurableRun` | abstract: steps begun in order and answered once, an execution lost by a death, the verdict of the first step that stops | - |
| `<Module>Proofs` | theorems of `<Module>` | `ApplicationProofs` extends `WorkflowStoreProofs` |

`MC<Module>` modules declare the model values, the roles, the workflows, the
structs and the symmetry sets of the runs.
Operators with a comment that begins "Mutant:" are not part of a specification:
each is a plausible bug, in place of the operator next to it, that one of the
properties detects.

### TriggerService

The grain is one step between two points where another goroutine can get in.
`cpc` is the control goroutine of an instance: `Start` (starting, acquire,
build), then the update listener (listening, replace, bail), which calls the same
`startTriggerWorkerInternal`. `old` is its argument `alreadyLocked`.
`ReceiveUpdate` looks up the entry, `Supersede` uses it later: between the two
the worker may have ended. A worker (`wpc`) is spawned, running, sending, then
exiting; `KeepLock` and `StartCleanup` are the two outcomes of its one read of
`skipCleanup`; `Deregister` and `ReleaseLock` are separate steps, as in the
deferred function. Advisory locks count per session; the model bounds the count
by `MaxHold`. A cancelled worker may still send (Go's select is free to);
`Active` is a worker that is not cancelled.

### FileSystemStore

`os.WriteFile` truncates and writes: `WriteBegins` and `WriteEnds` (or
`WriteFails`, under `Faults = {"disk"}`), with the mutex held across both.
`Report` is fsnotify: a report per change, merged with an equal unread one. The
watcher takes an event, reads the file under the read lock, and then sends
without it: `TakeEvent`, `ReadFile`, `Send`. `Subscribe` first stores the fsnotify
watcher and then starts the goroutine, in two steps, since `Shutdown`, which has no
guard and takes no lock, may come before, between or after them: `watched` is what
it finds. `SendPanics` is the send on the channel that a premature Shutdown closed;
`called` notes what the service was doing when Shutdown was called.

### PostgresStore

The database serialises commits; `Notify` is migration 002's trigger. `CanQuery`
says when a call gets the store's connection: not while the listener is inside
`WaitForNotification` (pgx answers "conn busy"), which the test at
`trigger/service_test.go:99` works around. Shutdown and the end of the context come
at any moment, also before `Subscribe`. `skipped` is a history variable: the
newest version a full channel made the store skip.

### Migrations

No lock is taken. `Execute` waits (`Blocked`) while another transaction has
created the same objects, and fails once they exist (`ExecuteFails`), because
the SQL is plain `CREATE TABLE` and `CREATE TRIGGER`. `staged` is what an open
transaction has done; `Abort` drops it. `CREATE TABLE IF NOT EXISTS` looks and
creates in two steps, and can fail against another session.

### GitSubscriber

`head` and `tags` are the repository the trigger names, `own` the clone. `kind` is
"local" (opened in place, no remote), "origin" (opened in place, with a remote of
that name), "default" or "other" (a clone, watched on its default or another
branch). In place the subscriber reads `head` itself. For a clone, `Fetch` moves
`own.tracking` (refs/remotes/origin) while `CheckNewCommits` reads `own.branch`
(refs/heads). Which tags follow a fetch is go-git's affair and left open.
`Tick` begins a poll, which for all kinds but "local" needs the remote: while it is
not `online` the fetch fails, or hangs until it is cancelled, and the tick checks
nothing (`FetchFails`).

### ContainerStep

The path of `Execute` from the pull policy to the answer, and the daemon
(`Exit`, `Remove`). `Wait` notes whether the daemon got the wait while the
container existed; the three outcomes of the select are three actions. The wait may fail by
itself (`WaitFails`, the fault "wait": a lost daemon) and a status may carry
an error (`StatusComes`). After `TimeoutComes` the step is "stopping" until
`StopReturns` or `StopFails` (fault "stop"), which return the same answer. `failed`
is a history variable: which of the two calls the daemon failed.

### MockTriggerStore

`Add` is two steps, the append and, after the unlock, the send; `Update` and
`Delete` are one, since they hold the mutex throughout. `Offer` is the select with
a default: the service takes the trigger if it waits at that moment (`svc =
"waiting"`), and otherwise the trigger is dropped and noted in `missed`. The
service is `LoadAll`, `Subscribe`, and then a listener that is waiting or busy.
Ids are not compared, so a trigger may be stored twice: `Update` and `Delete` act
on its first row, loading ends with the last. `tangled` names the triggers for
which calls overlapped. The store does not implement `TriggerFeed`, because an
`Add` may arrive late.

### WorkflowStore

A Go slice is a window of length `size` on a backing array, the last of `arrays`.
`Appended` writes behind the window or moves to an array twice as large; `Without`
moves the rest of the window down in place. `DeleteWorkflow` then goes on in a
loop made for the old length: unless the row was the last it panics, and the
caller is answered `"aborted"` with the row gone and the mutex released. `List`
hands out the window and its handler reads it slot by slot without the lock, the
id (`ListReadsId`) and the steps (`ListReadsSteps`) not at one moment, from an
array the store may have outgrown meanwhile. The other calls hold the lock and
are one action each. Steps are known by the number of the call that stored them.

### Application

`role` says what a caller calls: triggers, workflows, listings, or `direct`, the
trigger store without an application, as the tests use it. The server listens
after `Start` of the trigger service has returned (`Serving`). `Emit` is a worker
that sends, `Forward` the goroutine that ranges over the channel, `Route` the one
it starts for the event: it looks the workflow up at that moment. The tests and
`main` differ in one more way: a direct caller's context may end and its store
may be shut down, `main` hands down a context without an end.

### RequestStep

`provider` chooses among the step's requests; `limited` is the client's timeout,
which an http step has unless it is negative, and an llm step never: the SDKs of
OpenAI and Anthropic, with their retries, are external and taken to have no limit.
For http the header and the body come separately (`HeaderComes`, `BodyRead`), any
status is an answer; for the SDKs a status is an error.

### Expression

A struct is a sequence of fields, each with its kind, its tag and a text of
pieces. `Parse` copies the struct and evaluates the copy field by field; what a
pointer points to is shared with the input, so that it is changed in both, also by
what was done before an error. With an error the copy is dropped. Slices are not
gone through: the templates of a container's volumes are never evaluated.
`Exact` says what should come of it, without the order of evaluation. `IsStruct` is
the structs the model has: nested one level, as the steps' are.

### ExecStep

`Credential` is the user and group of the isolation: a user known by number and
without an account gets group 0, a group alone gets user 0, and
`validateIsolationSupport`, which would refuse more, is not called by anything.
`cmd.Run` needs the command to be reaped (`Reap`) and its output to be closed
(`~held`). `Kill` is os/exec's watcher of the context: it can also hit a command
that has exited and is not yet reaped. A child inherits the output (`StartChild`)
and is not killed.

### WorkflowRun

A run goes from the event (`WorkflowMissing`, `RunWorkflow`) round the loop of
`steps`: `Validate` or `ValidateFails`, `Execute`, the step's own actions,
`StepReturns`, `RecordStep`, `Proceed` or `StopAtError`. `Execute` makes the
variables of the step it starts new and evaluates its fields (`read`) in the
environment; `values` says by number of which execution the answers there are.
DBOS is external: `recorded`, `snap` (the environment that is recorded with an
answer) and `verdict` are its database, `Replay` its answer from there. `Crash` is possible everywhere;
`Recover` calls `run` again, with a new environment. A container outlives the
program (`Daemon`) and is forgotten by the next execution, as in the code. The variables of
a container, command or request are those of the last step of its kind.

As a `DurableRun`, a run has `recorded` for its answers, `InHand` (the step that is executed,
until its answer is recorded) and `Accepted` (the steps with a name no earlier step has); replays, the steps' own
actions and deaths between steps are stutters.

## 3. Runs

Sizes are distinct states; a run takes a minute or two at most.

| Run | Instance | Shows |
|---|---|---|
| `locks` | 2 instances, 1 trigger, 2 worker slots for one instance and 1 for the other, deaths, failing database; 403k | `SingleRunner`, `RunsUnderLock`, `RestartKeepsLock`, `NoOrphanLock`, refinement of `TriggerOwnership` |
| `lifecycle` | 1 instance, 1 trigger, 2 slots, channel of 1, db/decode/subscribe/release/feed faults; 26k | `ClosedIsQuiet`, `ActiveIsRegistered`, `ShutdownCompletes`, `SupersededWorkerEnds`, `UpdateIsServed` |
| `fs_store` | 1 trigger, 2 handlers, 3 versions, failing writes, no watcher to be had, Shutdown and cancellation at any moment, channel of 2; 141k | `NoSendOnClosed`, `LoadSeesWholeFiles`, refinement of `TriggerFeed`, `UpdatesArrive`, `ShutdownReturnsIfRead` |
| `pg_store` | 2 triggers, 2 versions each, channel of 1, broken connection, Shutdown and cancellation at any moment; 215k | `NothingLost`, refinement of `TriggerFeed`, `UpdatesArrive`, `CtxEndsListener` |
| `migrations` | 3 instances, 3 migrations, deaths and restarts; 733k | `RecordedIsEffective`, `InOrder`, `ReadyIsMigrated`; `SomeoneReady` |
| `git_events` | local repositories without and with an origin, and clones, 3 commits and 3 tags (1 of each unreadable), 2 changes, a remote that goes away; 365k | `Remembered`, `TagOnce`, `NewsNoticed` (of heads and tags), `CancelStops` |
| `application` | 2 callers in 3 assignments of roles, 2 triggers with 3 writes each, 2 workflows, 4 calls (6 beside a listing), 2 events, channel of 1; 293k | `ServiceIsCurrent`, `ListingSound`, `OnlyAddIsOvertaken`, refinement of `WorkflowRegistry`, `EventsRouted` |
| `workflow_run` | 15 workflows of 2 or 3 steps, every kind of step, two steps of a kind, container policy and setting, every fault of image, container, wait, stop and logs, timeouts, 2 deaths; 1.02M | `KeptExitSucceeds`, `TrueAnswers`, `ParseIsExact`, `ReadsRecorded`, `OneRepeatPerCrash`, `VerdictIsTrue`, refinement of `DurableRun`, `RunEnds` |

Four more runs end in a counterexample: section 4. The type invariants are parts
of the inductive invariants of section 5 and are proved, not run.

Why the bounds are enough. A conflict over a lock needs two instances and one
trigger; a worker and its replacement need two slots. A second trigger matters
only for the map of workers, where the theorems of section 5 cover any number and
`zero_ids` has two, and for who is served first (`pg_store`, `application`). Two
deaths interrupt a run and its repetition. Of workflows, two are what a deletion
needs to move one, and six calls what an array needs to be outgrown and a slot to
be used again while a listing is read; one caller each suffices, since all calls
but `List` are done at once. `ParseIsExact` also evaluates `SmallStructs`: every
kind of field with every tag, alone, nested and beside another, in environments
of none, one or two names. `MaxHold = 2` is one more than a session ever holds
while triggers decode and subscribe (theorem `HeldOnce`), so a doubled lock would show; and
where restarts may double locks, a bound above the number of slots is never reached (`BoundIsNoBound`). Channels of
one or two events are full at once, which is the interesting case; order in a
channel needs two. Two versions make an update stale, three make one overtake
another. Two changes of a repository are what a branch needs to leave a commit and
come back, or a tag to go and be made again; a fetch into a repository opened in
place adds tags beside them. No run uses a state constraint: every bound (`MaxHold`, `Cap`,
`MaxWrites`, `MaxEvents`, `MaxMoves`, `MaxCrashes`, `MaxCalls`, `MaxEdits`) is a guard of an action or a capacity the
code has.

Deadlock is not checked where the system may stop: instances that shut down,
stores that have been written `MaxWrites` times, steps that returned.

Fairness. A goroutine that can run does (weak fairness). Where a Go select
chooses at random among ready cases, a case that is ready again and again is
chosen (strong fairness on it). `ReadFile` and the like have strong fairness
because a mutex is not withheld for ever. Nothing is assumed of clients, of the
users of a repository, of containers, commands and peers, nor (but for the bounded
deaths of `workflow_run`) of a process that might be restarted.
The git subscriber's worker reads until it is cancelled (`~ctxDone /\ Consume`)
and then may leave the channel full. A remote need never answer: a fetch is fair
only while the remote is there, and `NewsNoticed` has that it comes back for good
(`<>[]online`) as its premise, for the kinds that have a remote. In the application the goroutine that ranges over
the events and those it starts are scheduled (`Forward`, `Route`). Where a step has
a timeout it strikes (`Expire`, `Deadline`, `TimeIsUp`). The calls to the Docker
daemon made under `containerCtx` return when it ends, at the latest (`Prepare`,
`Launch`, `Await`, `Report`); nothing is assumed of a daemon that is silent till
then. `ContainerStop` runs under `context.Background()` (`step_container.go:250`):
it is under no fairness (`DaemonMay`), nor is a wait that fails by itself, and
`RunEnds` excepts a run that a stop keeps for ever. A
specification with fairness has the reachable states of the one without, so the
invariants checked beside liveness properties do not rest on fairness.

## 4. Findings

Each is a run that ends with the counterexample. What holds of the same code without the
cause is proved: the last column names the theorem.

| Run | Where | What | Without the cause |
|---|---|---|---|
| `restart_failure` | `trigger/service.go:219` | a restart that does not decode gives up the lock and leaves the entry; the next update runs the trigger without the lock, beside another instance | `MutualExclusion`: triggers that decode and subscribe |
| `zero_ids` | `trigger/service.go:207` | the in-memory store sets no `InternalID`: an update of one trigger stops the worker of another | `UpdatesStopTheirOwn`: distinct ids |
| `git_remote_commits` | `trigger/subscribers/git/subscriber.go:318` | a clone's branch never moves: no remote commit is announced | - (`NewsNoticed`, of branches and tags the subscriber reads, is model-checked; of a clone it says something of tags only) |
| `container_timeout` | `workflow/step_container.go:238` | the select may take the wait's error when the timeout strikes, and the container runs on | `EndsInTime`: until the timeout strikes, and if the wait does not fail by itself |

Fourteen more oddities, most against the documents, are in the models but have no run
of their own; what still holds beside them is checked:

- `trigger/service.go:295`: a worker whose `Subscribe` fails may read
  `skipCleanup` before the listener sets it, and then releases the lock its
  successor relies on. `RestartKeepsLock` holds without `Faults = {"subscribe"}`
  (`locks`, theorem `RestartsKeepLocks`) and not with it.
- `trigger/store_fs.go:214`: the blocking send looks at no context, so Shutdown
  waits for ever once the service has stopped and the channel is full.
  `ShutdownReturnsIfRead` is what is left.
- `trigger/store_fs.go:217`: Shutdown has no guard. Called before `Subscribe`, as by a
  caller that gives up while the service starts, it closes the update channel, and
  the watcher that is started later panics on it (`SendPanics`); called in the middle
  of `Subscribe` it may wait for ever for a watcher it did not find to close.
  `NoSendOnClosed`, `ShutdownReturnsIfRead` and theorem `ClosedLast` hold of a Shutdown
  after `Subscribe` has returned (`Premature`). The PostgreSQL store has `stopCh` for
  this and no such case (theorem `ClosedLast` of `PostgresStoreProofs`).
- `trigger/store_postgres.go:210`: the wait "with timeout" (209) has none, so
  Shutdown under a live context waits for the next notification.
  `CtxEndsListener` is what is left.
- `trigger/subscribers/git/subscriber.go:327`: only the last commit is remembered,
  so a branch that is reset and moved on announces commits again, against
  "Deduplication" (`git/README.md:11`). `TagOnce` states it of tags, and theorem
  `AnnouncesChanges` what is left for commits: never the same one twice in a row, and first not
  the one the subscription began with.
- `trigger/subscribers/git/subscriber.go:141`: a failing fetch ends the tick, also
  in a repository that is opened in place and only happens to have an origin (290):
  while that is out of reach, commits made there are not announced. `NewsNoticed`
  has the return of the remote as its premise.
- `workflow/step_container.go:238`: any error of the wait, as of a lost daemon, and a
  status with an error beside exit code 0 (244) make a failed step of a container
  that ends well, and the first one leaves the container running.
  `KeptExitSucceeds` and `EndsInTime` except a failed wait.
- `workflow/step_container.go:250`: the error of `ContainerStop` is dropped, so the step
  says "timed out" of a container that may run on, and the call has no limit:
  a daemon that does not answer it keeps the run. `TrueReport` excepts the first
  and `RunEnds` the second.
- `workflow/step_container.go:259`: with `auto_remove` the logs are asked for after
  Docker may have removed the container: a good container, a failed step.
  `KeptExitSucceeds` is the part without it.
- `workflow/step_exec.go:149`: the timeout (`EXEC_STEP.md:246`) kills the command
  only; a process it left in the background keeps the output open and `cmd.Run`
  waiting, for ever or until a late success. `RunEnds` excepts it, as it does a
  silent peer that an llm step asks, or an http step with a negative timeout.
- `workflow/store.go:72`: `Delete` panics unless the workflow was the last of the
  slice. The row is gone all the same: `ImplementsRegistry` has a deletion that is
  done and answered with an abort. `ListingSound` excepts listings whose array a
  deletion moves.
- `workflow/step_exec_isolation_linux.go:64`: a group without a user makes the
  command run as user 0, and a user without a group with that user's primary group
  (55, for a number without an account group 0), where the document has "current user"
  and "current group" (`EXEC_STEP.md:256-257`). `RunsAsAsked` states the user and the
  group where each is named and leaves the other one open.
- `expression/expression.go:17`: "without modifying the original" does not hold of
  what a pointer points to (an exec step's isolation): the copy shares it. `Exact`
  describes the sharing.
- `workflow/step_container.go:181`: an absent `auto_remove` is false, not true as
  documented (`CONTAINER_STEP.md:250`); `AutoRemove` has the code's meaning.

Known and left without a property, because the code promises nothing: a trigger
locked by another instance is not taken over when that one stops
(`service.go:259`); a trigger stored between `All` and `Subscribe` is not seen
(`service.go:152`); nobody is told of a deletion; a cancelled worker may still
send one event (`service.go:335`).

Seen while reading, and outside the models: the in-memory store's `Update` keeps the
type and workflow of the row and sends the new ones to the service
(`store_mock.go:86`, which is why `Emit` leaves the workflow open); `HTTP.Validate`
writes its default method into the shared step (`step_http.go:46`); the body of an http
step has no `expression` tag (`step_http.go:22`; one that is a string is evaluated, at
72), so the templates in an object body that `EXEC_STEP.md:219-228` shows are sent as
they are written; the goroutines
of the event pipeline assign one `err` (`application.go:87`); the Linux isolation
sets a field `Rlimit` of `syscall.SysProcAttr` (`step_exec_isolation_linux.go:78`),
which Go's standard library does not have, and is modelled as it is written.

## 5. Proofs

TLAPS checks these for any number of instances, triggers, workers and migrations,
any workflow, any capacity and any bound.

`TriggerServiceProofs`:

- `Typing`: `TypeOK`, under all faults.
- `Quiet`: `ClosedIsQuiet`. Inductive with what makes it so: a draining Shutdown
  has a cancelled context, and a control goroutine past `Start` counts in the wait
  group.
- `OneWorkerPerInstance`: `ActiveIsRegistered`, assuming `DistinctIds` (two
  triggers have two primary keys; without it `zero_ids` refutes it). The inductive
  invariant is `RegisteredInv`: `ActiveIsRegistered` alone is not kept by the
  start of a worker, which overwrites an entry; one has to know that the worker
  there was stopped, that a trigger about to be started has no running worker, and
  that an instance that is down has nothing.
- `WorkersHoldLocks`, `RestartsKeepLocks`, `MutualExclusion`: `RunsUnderLock`,
  `RestartKeepsLock`, `SingleRunner`, assuming also `NoEarlyExit` (triggers decode
  and subscribe; with "decode" `restart_failure` refutes `SingleRunner`, and with
  "subscribe" a late exit breaks `RestartKeepsLock`, see section 4). The
  inductive invariant is `LockInv`: an entry of `ownedTriggers` stands for a held
  lock, whoever starts a worker holds it, and a worker that ends was cancelled, so
  that it gives the lock up only when its whole service stops. `SingleRunner`
  follows: two runners of one trigger are in one instance, which has one entry.
- `NoLockIsOrphaned`: `NoOrphanLock`, assuming `DistinctIds` and `ReleasesWork`
  (triggers decode, releases work: with "release" a lock stays with the session).
  By counting: `LocksAreOwed` says that a session holds a lock at most as often as
  there are workers that have yet to give it up, plus one for whoever is about to
  start a worker; a worker that leaves releases once. `EntriesMatch` ties the
  entries to their workers. The slots of workers are a finite set. `BoundIsNoBound`
  is the same count, against the model's bound on it.
- `UpdatesStopTheirOwn`: `UpdateStopsOwnWorker` from `EntriesMatch`, assuming `DistinctIds`.
- `HeldOnce`: an advisory lock is never held twice, assuming also `NoEarlyExit`: by `HoldersListed`
  a lock that is held has its entry, so nobody asks the database for it again.
- `Implements`: `OwnershipSpec` under the same assumptions. Every action either
  takes a free lock (`Take`), registers a worker under a held one (`Run`), or only
  stops workers and frees locks (`Leave`). `OwnershipIsExclusive` says what that is worth:
  the abstract specification alone keeps a trigger to one owner.

`MigrationsProofs`: `Typing`, and `Bookkeeping`, `Ordering` and `Completeness`
(`RecordedIsEffective`, `InOrder`, `ReadyIsMigrated`) from `MigrationInv`, whose
`Progress` says what an instance knows at each step, and whose `NoTwoCreate` that
at most one open transaction has a version's objects.

`WorkflowRunProofs`, for any workflows (also with many steps of a kind) and any number of deaths:

- `Truthful`, `TrueVerdict` (`TrueAnswers`, `VerdictIsTrue`) from `RunInv`. A true verdict
  alone is not inductive: one has to know that what a step will answer is settled before it
  answers (`ContainerKnows`: past the wait, exit code and error say how the container ended;
  `CommandKnows`: a command that made its step succeed is reaped, so nothing can kill it),
  that an answer stays true until a later step of its kind takes its variables, and its step
  is not executed again (`AnswersKnown`), and where the loop is among the recorded answers and
  the names (`PlaceKnown`, `NamesKnown`).
- `KeptExits` (`KeptExitSucceeds`) is from `ContainerKnows` too; `ReadsWhatIsRecorded`
  (`ReadsRecorded`) needs that the values in the environment are those recorded with
  the answers before, whether the steps were executed or replayed.
- `RunsDurably`: the refinement of `DurableRun`. Its steps are found per action (`DurableStep`); that a
  verdict of error has its step needs `StoppedThere`: the loop breaks off only at a failed
  step or a refused name, behind steps that were ok. `Ordered` (`StepsInOrder`) and `RecordsAreFinal` (answers,
  values and verdict on record never change) say it of the program's own variables.
- `RepeatsOnlyAfterCrash` (`OneRepeatPerCrash`): the sum of all executions grows by one with
  a step's execution (`TotalGrows`), and is never more than the recorded answers, the deaths, and one for an
  execution under way. Facts about the sum, a recursive function, are shown at a least counterexample.
- `ParsesExactly` (`ParseIsExact`): `Parse` meets `Exact` for every struct of the kind
  `StructAssumption` and `PlanAssumption` name (nested one level) and every environment. The loop over the fields is followed to
  the first that fails, the least number with the property (`WFMin`, `LeastExists`, `UpTo`).
- `Truthful` and `KeptExits` are about what the daemon does not fail in: a container that
  timed out is stopped unless `ContainerStop` failed, a kept one that ends with 0 makes
  its step succeed unless the wait failed (`failed`).
- `EndsInTime`: until the timeout strikes, and if the wait does not fail by itself, a step
  that returned has left no container running (`InTime`).

`FileSystemStoreProofs`: `Typing`, `ClosedLast`, `WholeFiles`, `Implements` (`TypeOK`, `NoSendOnClosed`,
`LoadSeesWholeFiles`, refinement of `TriggerFeed`) from `FileInv`: a file that is
there holds the newest version of its trigger (`FileIsNewest`), so what the watcher
reads is never older than what it has sent (`Ordered`); a torn file is being
written under the mutex or was left by a failure (`TornIsExplained`). `ClosedLast`
is about a Shutdown that finds `Subscribe` returned or failed: none is started after
it and it waits for the watcher that was (`WaitedFor`).

`PostgresStoreProofs`: `Typing`, `ClosedLast` (a Shutdown at any moment closes the channel
under no listener that still sends), `Delivery`, `Implements` (`TypeOK`, `NothingLost`,
refinement of `TriggerFeed`) from `StoreInv`: notifications, the one in the
listener's hands and the channel are one queue with increasing versions (`Queued`),
newer than what was skipped and not older than what is known (`AllDue`). For both stores
`FeedNeverGoesBack` says what the refinement means: the version known of a trigger never
decreases and was stored.

`GitSubscriberProofs`: `Typing`, `RemembersNews`, `AnnouncesTagsOnce` (`TypeOK`, `Remembered`, `TagOnce`),
`AnnouncesChanges`, `AnnouncesNoOldTags` (no tag that was there at the start is announced)
from `GitInv`, which is about the events sent and those about to be sent together:
a step that sends moves one from the second to the first.

`WorkflowStoreProofs`: `StoreIsRegistry`, the refinement of `WorkflowRegistry`, from
`SliceInv` (`Window`: an id is in one slot, with steps that were stored for it) and
`Listings`: the array of a listing is the slice's, or an outgrown one nobody writes.

`ApplicationProofs`: `KnowsWhatIsStored`, `UpdatesKeepOrder` (`ServiceIsCurrent`,
`OnlyAddIsOvertaken`) from `TriggerInv`: a trigger whose calls do not overlap has one
row, which an Add that has yet to send is about. `Linearizable` and
`ListsWhatWasStored` (`ImplementsRegistry`, `ListingSound`) carry the theorems of
the workflow store over to the application, event pipeline included.

Only model-checked: all liveness properties (fairness and ENABLED are beyond the
prover), among them `SomeoneReady` and `EventsRouted`. Every safety property a
passing run checks is also a theorem.

Assumptions about constants are named in the module that declares them, and TLC
evaluates them in every run.

## 6. Not modelled, and why

- Configuration, `main`, generated API and protobuf: no behaviour of their own
  beyond wiring, except the cancelled context, which is `CancelCtx`.
- Decoding of requests, which refuses them before a store is called, decoding of
  subscriber configuration, the choice of git credentials (`getAuth`), logging,
  metrics, formatting: data the properties do not tell apart.
- Decoding of steps from JSON, and `gob`, with which DBOS records answers: that a
  recording may fail is part of what is external.
- A database session lost while its process lives (`lock.go:30`): nothing in the
  code reacts, so two instances would run one trigger. PostgresStore has the loss
  for the listener, where the code does react.
- What the SDKs, expr-lang, go-git, fsnotify, DBOS, Docker and PostgreSQL do inside;
  they are modelled from how the code uses them and marked external in the map.
- The mock subscriber's ticker and payload, and the registry of subscriber types,
  which only init functions write.
- Namespaces and limits of the exec step: kernel calls; one more way for its
  preparation to fail.
- What an execution that died left behind (a container, a command, a request):
  no code looks for it.

## 7. Order of work, and what is left

The modules were written in the order in which a fault would do most harm: the
trigger service and its locks; the stores that feed it, against one abstract feed;
migrations; subscribers; runs with their steps; the application around them.

Left to do:

1. A composition of `TriggerService` with a store's feed: an update that is stored
   ends in a worker started for that version. Both sides are checked against the
   channel between them, `TriggerFeed` on one and `UpdateIsServed` on the other.
2. Runs of several workflows at once. They share nothing but DBOS and the step
   specifications (`step_http.go:46`), so `WorkflowRun` has one.

New components join an existing run where they interact with one (as the steps
joined `workflow_run`), so that a run stays one question about the system.
