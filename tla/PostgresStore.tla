---------------------------- MODULE PostgresStore ----------------------------
(***************************************************************************)
(* The PostgreSQL trigger store (internal/trigger/store_postgres.go): rows *)
(* of the triggers table, a NOTIFY per insert and update (migration 002),  *)
(* and a goroutine that waits for notifications on the store's one         *)
(* connection and offers them to the service.                              *)
(*                                                                         *)
(* A row's content is the number of its version.  The connection carries   *)
(* one call at a time: while the listener waits on it, pgx answers any     *)
(* other call with "conn busy".  Other instances have their own.           *)
(***************************************************************************)
EXTENDS Naturals, Sequences, SequencesExt

CONSTANTS
    Triggers,
    MaxWrites,   \* bound on the writes of one trigger
    Cap,         \* capacity of updateCh
    Faults       \* "connection": the store's connection breaks

ASSUME BoundAssumption == MaxWrites \in Nat \ {0} /\ Cap \in Nat \ {0} /\ Faults \subseteq {"connection"}

VARIABLES
    ver,       \* versions of a trigger committed so far
    row,       \* the trigger is in the table
    conn,      \* the connection: ok, lost
    listening, \* the session is in LISTEN trigger_updates
    notes,     \* notifications on their way to the listener
    lpc,       \* where the listener goroutine is
    cur,       \* the notification it handles
    updateCh,  \* updates on their way to the service
    svc,       \* the service: starting, loaded, failed, listening, stopped
    got,       \* the version of a trigger the service knows
    since,     \* history: versions committed when the service subscribed
    skipped,   \* history: the newest version a full channel made the store skip
    ctxDone,   \* the context is cancelled
    shut       \* the store's Shutdown

table == <<ver, row>>
session == <<conn, listening>>
listener == <<lpc, cur>>
service == <<svc, got, since>>
vars == <<ver, row, conn, listening, notes, lpc, cur, updateCh, svc, got, since, skipped, ctxDone, shut>>

Init ==
    /\ ver \in [Triggers -> 0..1]
    /\ row = [t \in Triggers |-> ver[t] = 1]
    /\ conn = "ok"
    /\ listening = FALSE
    /\ notes = <<>>
    /\ lpc = "off"
    /\ cur \in Triggers \X {0}
    /\ updateCh = <<>>
    /\ svc = "starting"
    /\ got = [t \in Triggers |-> 0]
    /\ since = ver
    /\ skipped = [t \in Triggers |-> 0]
    /\ ctxDone = FALSE
    /\ shut = "no"

----------------------------------------------------------------------------
(* Add, Update, Delete: by this store, or by another connection *)

Connections == {"own", "other"}

CanQuery(by) == by = "other" \/ (conn = "ok" /\ lpc # "wait")

\* The AFTER INSERT OR UPDATE trigger: the notification is sent on commit, in
\* commit order, to every session that listens, the writer's included.
Notify(t) ==
    notes' = IF listening /\ conn = "ok" THEN Append(notes, <<t, ver[t] + 1>>) ELSE notes

Commit(t) ==
    /\ ver[t] < MaxWrites
    /\ ver' = [ver EXCEPT ![t] = @ + 1]
    /\ Notify(t)
    /\ UNCHANGED <<session, listener, updateCh, service, skipped, ctxDone, shut>>

\* A row of that id is a unique key violation.
Add(by, t) == CanQuery(by) /\ ~row[t] /\ row' = [row EXCEPT ![t] = TRUE] /\ Commit(t)

\* No row of that id is ErrTriggerNotFound.
Update(by, t) == CanQuery(by) /\ row[t] /\ Commit(t) /\ UNCHANGED row

Delete(by, t) ==
    /\ CanQuery(by) /\ row[t]
    /\ row' = [row EXCEPT ![t] = FALSE]
    /\ UNCHANGED <<ver, session, notes, listener, updateCh, service, skipped, ctxDone, shut>>

LoseConnection ==
    /\ "connection" \in Faults /\ conn = "ok"
    /\ conn' = "lost"
    /\ listening' = FALSE
    /\ notes' = <<>>
    /\ UNCHANGED <<table, listener, updateCh, service, skipped, ctxDone, shut>>

----------------------------------------------------------------------------
(* The service's calls: All, Subscribe, and its update listener *)

\* Both are given the context.
LoadAll ==
    /\ svc = "starting"
    /\ IF conn = "ok" /\ ~ctxDone
       THEN svc' = "loaded" /\ got' = [t \in Triggers |-> IF row[t] THEN ver[t] ELSE 0]
       ELSE svc' = "failed" /\ UNCHANGED got
    /\ UNCHANGED <<table, session, notes, listener, updateCh, since, skipped, ctxDone, shut>>

\* Mutant: the goroutine is started, LISTEN is not sent.
SubscribeWithoutListen ==
    /\ svc = "loaded"
    /\ svc' = "listening" /\ lpc' = "check" /\ since' = ver
    /\ UNCHANGED <<table, session, notes, cur, updateCh, got, skipped, ctxDone, shut>>

Subscribe ==
    /\ svc = "loaded"
    /\ IF conn = "ok" /\ ~ctxDone
       THEN /\ svc' = "listening" /\ lpc' = "check" /\ since' = ver
            /\ listening' = TRUE
       ELSE svc' = "failed" /\ UNCHANGED <<lpc, since, listening>>
    /\ UNCHANGED <<table, conn, notes, cur, updateCh, got, skipped, ctxDone, shut>>

Receive ==
    /\ svc = "listening" /\ updateCh # <<>>
    /\ got' = [got EXCEPT ![Head(updateCh)[1]] = Head(updateCh)[2]]
    /\ updateCh' = Tail(updateCh)
    /\ UNCHANGED <<table, session, notes, listener, svc, since, skipped, ctxDone, shut>>

\* ctx.Done(), or the update channel is closed and empty.
ListenerStops ==
    /\ svc = "listening"
    /\ ctxDone \/ (shut = "closed" /\ updateCh = <<>>)
    /\ svc' = "stopped"
    /\ UNCHANGED <<table, session, notes, listener, updateCh, got, since, skipped, ctxDone, shut>>

CancelCtx ==
    /\ ~ctxDone
    /\ ctxDone' = TRUE
    /\ UNCHANGED <<table, session, notes, listener, updateCh, service, skipped, shut>>

----------------------------------------------------------------------------
(* listenForUpdates *)

Check ==
    /\ lpc = "check"
    /\ lpc' = IF shut # "no" \/ ctxDone THEN "gone" ELSE "wait"
    /\ UNCHANGED <<table, session, notes, cur, updateCh, service, skipped, ctxDone, shut>>

\* Mutant: only the newest of the notifications that arrived is taken.
WaitTakesNewest ==
    /\ lpc = "wait" /\ notes # <<>>
    /\ lpc' = "send"
    /\ cur' = Last(notes)
    /\ notes' = <<>>
    /\ UNCHANGED <<table, session, updateCh, service, skipped, ctxDone, shut>>

\* Mutant: the newest notification first.
WaitTakesLast ==
    /\ lpc = "wait" /\ notes # <<>>
    /\ lpc' = "send"
    /\ cur' = Last(notes)
    /\ notes' = Front(notes)
    /\ UNCHANGED <<table, session, updateCh, service, skipped, ctxDone, shut>>

WaitReturns ==
    /\ lpc = "wait" /\ notes # <<>>
    /\ lpc' = "send"
    /\ cur' = Head(notes)
    /\ notes' = Tail(notes)
    /\ UNCHANGED <<table, session, updateCh, service, skipped, ctxDone, shut>>

\* Mutant: the wait is not given the context.
WaitFailsOnLossOnly ==
    /\ lpc = "wait" /\ conn = "lost"
    /\ lpc' = "check"
    /\ UNCHANGED <<table, session, notes, cur, updateCh, service, skipped, ctxDone, shut>>

\* A broken connection fails at once, every time: the loop spins.
WaitFails ==
    /\ lpc = "wait"
    /\ ctxDone \/ conn = "lost"
    /\ lpc' = IF ctxDone THEN "gone" ELSE "check"
    /\ UNCHANGED <<table, session, notes, cur, updateCh, service, skipped, ctxDone, shut>>

\* A full channel makes the store skip the update.
Send ==
    /\ lpc = "send"
    /\ lpc' = "check"
    /\ IF Len(updateCh) < Cap
       THEN updateCh' = Append(updateCh, cur) /\ UNCHANGED skipped
       ELSE skipped' = [skipped EXCEPT ![cur[1]] = cur[2]] /\ UNCHANGED updateCh
    /\ UNCHANGED <<table, session, notes, cur, service, ctxDone, shut>>

----------------------------------------------------------------------------
(* Shutdown *)

\* UNLISTEN fails when the listener has the connection; the error is ignored.  It
\* may be called at any time: a listener started later finds stopCh closed.
ShutdownBegins ==
    /\ shut = "no"
    /\ shut' = "closing"
    /\ listening' = (listening /\ ~CanQuery("own"))
    /\ UNCHANGED <<table, conn, notes, listener, updateCh, service, skipped, ctxDone>>

ShutdownEnds ==
    /\ shut = "closing" /\ lpc \in {"off", "gone"}
    /\ shut' = "closed"
    /\ UNCHANGED <<table, session, notes, listener, updateCh, service, skipped, ctxDone>>

----------------------------------------------------------------------------
Next ==
    \/ \E by \in Connections, t \in Triggers : Add(by, t) \/ Update(by, t) \/ Delete(by, t)
    \/ LoseConnection
    \/ LoadAll \/ Subscribe \/ Receive \/ ListenerStops \/ CancelCtx
    \/ Check \/ WaitReturns \/ WaitFails \/ Send
    \/ ShutdownBegins \/ ShutdownEnds

Spec == Init /\ [][Next]_vars

\* The listener goroutine, the service and Shutdown go on.  The service's
\* select chooses at random between an update and ctx.Done().
Fairness ==
    /\ WF_vars(Check) /\ WF_vars(WaitReturns) /\ WF_vars(WaitFails) /\ WF_vars(Send)
    /\ WF_vars(Receive) /\ SF_vars(ListenerStops)
    /\ WF_vars(ShutdownEnds)

FairSpec == Spec /\ Fairness

----------------------------------------------------------------------------
Notices == Triggers \X (1..MaxWrites)

TypeOK ==
    /\ ver \in [Triggers -> 0..MaxWrites]
    /\ row \in [Triggers -> BOOLEAN]
    /\ conn \in {"ok", "lost"}
    /\ listening \in BOOLEAN
    /\ notes \in Seq(Notices)
    /\ lpc \in {"off", "check", "wait", "send", "gone"}
    /\ cur \in Triggers \X (0..MaxWrites) /\ (lpc = "send" => cur \in Notices)
    /\ updateCh \in Seq(Notices) /\ Len(updateCh) <= Cap
    /\ svc \in {"starting", "loaded", "failed", "listening", "stopped"}
    /\ got \in [Triggers -> 0..MaxWrites]
    /\ since \in [Triggers -> 0..MaxWrites]
    /\ skipped \in [Triggers -> 0..MaxWrites]
    /\ ctxDone \in BOOLEAN
    /\ shut \in {"no", "closing", "closed"}

\* The service never goes back to an older version of a trigger, and knows only
\* versions that were committed.
Feed == INSTANCE TriggerFeed WITH stored <- ver
ImplementsFeed == Feed!Spec

\* Where the newest version of a trigger may be.
OnItsWay(t) ==
    \/ Contains(notes, <<t, ver[t]>>)
    \/ lpc = "send" /\ cur = <<t, ver[t]>>
    \/ Contains(updateCh, <<t, ver[t]>>)

\* While the service listens, the newest version of every trigger written since
\* it subscribed is known to it or on its way, unless the channel was full when
\* the notification of that very version came (store_postgres.go:230).
NothingLost ==
    svc = "listening" /\ conn = "ok" /\ ~ctxDone /\ shut = "no" =>
        \A t \in Triggers :
            ver[t] = since[t] \/ skipped[t] = ver[t] \/ got[t] = ver[t] \/ OnItsWay(t)

\* A version committed after the service subscribed reaches it, unless the
\* store skips it, the connection breaks, or the service or the store stops.
UpdatesArrive ==
    \A t \in Triggers, v \in 1..MaxWrites :
        (ver[t] = v /\ svc = "listening" /\ since[t] < v)
            ~> \/ got[t] >= v \/ skipped[t] >= v
               \/ conn = "lost" \/ svc # "listening" \/ shut # "no"

\* Cancelling the context ends the listener goroutine, also when it spins on a
\* broken connection.  Shutdown alone does not: the wait has no timeout, and
\* stopCh is looked at only between two waits.
CtxEndsListener == (ctxDone /\ lpc # "off") ~> (lpc = "gone")
=============================================================================
