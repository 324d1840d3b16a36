--------------------------- MODULE MockTriggerStore ---------------------------
(***************************************************************************)
(* The in-memory trigger store (internal/trigger/store_mock.go), which the *)
(* application uses: a slice under a mutex and an unbuffered channel to    *)
(* the service, on which a send that finds nobody waiting is dropped.      *)
(*                                                                         *)
(* A write of a trigger is known by its number, and a row by the write its *)
(* name and data are of.  Its type and workflow, which Update leaves as    *)
(* they were added, are left out.  The service is the update listener: it  *)
(* loads, subscribes, and then waits or is busy with an update.            *)
(***************************************************************************)
EXTENDS Naturals, Sequences, SequencesExt

CONSTANTS
    Triggers,
    NoTrigger,
    Clients,     \* goroutines that call Add, Update and Delete
    MaxWrites    \* bound on the writes of one trigger

ASSUME TriggerAssumption == NoTrigger \notin Triggers
ASSUME BoundAssumption == MaxWrites \in Nat

VARIABLES
    ver,      \* writes of a trigger so far
    rows,     \* the slice: an id and the write its data is of
    msg,      \* the trigger and write that a client has yet to send
    svc,      \* the service: starting, loaded, busy, waiting, stopped
    got,      \* the write of a trigger the service learnt of last, 0 for none
    missed,   \* history: the triggers whose last write was not received
    created,  \* history: the writes of a trigger that were an Add
    tangled,  \* history: triggers that were added while stored, or written
              \* while being added
    ctxDone,  \* the context is cancelled
    closed    \* Shutdown closed the channel

store == <<ver, rows, created>>
vars == <<ver, rows, msg, svc, got, missed, created, tangled, ctxDone, closed>>

Nothing == <<NoTrigger, 0>>

Init ==
    /\ ver = [t \in Triggers |-> 0]
    /\ rows = <<>>
    /\ msg = [c \in Clients |-> Nothing]
    /\ svc = "starting"
    /\ got = [t \in Triggers |-> 0]
    /\ missed = {}
    /\ created = [t \in Triggers |-> {}]
    /\ tangled = {}
    /\ ctxDone = FALSE /\ closed = FALSE

RowsOf(t) == {n \in DOMAIN rows : rows[n].id = t}
FirstRow(n, t) == n \in RowsOf(t) /\ \A k \in RowsOf(t) : n <= k
LastRow(n, t) == n \in RowsOf(t) /\ \A k \in RowsOf(t) : k <= n
BeingAdded(t) == \E c \in Clients : msg[c][1] = t

\* The select of Add and Update.  On a closed channel the send panics, after the
\* row is stored, and the handler's mutex is released all the same.
Offer(t, v) ==
    IF svc = "waiting" /\ ~ctxDone /\ ~closed
    THEN /\ svc' = "busy"
         /\ got' = [got EXCEPT ![t] = v]
         /\ missed' = missed \ {t}
    ELSE missed' = missed \union {t} /\ UNCHANGED <<svc, got>>

----------------------------------------------------------------------------
(* Add, in two steps, for it sends after it has released the mutex *)

\* Ids are the clients' and not compared: a trigger may be stored twice.
AddBegins(c, t) ==
    /\ msg[c] = Nothing /\ ver[t] < MaxWrites
    /\ LET v == ver[t] + 1 IN
          /\ ver' = [ver EXCEPT ![t] = v]
          /\ rows' = Append(rows, [id |-> t, data |-> v])
          /\ msg' = [msg EXCEPT ![c] = <<t, v>>]
          /\ created' = [created EXCEPT ![t] = @ \union {v}]
    /\ tangled' = IF RowsOf(t) # {} \/ BeingAdded(t) THEN tangled \union {t} ELSE tangled
    /\ UNCHANGED <<svc, got, missed, ctxDone, closed>>

AddEnds(c) ==
    /\ msg[c] # Nothing
    /\ msg' = [msg EXCEPT ![c] = Nothing]
    /\ Offer(msg[c][1], msg[c][2])
    /\ UNCHANGED <<store, tangled, ctxDone, closed>>

----------------------------------------------------------------------------
(* Update and Delete, under the mutex from begin to end *)

\* Mutant: the loop changes its copy of the row.
UpdateOfCopy(c, t) ==
    /\ msg[c] = Nothing /\ ver[t] < MaxWrites /\ RowsOf(t) # {}
    /\ ver' = [ver EXCEPT ![t] = @ + 1]
    /\ tangled' = IF BeingAdded(t) THEN tangled \union {t} ELSE tangled
    /\ Offer(t, ver[t] + 1)
    /\ UNCHANGED <<rows, msg, created, ctxDone, closed>>

\* Mutant: like Add, Update sends after it has released the mutex.
UpdateSendsLater(c, t) ==
    /\ msg[c] = Nothing /\ ver[t] < MaxWrites /\ RowsOf(t) # {}
    /\ ver' = [ver EXCEPT ![t] = @ + 1]
    /\ \E n \in DOMAIN rows : FirstRow(n, t) /\ rows' = [rows EXCEPT ![n].data = ver[t] + 1]
    /\ msg' = [msg EXCEPT ![c] = <<t, ver[t] + 1>>]
    /\ tangled' = IF BeingAdded(t) THEN tangled \union {t} ELSE tangled
    /\ UNCHANGED <<svc, got, missed, created, ctxDone, closed>>

\* Without a row Update returns ErrTriggerNotFound.
Update(c, t) ==
    /\ msg[c] = Nothing /\ ver[t] < MaxWrites /\ RowsOf(t) # {}
    /\ ver' = [ver EXCEPT ![t] = @ + 1]
    /\ \E n \in DOMAIN rows : FirstRow(n, t) /\ rows' = [rows EXCEPT ![n].data = ver[t] + 1]
    /\ tangled' = IF BeingAdded(t) THEN tangled \union {t} ELSE tangled
    /\ Offer(t, ver[t] + 1)
    /\ UNCHANGED <<msg, created, ctxDone, closed>>

\* The first row of the id; the service is not told.
Delete(c, t) ==
    /\ msg[c] = Nothing /\ RowsOf(t) # {}
    /\ \E n \in DOMAIN rows : FirstRow(n, t) /\ rows' = RemoveAt(rows, n)
    /\ tangled' = IF BeingAdded(t) THEN tangled \union {t} ELSE tangled
    /\ UNCHANGED <<ver, msg, svc, got, missed, created, ctxDone, closed>>

----------------------------------------------------------------------------
(* The service *)

\* Of a trigger that is stored twice the worker of the later row is registered.
LoadAll ==
    /\ svc = "starting"
    /\ svc' = "loaded"
    /\ \E last \in [Triggers -> 0..Len(rows)] :
          /\ \A t \in Triggers : IF RowsOf(t) = {} THEN last[t] = 0 ELSE LastRow(last[t], t)
          /\ got' = [t \in Triggers |-> IF last[t] = 0 THEN 0 ELSE rows[last[t]].data]
    /\ missed' = {}
    /\ UNCHANGED <<store, msg, tangled, ctxDone, closed>>

\* The listener's goroutine is started; it does not wait yet.
Subscribe ==
    /\ svc = "loaded"
    /\ svc' = "busy"
    /\ UNCHANGED <<store, msg, got, missed, tangled, ctxDone, closed>>

\* Back at the select, with no sender that waits.
Wait ==
    /\ svc = "busy" /\ ~ctxDone /\ ~closed
    /\ svc' = "waiting"
    /\ UNCHANGED <<store, msg, got, missed, tangled, ctxDone, closed>>

ListenerStops ==
    /\ svc \in {"busy", "waiting"} /\ (ctxDone \/ closed)
    /\ svc' = "stopped"
    /\ UNCHANGED <<store, msg, got, missed, tangled, ctxDone, closed>>

CancelCtx ==
    /\ ~ctxDone
    /\ ctxDone' = TRUE
    /\ UNCHANGED <<store, msg, svc, got, missed, tangled, closed>>

Shutdown ==
    /\ ~closed
    /\ closed' = TRUE
    /\ UNCHANGED <<store, msg, svc, got, missed, tangled, ctxDone>>

----------------------------------------------------------------------------
Handler(c) ==
    \/ AddEnds(c)
    \/ \E t \in Triggers : AddBegins(c, t) \/ Update(c, t) \/ Delete(c, t)

Next ==
    \/ \E c \in Clients : Handler(c)
    \/ LoadAll \/ Subscribe \/ Wait \/ ListenerStops
    \/ CancelCtx \/ Shutdown

Spec == Init /\ [][Next]_vars

----------------------------------------------------------------------------
\* The service goes back to an older write of a trigger only if that is an Add,
\* which another call overtook between its unlock and its send; the updates of
\* a trigger, sent under the mutex, keep their order (store_mock.go:66, 48).
OnlyAddIsOvertaken ==
    [][svc # "starting" =>
          \A t \in Triggers : got'[t] < got[t] => got'[t] \in created[t]]_vars

\* What the service knows of a stored trigger's name and data is what is stored,
\* also after deletions and new additions, unless the last write found the
\* service busy (store_mock.go:86), an Add has yet to send, or calls for one
\* trigger overlapped.
ServiceIsCurrent ==
    svc # "starting" =>
        \A n \in DOMAIN rows :
            LET t == rows[n].id IN
            t \in missed \union tangled \/ BeingAdded(t) \/ rows[n].data = got[t]
===============================================================================
