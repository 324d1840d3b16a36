----------------------------- MODULE WorkflowStore -----------------------------
(***************************************************************************)
(* The store of workflows (internal/workflow/store.go) and the RPC         *)
(* handlers over it (internal/server/workflow.go).                         *)
(*                                                                         *)
(* The store is a Go slice: a window of length size on a backing array.    *)
(* Append writes behind the window, or moves to a larger array when there  *)
(* is no room; Delete moves the rest of the window down in place.  List    *)
(* hands the window out and its handler reads it without the lock.  Calls  *)
(* that hold the lock from begin to end are one action, answer included.   *)
(***************************************************************************)
EXTENDS Naturals, Sequences, SequencesExt

CONSTANTS
    Workflows,   \* the ids of workflows
    NilId,       \* the nil UUID
    Callers,     \* goroutines that handle RPCs
    MaxEdits     \* bound on the calls that store steps

ASSUME WorkflowAssumption == NilId \notin Workflows /\ MaxEdits \in Nat

VARIABLES
    arrays,    \* every backing array so far, the slice's the last of them
    size,      \* the length of the slice
    owner,     \* history: of each call that stored steps, the workflow
    answer,    \* the last answer: its code, the id, the steps it shows
    begun,     \* the workflow and the steps of the run that was started last
    listing    \* a List a handler reads out, or NoListing

rowVars == <<arrays, size, owner>>
workflowVars == <<rowVars, answer, begun, listing>>

Blank == [id |-> NilId, steps |-> 0]

\* A listing: its array and length, the id read before the steps of the same
\* slot, the rows read; history: the ids at its start, and whether a deletion
\* moved rows in its array.
NoListing == [array |-> 0, length |-> 0, half |-> NilId, out |-> <<>>, ids |-> <<>>, moved |-> FALSE]

WorkflowInit ==
    /\ arrays = <<<<>>>> /\ size = 0
    /\ owner = <<>>
    /\ answer = <<"none", NilId, 0>>
    /\ begun = <<NilId, 0>>
    /\ listing = [c \in Callers |-> NoListing]

Array == Last(arrays)
Rows == SubSeq(Array, 1, size)
PlacesOf(w) == {n \in 1..size : Array[n].id = w}
Stored(w) == PlacesOf(w) # {}
StepsOf(w) == IF Stored(w) THEN Array[CHOOSE n \in PlacesOf(w) : \A k \in PlacesOf(w) : n <= k].steps ELSE 0

Idle(c) == listing[c] = NoListing
Answer(code, w, n) == answer' = <<code, w, n>>

----------------------------------------------------------------------------
(* Create *)

\* append: behind the window if the array has room, else in a copy twice as large.
Appended(row) ==
    IF size < Len(Array)
    THEN arrays' = [arrays EXCEPT ![Len(arrays)][size + 1] = row]
    ELSE arrays' = Append(arrays,
             [n \in 1..(IF size = 0 THEN 1 ELSE 2 * size) |->
                  IF n <= size THEN Array[n] ELSE IF n = size + 1 THEN row ELSE Blank])

\* With an id from the manifest, or one that is generated and not in use.
CreateWorkflow(c, w) ==
    /\ Idle(c) /\ Len(owner) < MaxEdits /\ ~Stored(w)
    /\ owner' = Append(owner, w) /\ size' = size + 1
    /\ Appended([id |-> w, steps |-> Len(owner) + 1])
    /\ Answer("ok", w, 0)
    /\ UNCHANGED <<begun, listing>>

CreateRefused(c, w) ==
    /\ Idle(c) /\ Stored(w)
    /\ Answer("internal", w, 0)
    /\ UNCHANGED <<rowVars, begun, listing>>

----------------------------------------------------------------------------
(* Get, Update and Delete *)

GetWorkflow(c, w) ==
    /\ Idle(c)
    /\ CASE w = NilId -> Answer("internal", w, 0)
         [] w # NilId /\ ~Stored(w) -> Answer("not_found", w, 0)
         [] w # NilId /\ Stored(w) -> Answer("ok", w, StepsOf(w))
    /\ UNCHANGED <<rowVars, begun, listing>>

\* Mutant: the row is taken out and put in again.
UpdateByMoving(c, w) ==
    /\ Idle(c) /\ Len(owner) < MaxEdits /\ Stored(w)
    /\ owner' = Append(owner, w)
    /\ arrays' = [arrays EXCEPT ![Len(arrays)] =
           SelectSeq(Rows, LAMBDA row : row.id # w) \o <<[id |-> w, steps |-> Len(owner) + 1]>>
               \o SubSeq(Array, size + 1, Len(Array))]
    /\ Answer("ok", w, 0)
    /\ UNCHANGED <<size, begun, listing>>

\* Every row of the id gets the steps; the ids of the manifest are not looked at.
UpdateWorkflow(c, w) ==
    /\ Idle(c) /\ Len(owner) < MaxEdits /\ Stored(w)
    /\ owner' = Append(owner, w)
    /\ arrays' = [arrays EXCEPT ![Len(arrays)] =
           [n \in DOMAIN Array |-> IF n \in PlacesOf(w) THEN [Array[n] EXCEPT !.steps = Len(owner) + 1] ELSE Array[n]]]
    /\ Answer("ok", w, 0)
    /\ UNCHANGED <<size, begun, listing>>

\* The rest of the window moves down; the slot behind it keeps what it had.
Without(n) == [k \in DOMAIN Array |-> IF k \in n..(size - 1) THEN Array[k + 1] ELSE Array[k]]

\* The loop was made for the old length: unless the row was the last it reads
\* past the end and panics, the row removed and the mutex released.
DeleteWorkflow(c, w) ==
    /\ Idle(c) /\ Stored(w)
    /\ \E n \in PlacesOf(w) :
          /\ \A k \in PlacesOf(w) : n <= k
          /\ arrays' = [arrays EXCEPT ![Len(arrays)] = Without(n)]
          /\ Answer(IF n = size THEN "ok" ELSE "aborted", w, 0)
    /\ size' = size - 1
    /\ listing' = [d \in Callers |->
           IF listing[d].array = Len(arrays) THEN [listing[d] EXCEPT !.moved = TRUE] ELSE listing[d]]
    /\ UNCHANGED <<owner, begun>>

NoSuchWorkflow(c, w) ==
    /\ Idle(c) /\ ~Stored(w)
    /\ Answer("not_found", w, 0)
    /\ UNCHANGED <<rowVars, begun, listing>>

----------------------------------------------------------------------------
(* Start: the service gets the workflow and has DBOS run it *)

\* Mutant: the service keeps a workflow it has started once.
StartCached(w) ==
    /\ Stored(w)
    /\ begun' = IF begun[1] = w THEN begun ELSE <<w, StepsOf(w)>>

StartWorkflow(w) ==
    /\ Stored(w)
    /\ begun' = <<w, StepsOf(w)>>

StartByCall(c, w) ==
    /\ Idle(c)
    /\ StartWorkflow(w)
    /\ Answer("ok", w, 0)
    /\ UNCHANGED <<rowVars, listing>>

\* The nil id, or a run that DBOS cannot record.
StartFails(c, w) ==
    /\ Idle(c) /\ (w = NilId \/ Stored(w))
    /\ Answer("internal", w, 0)
    /\ UNCHANGED <<rowVars, begun, listing>>

----------------------------------------------------------------------------
(* List *)

ListBegins(c) ==
    /\ Idle(c)
    /\ listing' = [listing EXCEPT ![c] =
           [NoListing EXCEPT !.array = Len(arrays), !.length = size,
                             !.ids = [n \in 1..size |-> Array[n].id]]]
    /\ UNCHANGED <<rowVars, answer, begun>>

Slot(l) == arrays[l.array][Len(l.out) + 1]

\* A slot is read without the lock, and not in one piece: a write that comes
\* between the id and the steps makes a row of two.
ListReadsId(c) ==
    LET l == listing[c] IN
    /\ Len(l.out) < l.length /\ l.half = NilId
    /\ listing' = [listing EXCEPT ![c].half = Slot(l).id]
    /\ UNCHANGED <<rowVars, answer, begun>>

ListReadsSteps(c) ==
    LET l == listing[c] IN
    /\ l.half # NilId
    /\ listing' = [listing EXCEPT ![c].out = Append(@, [id |-> l.half, steps |-> Slot(l).steps]),
                                  ![c].half = NilId]
    /\ UNCHANGED <<rowVars, answer, begun>>

ListEnds(c) ==
    /\ ~Idle(c) /\ Len(listing[c].out) = listing[c].length
    /\ listing' = [listing EXCEPT ![c] = NoListing]
    /\ UNCHANGED <<rowVars, answer, begun>>

----------------------------------------------------------------------------
WorkflowCall(c) ==
    \/ \E w \in Workflows :
          \/ CreateWorkflow(c, w) \/ CreateRefused(c, w)
          \/ UpdateWorkflow(c, w) \/ DeleteWorkflow(c, w) \/ StartByCall(c, w)
    \/ \E w \in Workflows \union {NilId} : GetWorkflow(c, w) \/ StartFails(c, w) \/ NoSuchWorkflow(c, w)

ListCall(c) == ListBegins(c) \/ ListReadsId(c) \/ ListReadsSteps(c) \/ ListEnds(c)

WorkflowNext == \E c \in Callers : WorkflowCall(c) \/ ListCall(c)

WorkflowSpec == WorkflowInit /\ [][WorkflowNext]_workflowVars

----------------------------------------------------------------------------
\* Deletions that panic, arrays that are outgrown and copies that are handed out
\* notwithstanding, every call on workflows is answered by what is stored at one
\* moment, and runs get the steps that are stored (store.go, server/workflow.go).
Registry == INSTANCE WorkflowRegistry WITH
    Ids <- Workflows, Versions <- 1..MaxEdits, NilId <- NilId,
    reg <- [w \in Workflows |-> StepsOf(w)], answer <- answer, begun <- begun

ImplementsRegistry == Registry!RegSpec

\* A listing that no deletion overtook shows the workflows stored at its start,
\* each once and in order, with steps that are its own, although it reads them
\* while others create and update (store.go:110, server/workflow.go:117).
ListingSound ==
    \A c \in Callers :
        LET l == listing[c] IN
        ~l.moved =>
            \A n \in DOMAIN l.out :
                /\ l.out[n].id = l.ids[n]
                /\ l.out[n].steps \in DOMAIN owner /\ owner[l.out[n].steps] = l.ids[n]
================================================================================
