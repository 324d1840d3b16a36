---------------------------- MODULE WorkflowRegistry ----------------------------
(***************************************************************************)
(* What the RPCs on workflows promise together: a map from ids to steps,   *)
(* every call done at once and answered for what it found, and runs that   *)
(* take the steps registered when they start.                              *)
(*                                                                         *)
(* Abstract specification; WorkflowStore implements it with a slice.  The  *)
(* steps of a workflow are known by the number of the call that stored     *)
(* them; 0 stands for no steps.                                            *)
(***************************************************************************)
EXTENDS Naturals

CONSTANTS
    Ids,
    Versions,  \* the numbers of calls that store steps
    NilId      \* an id that parses and that no workflow has

VARIABLES
    reg,      \* the steps registered under an id
    answer,   \* the last answer: its code, the id, the steps it shows
    begun     \* the workflow and the steps of the run that was started last

regVars == <<reg, answer, begun>>

Registered == {w \in Ids : reg[w] # 0}

RegInit ==
    /\ reg = [w \in Ids |-> 0]
    /\ answer = <<"none", NilId, 0>>
    /\ begun = <<NilId, 0>>

Answer(code, w, n) == answer' = <<code, w, n>>

RegCreate(w, n) ==
    /\ w \notin Registered
    /\ reg' = [reg EXCEPT ![w] = n]
    /\ Answer("ok", w, 0) /\ UNCHANGED begun

RegUpdate(w, n) ==
    /\ w \in Registered /\ n # reg[w]
    /\ reg' = [reg EXCEPT ![w] = n]
    /\ Answer("ok", w, 0) /\ UNCHANGED begun

\* A deletion that is done may still end in an abort (store.go:75).
RegDelete(w) ==
    /\ w \in Registered
    /\ reg' = [reg EXCEPT ![w] = 0]
    /\ Answer("ok", w, 0) \/ Answer("aborted", w, 0)
    /\ UNCHANGED begun

RegGet(w) ==
    /\ w \in Registered
    /\ Answer("ok", w, reg[w]) /\ UNCHANGED <<reg, begun>>

\* A run that an event asks for is started without an answer.
RegStart(w) ==
    /\ w \in Registered
    /\ begun' = <<w, reg[w]>>
    /\ Answer("ok", w, 0) \/ UNCHANGED answer
    /\ UNCHANGED reg

\* No such workflow; one more of that id, a run that cannot be recorded, or nil.
RegRefuses(w) ==
    /\ \/ w \notin Registered /\ Answer("not_found", w, 0)
       \/ w \in Registered \union {NilId} /\ Answer("internal", w, 0)
    /\ UNCHANGED <<reg, begun>>

RegNext ==
    \E w \in Ids \union {NilId} :
        \/ RegRefuses(w)
        \/ w # NilId /\ (RegDelete(w) \/ RegGet(w) \/ RegStart(w))
        \/ w # NilId /\ \E n \in Versions : RegCreate(w, n) \/ RegUpdate(w, n)

RegSpec == RegInit /\ [][RegNext]_regVars
===============================================================================
