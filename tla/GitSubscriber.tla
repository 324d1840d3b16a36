---------------------------- MODULE GitSubscriber ----------------------------
(***************************************************************************)
(* The git subscriber (internal/trigger/subscribers/git/subscriber.go): it *)
(* opens or clones a repository, remembers the watched branch's commit and *)
(* the tags, and polls for others.                                         *)
(*                                                                         *)
(* The repository the trigger names has a branch and tags that its users   *)
(* change.  A local one is opened in place, with or without a remote named *)
(* origin.  Of a remote one there is a clone, whose branches, tracking     *)
(* refs and tags are its own.  What a fetch takes over is go-git's: by the *)
(* refspec of a clone the branches under refs/heads go to those under      *)
(* refs/remotes/origin, and some of the new tags follow.                   *)
(***************************************************************************)
EXTENDS Naturals, Sequences, FiniteSets, SequencesExt

CONSTANTS
    Commits,
    NoCommit,    \* of a branch that does not exist
    OddCommits,  \* commits whose object cannot be read
    Tags,        \* empty if watch_tags is false
    OddTags,     \* tags of neither a commit nor a tag object
    Kinds,       \* of "local" (without a remote), "origin" (a local one that has an origin),
                 \* "default" (a clone, of whose default branch the trigger is) and "other"
                 \* (of another branch)
    Cap,         \* capacity of the results channel
    MaxMoves,    \* bound on the changes of branch and tags
    Faults       \* "network": the remote goes away, for a while or for good

ASSUME CommitAssumption == NoCommit \notin Commits /\ OddCommits \subseteq Commits /\ OddTags \subseteq Tags
ASSUME TagAssumption == IsFiniteSet(Tags)
ASSUME KindAssumption == Kinds \subseteq {"local", "origin", "default", "other"} /\ Kinds # {}
ASSUME BoundAssumption == Cap \in Nat \ {0} /\ MaxMoves \in Nat /\ Faults \subseteq {"network"}

VARIABLES
    kind,
    head, tags,  \* the watched branch and the tags of the repository
    moves,       \* changes made to it
    online,      \* fetches are answered
    own,         \* the clone: its branch, its tracking ref, its tags
    pc,          \* the subscription
    last,        \* lastCommitSHA
    known,       \* knownTags
    pending,     \* events the goroutine is sending, the next one first
    results,     \* the channel to the trigger's worker
    first,       \* history: commit and tags the subscription began with
    sent,        \* history: the events sent on the channel
    ctxDone      \* the subscription's context is cancelled

repository == <<kind, head, tags, moves, online>>
memory == <<last, known>>
vars == <<kind, head, tags, moves, online, own, pc, last, known, pending, results, first, sent, ctxDone>>

Init ==
    /\ kind \in Kinds
    /\ head \in Commits
    /\ tags \in SUBSET Tags
    /\ moves = 0
    /\ online = TRUE
    /\ own = [branch |-> NoCommit, tracking |-> NoCommit, tags |-> {}]
    /\ pc = "off"
    /\ last = NoCommit
    /\ known = {}
    /\ pending = <<>>
    /\ results = <<>>
    /\ first = [commit |-> NoCommit, tags |-> {}]
    /\ sent = <<>>
    /\ ctxDone = FALSE

----------------------------------------------------------------------------
(* The repository's users *)

\* A commit, a forced push, a reset, the end or the return of the branch.
MoveBranch(c) ==
    /\ moves < MaxMoves /\ c # head
    /\ head' = c
    /\ moves' = moves + 1
    /\ UNCHANGED <<kind, tags, online, own, pc, memory, pending, results, first, sent, ctxDone>>

ToggleTag(g) ==
    /\ moves < MaxMoves
    /\ tags' = IF g \in tags THEN tags \ {g} ELSE tags \union {g}
    /\ moves' = moves + 1
    /\ UNCHANGED <<kind, head, online, own, pc, memory, pending, results, first, sent, ctxDone>>

\* The remote stops to answer, which leaves a fetch to fail or to hang, or answers again.
NetworkTurns ==
    /\ "network" \in Faults
    /\ online' = ~online
    /\ UNCHANGED <<kind, head, tags, moves, own, pc, memory, pending, results, first, sent, ctxDone>>

InPlace == kind \in {"local", "origin"}
HasRemote == kind # "local"

\* refs/heads/<Branch> and refs/tags/* of the repository the subscriber has open.
BranchRef == IF InPlace THEN head ELSE own.branch
TagRefs == IF InPlace THEN tags ELSE own.tags

----------------------------------------------------------------------------
(* Subscribe: openRepository and initializeState *)

\* A clone has a branch of its own for the remote's default branch only.
Clone == [branch   |-> IF kind = "default" THEN head ELSE NoCommit,
          tracking |-> head,
          tags     |-> tags]

\* A new subscriber, by a new worker, with nothing left of the last one.
Subscribe ==
    /\ pc \in {"off", "failed", "gone"}
    /\ UNCHANGED repository
    /\ own' = IF InPlace \/ ~online THEN own ELSE Clone
    /\ ctxDone' = FALSE
    /\ pending' = <<>> /\ results' = <<>> /\ sent' = <<>>
    /\ IF (InPlace \/ online) /\ BranchRef' # NoCommit
       THEN /\ pc' = "idle"
            /\ last' = BranchRef'
            /\ known' = TagRefs'
            /\ first' = [commit |-> BranchRef', tags |-> TagRefs']
       ELSE pc' = "failed" /\ UNCHANGED <<memory, first>>

----------------------------------------------------------------------------
(* The polling goroutine *)

Tick ==
    /\ pc = "idle"
    /\ pc' = "fetching"
    /\ UNCHANGED <<repository, own, memory, pending, results, first, sent, ctxDone>>

\* Without a remote there is nothing to fetch.  Which of the new tags follow depends
\* on their objects; tags that are gone are not pruned.
Fetch ==
    /\ pc = "fetching"
    /\ pc' = "fetched"
    /\ \/ ~HasRemote /\ UNCHANGED <<tags, own>>
       \/ /\ kind = "origin" /\ online /\ ~ctxDone
          /\ \E followed \in SUBSET (Tags \ tags) : tags' = tags \union followed
          /\ UNCHANGED own
       \/ /\ ~InPlace /\ online /\ ~ctxDone
          /\ \E followed \in SUBSET (tags \ own.tags) :
                own' = [own EXCEPT !.tracking = head, !.tags = @ \union followed]
          /\ UNCHANGED tags
    /\ UNCHANGED <<kind, head, moves, online, memory, pending, results, first, sent, ctxDone>>

\* Mutant: a failed fetch ends the goroutine.
FetchFailsForGood ==
    /\ pc = "fetching" /\ HasRemote
    /\ ~online \/ ctxDone
    /\ pc' = "gone"
    /\ UNCHANGED <<repository, own, memory, pending, results, first, sent, ctxDone>>

\* A tick whose fetch fails, or is cancelled, is over: it checks nothing, not even
\* a repository opened in place.
FetchFails ==
    /\ pc = "fetching" /\ HasRemote
    /\ ~online \/ ctxDone
    /\ pc' = "idle"
    /\ UNCHANGED <<repository, own, memory, pending, results, first, sent, ctxDone>>

CheckNewCommits ==
    /\ pc = "fetched"
    /\ pc' = "commits"
    /\ IF BranchRef \in OddCommits \union {last, NoCommit}
       THEN UNCHANGED <<last, pending>>
       ELSE /\ last' = BranchRef
            /\ pending' = <<<<"commit", BranchRef>>>>
    /\ UNCHANGED <<repository, own, known, results, first, sent, ctxDone>>

NewTags == TagRefs \ known

\* Mutant: a tag that is gone is forgotten.
ForgetGoneTags ==
    /\ pc = "commits" /\ pending = <<>>
    /\ pc' = "tags"
    /\ known' = TagRefs
    /\ \E order \in SetToSeqs(NewTags \ OddTags) :
        pending' = [n \in DOMAIN order |-> <<"tag", order[n]>>]
    /\ UNCHANGED <<repository, own, last, results, first, sent, ctxDone>>

\* Every new tag becomes known, one that cannot be read too, which has no event.
CheckNewTags ==
    /\ pc = "commits" /\ pending = <<>>
    /\ pc' = "tags"
    /\ known' = known \union NewTags
    /\ \E order \in SetToSeqs(NewTags \ OddTags) :
        pending' = [n \in DOMAIN order |-> <<"tag", order[n]>>]
    /\ UNCHANGED <<repository, own, last, results, first, sent, ctxDone>>

\* Mutant: an event is dropped when the channel is full.
SendOrDrop ==
    /\ pending # <<>>
    /\ pending' = Tail(pending)
    /\ IF Len(results) < Cap
       THEN /\ results' = Append(results, Head(pending))
            /\ sent' = Append(sent, Head(pending))
       ELSE UNCHANGED <<results, sent>>
    /\ UNCHANGED <<repository, own, pc, memory, first, ctxDone>>

Send ==
    /\ pending # <<>> /\ Len(results) < Cap
    /\ pending' = Tail(pending)
    /\ results' = Append(results, Head(pending))
    /\ sent' = Append(sent, Head(pending))
    /\ UNCHANGED <<repository, own, pc, memory, first, ctxDone>>

PollEnds ==
    /\ pc = "tags" /\ pending = <<>>
    /\ pc' = "idle"
    /\ UNCHANGED <<repository, own, memory, pending, results, first, sent, ctxDone>>

\* Mutant: the context is looked at between two polls only.
StopsOnlyWhenIdle ==
    /\ ctxDone /\ pc = "idle"
    /\ pc' = "gone"
    /\ UNCHANGED <<repository, own, memory, pending, results, first, sent, ctxDone>>

\* ctx.Done() between two polls, or while an event waits for room; that event
\* and the ones after it are lost.
Stop ==
    /\ ctxDone
    /\ pc = "idle" \/ pending # <<>>
    /\ pc' = "gone"
    /\ pending' = <<>>
    /\ UNCHANGED <<repository, own, memory, results, first, sent, ctxDone>>

----------------------------------------------------------------------------
(* The trigger's worker *)

Consume ==
    /\ results # <<>>
    /\ results' = Tail(results)
    /\ UNCHANGED <<repository, own, pc, memory, pending, first, sent, ctxDone>>

Cancel ==
    /\ ~ctxDone /\ pc \notin {"off", "failed", "gone"}
    /\ ctxDone' = TRUE
    /\ UNCHANGED <<repository, own, pc, memory, pending, results, first, sent>>

----------------------------------------------------------------------------
Next ==
    \/ \E c \in Commits \union {NoCommit} : MoveBranch(c)
    \/ \E g \in Tags : ToggleTag(g)
    \/ Subscribe
    \/ NetworkTurns
    \/ Tick \/ Fetch \/ FetchFails
    \/ CheckNewCommits \/ CheckNewTags
    \/ Send \/ PollEnds \/ Stop
    \/ Consume \/ Cancel

Spec == Init /\ [][Next]_vars

\* The ticker ticks, the goroutine goes on, and its select chooses at random
\* between the ticker and ctx.Done().  The worker reads until it is cancelled.  A
\* fetch ends that has no remote or that the remote answers, and one that is
\* cancelled; nothing says that the remote answers.
Fairness ==
    /\ WF_vars(Tick) /\ WF_vars(Fetch) /\ WF_vars(ctxDone /\ FetchFails)
    /\ WF_vars(CheckNewCommits) /\ WF_vars(CheckNewTags)
    /\ WF_vars(Send) /\ WF_vars(PollEnds) /\ SF_vars(Stop)
    /\ WF_vars(~ctxDone /\ Consume)

FairSpec == Spec /\ Fairness

----------------------------------------------------------------------------
Events == ({"commit"} \X Commits) \union ({"tag"} \X Tags)

TypeOK ==
    /\ kind \in Kinds
    /\ head \in Commits \union {NoCommit} /\ tags \subseteq Tags
    /\ moves \in 0..MaxMoves /\ online \in BOOLEAN
    /\ own \in [branch : Commits \union {NoCommit}, tracking : Commits \union {NoCommit}, tags : SUBSET Tags]
    /\ pc \in {"off", "failed", "idle", "fetching", "fetched", "commits", "tags", "gone"}
    /\ last \in Commits \union {NoCommit} /\ known \subseteq Tags
    /\ pending \in Seq(Events) /\ sent \in Seq(Events)
    /\ results \in Seq(Events) /\ Len(results) <= Cap
    /\ first \in [commit : Commits \union {NoCommit}, tags : SUBSET Tags]
    /\ ctxDone \in BOOLEAN

Running == pc \notin {"off", "failed", "gone"}

IsCommit(e) == e[1] = "commit"
IsTag(e) == e[1] = "tag"

\* The commit the worker was told of last, the one of the start before any.
Latest(events, c) ==
    \/ c = first.commit /\ \A n \in DOMAIN events : ~IsCommit(events[n])
    \/ \E n \in DOMAIN events :
          events[n] = <<"commit", c>> /\ \A m \in DOMAIN events : m > n => ~IsCommit(events[m])

TagsIn(events) == {g \in Tags : \E n \in DOMAIN events : events[n] = <<"tag", g>>}

\* What the subscriber remembers it has announced, or is announcing: no commit
\* and no tag is taken for known without an event, but those of the start and
\* the tags that cannot be read (subscriber.go:344, 384).
Remembered ==
    Running => /\ Latest(sent \o pending, last)
               /\ known \ (first.tags \union OddTags) = TagsIn(sent \o pending)

\* "ensures each commit/tag only triggers once" (README.md:11), for tags: also
\* one that is deleted and made again.  It does not hold of commits: a branch
\* that is reset and moved on again announces the same commit twice.
TagOnce == \A m, n \in DOMAIN sent : IsTag(sent[m]) /\ sent[m] = sent[n] => m = n

Told(c) == last = c /\ Latest(sent, c)

\* A branch that stays at a new readable commit, in the repository that is polled, is
\* announced with it.
HeadNoticed ==
    \A c \in Commits \ OddCommits :
        (Running /\ ~ctxDone /\ BranchRef = c /\ last # c) ~> (Told(c) \/ BranchRef # c \/ ctxDone)

\* A readable new tag that stays, in the repository that is polled, is announced.
TagNoticed ==
    \A g \in Tags \ OddTags :
        (Running /\ ~ctxDone /\ g \in TagRefs \ known)
            ~> (Contains(sent, <<"tag", g>>) \/ g \notin TagRefs \/ ctxDone)

\* A new commit or tag that stays and can be read is announced in the end, whatever
\* else changes, also through a full channel.  Where there is a remote, fetches may
\* fail or hang, but not for good: a tick whose fetch fails checks nothing.
NewsNoticed == (~HasRemote \/ <>[]online) => (HeadNoticed /\ TagNoticed)

\* "For remote repositories, changes are detected via polling" (README.md:217):
\* a branch that stays at a new commit, in the repository the trigger names, is
\* announced with it.
RemoteNoticed ==
    \A c \in Commits \ OddCommits :
        (Running /\ ~ctxDone /\ head = c /\ last # c) ~> (Told(c) \/ head # c \/ ctxDone)

\* Cancelling the context ends the goroutine, also one that waits for room in a
\* channel its worker no longer reads.
CancelStops == ctxDone ~> ~(ctxDone /\ Running)
=============================================================================
