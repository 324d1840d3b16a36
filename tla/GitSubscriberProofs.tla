------------------------- MODULE GitSubscriberProofs -------------------------
(***************************************************************************)
(* Proofs about GitSubscriber, for any repository, any kind of clone, any  *)
(* capacity and any number of changes, under failing fetches.              *)
(*                                                                         *)
(* The invariants are about what the subscriber has announced or is about  *)
(* to: Send only moves an event from one to the other, a poll adds news at *)
(* the end, and what is cut off by Stop was never announced.               *)
(***************************************************************************)
EXTENDS GitSubscriber, FiniteSetTheorems, TLAPS

Announced == sent \o pending

Once(events) == \A m, n \in DOMAIN events : IsTag(events[m]) /\ events[m] = events[n] => m = n

Phases == pending # <<>> => pc \in {"commits", "tags"}

\* What was there at the start is known for good.
StartKnown == Running => first.tags \subseteq known

GitInv == TypeOK /\ Phases /\ StartKnown /\ Once(Announced) /\ Remembered

----------------------------------------------------------------------------
LEMMA EventIs ==
    /\ \A e \in Events : IsTag(e) => \E g \in Tags : e = <<"tag", g>>
    /\ \A e \in Events : IsTag(e) <=> ~IsCommit(e)
    /\ \A c \in Commits : <<"commit", c>> \in Events /\ IsCommit(<<"commit", c>>) /\ ~IsTag(<<"commit", c>>)
    /\ \A g \in Tags : <<"tag", g>> \in Events /\ IsTag(<<"tag", g>>) /\ ~IsCommit(<<"tag", g>>)
  BY DEF Events, IsTag, IsCommit

LEMMA ConcatIs ==
    ASSUME NEW T, NEW s \in Seq(T), NEW t \in Seq(T)
    PROVE  /\ s \o t \in Seq(T) /\ Len(s) \in Nat /\ Len(t) \in Nat
           /\ DOMAIN (s \o t) = 1..(Len(s) + Len(t)) /\ DOMAIN s = 1..Len(s) /\ DOMAIN t = 1..Len(t)
           /\ \A n \in 1..Len(s) : (s \o t)[n] = s[n] /\ s[n] \in T
           /\ \A n \in 1..Len(t) : (s \o t)[Len(s) + n] = t[n] /\ t[n] \in T
  OBVIOUS

LEMMA MoveOne ==
    ASSUME NEW T, NEW s \in Seq(T), NEW t \in Seq(T), t # <<>>
    PROVE  /\ Head(t) \in T /\ Tail(t) \in Seq(T) /\ Append(s, Head(t)) \in Seq(T)
           /\ Append(s, Head(t)) \o Tail(t) = s \o t
  OBVIOUS

LEMMA EmptyEnd ==
    ASSUME NEW T, NEW s \in Seq(T)
    PROVE  s \o <<>> = s /\ <<>> \in Seq(T)
  OBVIOUS

\* An order of a finite set has every element, and none twice.
LEMMA OrderOfSet ==
    ASSUME NEW S, IsFiniteSet(S), NEW order \in SetToSeqs(S)
    PROVE  /\ order \in Seq(S)
           /\ \A i, j \in DOMAIN order : order[i] = order[j] => i = j
           /\ \A x \in S : \E i \in DOMAIN order : order[i] = x
<1> DEFINE n == Cardinality(S)
<1>1. n \in Nat
  BY FS_CardinalityType
<1>2. order \in [1..n -> S] /\ \A i, j \in 1..n : i # j => order[i] # order[j]
  BY DEF SetToSeqs
<1>3. IsFiniteSet(1..n) /\ Cardinality(1..n) = n
  BY <1>1, FS_Interval
<1>4. order \in Injection(1..n, S)
  BY <1>2 DEF Injection, IsInjective
<1>5. order \in Surjection(1..n, S)
  <2> HIDE DEF n
  <2>1. Cardinality(1..n) = Cardinality(S)
    BY <1>3 DEF n
  <2>2. QED
    BY <1>4, <2>1, FS_Injection
<1>6. \A x \in S : \E i \in 1..n : order[i] = x
  BY <1>5 DEF Surjection
<1> HIDE DEF n
<1>7. order \in Seq(S)
  BY <1>1, <1>2
<1>8. QED
  BY <1>2, <1>6, <1>7

----------------------------------------------------------------------------
(* What news at the end of a history does to it *)

LEMMA NewCommit ==
    ASSUME NEW s \in Seq(Events), Once(s), NEW c \in Commits
    PROVE  LET all == s \o <<<<"commit", c>>>>
           IN  /\ <<<<"commit", c>>>> \in Seq(Events)
               /\ Once(all) /\ Latest(all, c) /\ TagsIn(all) = TagsIn(s)
<1> DEFINE e == <<"commit", c>>
           all == s \o <<e>>
<1>1. e \in Events /\ IsCommit(e) /\ ~IsTag(e)
  BY EventIs
<1>2. \A g : e # <<"tag", g>>
  OBVIOUS
<1>3. /\ <<e>> \in Seq(Events) /\ DOMAIN s = 1..Len(s) /\ DOMAIN all = 1..(Len(s) + 1) /\ Len(s) \in Nat
      /\ \A n \in 1..Len(s) : all[n] = s[n]
      /\ all[Len(s) + 1] = e
  <2> HIDE DEF e
  <2>1. <<e>> \in Seq(Events) /\ Len(<<e>>) = 1 /\ <<e>>[1] = e
    BY <1>1
  <2>2. QED
    BY <2>1, ConcatIs
<1>4. Once(all)
  <2> HIDE DEF e, all
  <2>1. \A m \in DOMAIN all : m \in DOMAIN s \/ m = Len(s) + 1
    BY <1>3
  <2>2. QED
    BY <1>1, <1>3, <2>1 DEF Once
<1>5. Latest(all, c)
  <2>1. all[Len(s) + 1] = <<"commit", c>> /\ Len(s) + 1 \in DOMAIN all
    BY <1>3
  <2>2. \A m \in DOMAIN all : ~(m > Len(s) + 1)
    BY <1>3
  <2>3. QED
    BY <2>1, <2>2 DEF Latest
<1>6. TagsIn(all) = TagsIn(s)
  <2> HIDE DEF e, all
  <2>1. \A n \in DOMAIN all : n \in DOMAIN s \/ n = Len(s) + 1
    BY <1>3
  <2>2. \A n \in DOMAIN s : n \in DOMAIN all /\ all[n] = s[n]
    BY <1>3
  <2>3. ASSUME NEW g \in Tags
        PROVE  (\E n \in DOMAIN all : all[n] = <<"tag", g>>) <=> \E n \in DOMAIN s : s[n] = <<"tag", g>>
    <3>1. all[Len(s) + 1] # <<"tag", g>>
      BY <1>2, <1>3
    <3>2. QED
      BY <2>1, <2>2, <3>1
  <2>4. QED
    BY <2>3 DEF TagsIn
<1>7. QED
  BY <1>3, <1>4, <1>5, <1>6

LEMMA TagsAtEnd ==
    ASSUME NEW s \in Seq(Events), Once(s), NEW S \in SUBSET Tags, S \intersect TagsIn(s) = {},
           NEW order \in SetToSeqs(S)
    PROVE  LET news == [n \in DOMAIN order |-> <<"tag", order[n]>>]
           IN  /\ news \in Seq(Events)
               /\ Once(s \o news)
               /\ TagsIn(s \o news) = TagsIn(s) \union S
               /\ \A c : Latest(s, c) => Latest(s \o news, c)
<1> DEFINE news == [n \in DOMAIN order |-> <<"tag", order[n]>>]
           all == s \o news
           k == Len(s)
           j == Len(order)
<1>1. IsFiniteSet(S)
  BY TagAssumption, FS_Subset
<1>2. /\ order \in Seq(S)
      /\ \A m, n \in DOMAIN order : order[m] = order[n] => m = n
      /\ \A g \in S : \E n \in DOMAIN order : order[n] = g
  BY <1>1, OrderOfSet
<1>3. j \in Nat /\ DOMAIN order = 1..j /\ \A n \in 1..j : order[n] \in S
  BY <1>2
<1>4. news \in [1..j -> Events]
  BY <1>3, EventIs
<1>5. news \in Seq(Events) /\ Len(news) = j
  <2> HIDE DEF news
  <2>1. QED
    BY <1>3, <1>4
<1>6. /\ k \in Nat /\ DOMAIN s = 1..k /\ DOMAIN all = 1..(k + j)
      /\ \A n \in 1..k : all[n] = s[n] /\ s[n] \in Events
      /\ \A n \in 1..j : all[k + n] = news[n]
  <2> HIDE DEF news
  <2>1. /\ Len(s) \in Nat /\ DOMAIN s = 1..Len(s) /\ DOMAIN (s \o news) = 1..(Len(s) + Len(news))
        /\ \A n \in 1..Len(s) : (s \o news)[n] = s[n] /\ s[n] \in Events
        /\ \A n \in 1..Len(news) : (s \o news)[Len(s) + n] = news[n]
    <3>1. news \in Seq(Events)
      BY <1>5
    <3> HIDE DEF j, all, k
    <3>2. QED
      BY <3>1, ConcatIs
  <2>2. Len(news) = j
    BY <1>5
  <2> HIDE DEF j
  <2>3. QED
    BY <2>1, <2>2
<1>7. \A n \in 1..j : all[k + n] = <<"tag", order[n]>> /\ order[n] \in S
  BY <1>3, <1>6
<1>8. \A n \in DOMAIN all : n \in 1..k \/ \E i \in 1..j : n = k + i
  <2> HIDE DEF all, news
  <2>1. ASSUME NEW n \in DOMAIN all, n \notin 1..k PROVE \E i \in 1..j : n = k + i
    <3>1. n \in Nat /\ n > k /\ n <= k + j
      BY <1>3, <1>6, <2>1
    <3>2. n - k \in 1..j /\ n = k + (n - k)
      BY <1>3, <1>6, <3>1
    <3>3. QED
      BY <3>2
  <2>2. QED
    BY <2>1
<1>9. \A g \in S : \A n \in 1..k : all[n] # <<"tag", g>>
  BY <1>6 DEF TagsIn
<1> HIDE DEF all, news, k, j
<1>10. Once(all)
  <2> SUFFICES ASSUME NEW m \in DOMAIN all, NEW n \in DOMAIN all, IsTag(all[m]), all[m] = all[n] PROVE m = n
    BY DEF Once
  <2>1. CASE m \in 1..k /\ n \in 1..k
    BY <1>6, <2>1 DEF Once
  <2>2. CASE m \in 1..k /\ \E i \in 1..j : n = k + i
    BY <1>7, <1>9, <2>2
  <2>3. CASE n \in 1..k /\ \E i \in 1..j : m = k + i
    BY <1>7, <1>9, <2>3
  <2>4. ASSUME NEW a \in 1..j, NEW b \in 1..j, m = k + a, n = k + b PROVE m = n
    <3>1. <<"tag", order[a]>> = <<"tag", order[b]>>
      BY <1>7, <2>4
    <3>2. order[a] = order[b]
      BY <3>1
    <3>3. QED
      BY <1>2, <1>3, <2>4, <3>2
  <2>5. QED
    BY <1>8, <2>1, <2>2, <2>3, <2>4
<1>11. TagsIn(all) = TagsIn(s) \union S
  <2>1. ASSUME NEW g \in Tags
        PROVE  (\E n \in DOMAIN all : all[n] = <<"tag", g>>)
                 <=> (\E n \in DOMAIN s : s[n] = <<"tag", g>>) \/ g \in S
    <3>1. ASSUME NEW n \in DOMAIN all, all[n] = <<"tag", g>>
          PROVE  (\E i \in DOMAIN s : s[i] = <<"tag", g>>) \/ g \in S
      <4>1. CASE n \in 1..k
        BY <1>6, <3>1, <4>1
      <4>2. ASSUME NEW i \in 1..j, n = k + i PROVE g \in S
        <5>1. <<"tag", g>> = <<"tag", order[i]>> /\ order[i] \in S
          BY <1>7, <3>1, <4>2
        <5>2. QED
          BY <5>1
      <4>3. QED
        BY <1>8, <4>1, <4>2
    <3>2. ASSUME NEW n \in DOMAIN s, s[n] = <<"tag", g>> PROVE \E i \in DOMAIN all : all[i] = <<"tag", g>>
      <4>1. n \in DOMAIN all /\ all[n] = s[n]
        BY <1>3, <1>6
      <4>2. QED
        BY <3>2, <4>1
    <3>3. ASSUME g \in S PROVE \E i \in DOMAIN all : all[i] = <<"tag", g>>
      <4>1. PICK n \in 1..j : order[n] = g
        BY <1>2, <1>3, <3>3
      <4>2. k + n \in DOMAIN all /\ all[k + n] = <<"tag", g>>
        BY <1>3, <1>6, <1>7, <4>1
      <4>3. QED
        BY <4>2
    <3>4. QED
      BY <3>1, <3>2, <3>3
  <2>2. S \subseteq Tags
    OBVIOUS
  <2>3. QED
    BY <2>1, <2>2 DEF TagsIn
<1>12. ASSUME NEW c, Latest(s, c) PROVE Latest(all, c)
  <2>1. \A n \in 1..j : ~IsCommit(all[k + n])
    BY <1>7 DEF IsCommit
  <2>2. CASE c = first.commit /\ \A n \in DOMAIN s : ~IsCommit(s[n])
    <3>1. \A n \in DOMAIN all : ~IsCommit(all[n])
      BY <1>6, <1>8, <2>1, <2>2
    <3>2. QED
      BY <2>2, <3>1 DEF Latest
  <2>3. ASSUME NEW n \in DOMAIN s, s[n] = <<"commit", c>>, \A m \in DOMAIN s : m > n => ~IsCommit(s[m])
        PROVE  Latest(all, c)
    <3>1. n \in DOMAIN all /\ all[n] = <<"commit", c>>
      BY <1>3, <1>6, <2>3
    <3>2. \A m \in DOMAIN all : m > n => ~IsCommit(all[m])
      BY <1>6, <1>8, <2>1, <2>3
    <3>3. QED
      BY <3>1, <3>2 DEF Latest
  <2>4. QED
    BY <1>12, <2>2, <2>3 DEF Latest
<1>13. QED
  BY <1>5, <1>10, <1>11, <1>12 DEF all, news

----------------------------------------------------------------------------
(* The invariant *)

LEMMA InitInv == Init => GitInv
<1> SUFFICES ASSUME Init PROVE GitInv
  OBVIOUS
<1>1. TypeOK
  <2>1. <<>> \in Seq(Events) /\ Len(<<>>) <= Cap /\ 0 \in 0..MaxMoves
    BY BoundAssumption
  <2>2. QED
    BY <2>1 DEF Init, TypeOK
<1>2. Announced = <<>>
  BY EmptyEnd DEF Init, Announced
<1>3. Phases /\ StartKnown /\ Once(Announced) /\ Remembered
  BY <1>2 DEF Init, Phases, StartKnown, Once, Remembered, Running
<1>4. QED
  BY <1>1, <1>3 DEF GitInv

\* An order of new tags is a sequence of events.
LEMMA NewTagsTypes == TypeOK /\ CheckNewTags => pending' \in Seq(Events)
<1> SUFFICES ASSUME TypeOK, CheckNewTags PROVE pending' \in Seq(Events)
  OBVIOUS
<1> DEFINE S == NewTags \ OddTags
<1>1. S \subseteq Tags /\ IsFiniteSet(S)
  <2>1. S \subseteq Tags
    BY DEF TypeOK, NewTags, TagRefs
  <2>2. QED
    BY <2>1, TagAssumption, FS_Subset
<1>2. PICK order \in SetToSeqs(S) : pending' = [n \in DOMAIN order |-> <<"tag", order[n]>>]
  BY DEF CheckNewTags
<1> HIDE DEF S
<1>3. order \in Seq(S)
  BY <1>1, <1>2, OrderOfSet
<1>4. pending' \in [1..Len(order) -> Events] /\ Len(order) \in Nat
  BY <1>1, <1>2, <1>3, EventIs
<1>5. QED
  BY <1>4

LEMMA Types == TypeOK /\ [Next]_vars => TypeOK'
<1> SUFFICES ASSUME TypeOK, [Next]_vars PROVE TypeOK'
  OBVIOUS
<1> USE DEF TypeOK
<1>1. ASSUME NEW c \in Commits \union {NoCommit}, MoveBranch(c) PROVE TypeOK'
  BY <1>1, BoundAssumption DEF MoveBranch, memory
<1>2. ASSUME NEW g \in Tags, ToggleTag(g) PROVE TypeOK'
  BY <1>2, BoundAssumption DEF ToggleTag, memory
<1>3. CASE Subscribe
  <2>1. own' \in [branch : Commits \union {NoCommit}, tracking : Commits \union {NoCommit}, tags : SUBSET Tags]
    BY <1>3 DEF Subscribe, Clone
  <2>2. BranchRef' \in Commits \union {NoCommit} /\ TagRefs' \subseteq Tags
    BY <1>3, <2>1 DEF Subscribe, BranchRef, TagRefs, repository
  <2>3. <<>> \in Seq(Events) /\ Len(<<>>) <= Cap
    BY BoundAssumption
  <2>4. /\ UNCHANGED <<kind, head, tags, moves, online>> /\ ctxDone' \in BOOLEAN
        /\ pending' = <<>> /\ results' = <<>> /\ sent' = <<>>
    BY <1>3 DEF Subscribe, repository
  <2>5. /\ pc' \in {"failed", "idle"}
        /\ last' \in Commits \union {NoCommit} /\ known' \subseteq Tags
        /\ first' \in [commit : Commits \union {NoCommit}, tags : SUBSET Tags]
    BY <1>3, <2>2 DEF Subscribe, memory
  <2>6. QED
    BY <2>1, <2>3, <2>4, <2>5
<1>4. CASE Fetch
  <2>1. /\ tags' \subseteq Tags
        /\ own' \in [branch : Commits \union {NoCommit}, tracking : Commits \union {NoCommit}, tags : SUBSET Tags]
    BY <1>4 DEF Fetch
  <2>2. QED
    BY <1>4, <2>1 DEF Fetch, memory
<1>5. CASE Tick \/ FetchFails
  BY <1>5 DEF Tick, FetchFails, repository, memory
<1>6. CASE CheckNewCommits
  <2>1. last' \in Commits \union {NoCommit} /\ pending' \in Seq(Events)
    <3>1. CASE BranchRef \in OddCommits \union {last, NoCommit}
      BY <1>6, <3>1 DEF CheckNewCommits
    <3>2. CASE BranchRef \notin OddCommits \union {last, NoCommit}
      <4>1. BranchRef \in Commits
        BY <3>2 DEF BranchRef
      <4>2. pending' = <<<<"commit", BranchRef>>>> /\ last' = BranchRef
        BY <1>6, <3>2 DEF CheckNewCommits
      <4>3. <<"commit", BranchRef>> \in Events
        BY <4>1, EventIs
      <4>4. QED
        BY <4>1, <4>2, <4>3
    <3>3. QED
      BY <3>1, <3>2
  <2>2. QED
    BY <1>6, <2>1 DEF CheckNewCommits, repository
<1>7. CASE CheckNewTags
  <2>1. pending' \in Seq(Events)
    BY <1>7, NewTagsTypes
  <2>2. known' \subseteq Tags
    BY <1>7 DEF CheckNewTags, NewTags, TagRefs
  <2>3. QED
    BY <1>7, <2>1, <2>2 DEF CheckNewTags, repository
<1>8. CASE Send
  <2>1. pending' \in Seq(Events) /\ sent' \in Seq(Events) /\ results' \in Seq(Events)
    BY <1>8, MoveOne DEF Send
  <2>2. Len(results') <= Cap
    BY <1>8, BoundAssumption DEF Send
  <2>3. QED
    BY <1>8, <2>1, <2>2 DEF Send, repository, memory
<1>9. CASE PollEnds
  BY <1>9 DEF PollEnds, repository, memory
<1>10. CASE Stop
  BY <1>10 DEF Stop, repository, memory
<1>11. CASE Consume
  <2>1. results' \in Seq(Events) /\ Len(results') <= Cap
    BY <1>11, BoundAssumption DEF Consume
  <2>2. QED
    BY <1>11, <2>1 DEF Consume, repository, memory
<1>12. CASE Cancel
  BY <1>12 DEF Cancel, repository, memory
<1>13. CASE UNCHANGED vars
  BY <1>13 DEF vars
<1>14. CASE NetworkTurns
  BY <1>14 DEF NetworkTurns, memory
<1>15. QED
  BY <1>1, <1>2, <1>3, <1>4, <1>5, <1>6, <1>7, <1>8, <1>9, <1>10, <1>11, <1>12, <1>13, <1>14 DEF Next

\* A step that brings no news: what is announced, and what is remembered, stay.
LEMMA NoNews ==
    ASSUME GitInv, Announced' = Announced, UNCHANGED <<memory, first>>, Running' => Running
    PROVE  StartKnown' /\ Once(Announced)' /\ Remembered'
<1>1. Once(Announced)'
  BY DEF GitInv, Once
<1>2. Remembered'
  BY DEF GitInv, Remembered, Announced, Latest, TagsIn, memory
<1>3. StartKnown'
  BY DEF GitInv, StartKnown, memory
<1>4. QED
  BY <1>1, <1>2, <1>3

LEMMA Remembers == GitInv /\ [Next]_vars => Phases' /\ StartKnown' /\ Once(Announced)' /\ Remembered'
<1> SUFFICES ASSUME GitInv, [Next]_vars PROVE Phases' /\ StartKnown' /\ Once(Announced)' /\ Remembered'
  OBVIOUS
<1>a. sent \in Seq(Events) /\ pending \in Seq(Events) /\ Phases /\ StartKnown /\ Once(Announced) /\ Remembered
  BY DEF GitInv, TypeOK
<1>b. pending = <<>> => Announced = sent
  BY <1>a, EmptyEnd DEF Announced
<1>1. ASSUME UNCHANGED <<pc, memory, pending, sent, first>> PROVE Phases' /\ StartKnown' /\ Once(Announced)' /\ Remembered'
  BY <1>1, <1>a, NoNews DEF Phases, Announced, Running
<1>2. CASE \/ \E c \in Commits \union {NoCommit} : MoveBranch(c)
           \/ \E g \in Tags : ToggleTag(g)
           \/ NetworkTurns \/ Consume \/ Cancel \/ UNCHANGED vars
  BY <1>1, <1>2 DEF MoveBranch, ToggleTag, NetworkTurns, Consume, Cancel, vars, memory
<1>3. CASE Subscribe
  <2>1. Announced' = <<>> /\ pending' = <<>>
    BY <1>3, EmptyEnd DEF Subscribe, Announced
  <2>2. ASSUME Running' PROVE last' = first'.commit /\ known' = first'.tags
    BY <1>3, <2>2 DEF Subscribe, Running, memory
  <2>3. Phases' /\ StartKnown' /\ Once(Announced)'
    BY <2>1, <2>2 DEF Phases, StartKnown, Once
  <2>4. ASSUME Running'
        PROVE  Latest(Announced, last)' /\ (known \ (first.tags \union OddTags) = TagsIn(Announced))'
    BY <2>1, <2>2, <2>4 DEF Latest, TagsIn
  <2>5. QED
    BY <2>3, <2>4 DEF Remembered, Announced
<1>4. CASE Tick \/ Fetch \/ FetchFails \/ PollEnds
  <2>1. pending = <<>> /\ UNCHANGED <<memory, pending, sent, first>> /\ Running
    BY <1>4, <1>a DEF Tick, Fetch, FetchFails, PollEnds, Phases, Running
  <2>2. QED
    BY <2>1, NoNews DEF Phases, Announced
<1>5. CASE CheckNewCommits
  <2>1. pending = <<>> /\ pc' = "commits" /\ UNCHANGED <<known, sent, first>> /\ Running
    BY <1>5, <1>a DEF CheckNewCommits, Phases, Running
  <2>2. Phases'
    BY <2>1 DEF Phases
  <2>3. CASE UNCHANGED <<last, pending>>
    BY <2>1, <2>2, <2>3, NoNews DEF Announced, memory
  <2>4. CASE ~UNCHANGED <<last, pending>>
    <3>1. /\ BranchRef \in Commits /\ last' = BranchRef
          /\ pending' = <<<<"commit", BranchRef>>>>
      BY <1>5, <2>4 DEF CheckNewCommits, BranchRef, GitInv, TypeOK
    <3>2. Announced' = sent \o <<<<"commit", BranchRef>>>> /\ Announced = sent /\ Once(sent)
      BY <1>a, <1>b, <2>1, <3>1 DEF Announced
    <3>3. Once(Announced') /\ Latest(Announced', last') /\ TagsIn(Announced') = TagsIn(sent)
      BY <1>a, <3>1, <3>2, NewCommit
    <3>4. known \ (first.tags \union OddTags) = TagsIn(sent)
      BY <1>a, <2>1, <3>2 DEF Remembered, Announced
    <3>5. Once(Announced)' /\ Latest(Announced, last)' /\ TagsIn(Announced)' = TagsIn(sent)
      BY <2>1, <3>3 DEF Once, Latest, TagsIn
    <3>6. StartKnown'
      BY <1>a, <2>1 DEF StartKnown
    <3>7. QED
      BY <2>1, <2>2, <3>4, <3>5, <3>6 DEF Remembered, Announced
  <2>5. QED
    BY <2>3, <2>4
<1>6. CASE CheckNewTags
  <2> DEFINE S == NewTags \ OddTags
  <2>1. /\ pending = <<>> /\ pc' = "tags" /\ UNCHANGED <<last, sent, first>> /\ Running
        /\ known' = known \union NewTags
    BY <1>6 DEF CheckNewTags, Running
  <2>2. PICK order \in SetToSeqs(S) : pending' = [n \in DOMAIN order |-> <<"tag", order[n]>>]
    BY <1>6 DEF CheckNewTags
  <2>3. Announced = sent /\ Once(sent) /\ Latest(sent, last) /\ known \ (first.tags \union OddTags) = TagsIn(sent)
    BY <1>a, <1>b, <2>1 DEF Remembered, Announced
  <2>4. S \in SUBSET Tags /\ S \intersect known = {}
    BY DEF NewTags, TagRefs, GitInv, TypeOK
  <2>5. S \intersect TagsIn(sent) = {}
    BY <2>3, <2>4
  <2>6. Announced' = sent \o [n \in DOMAIN order |-> <<"tag", order[n]>>]
    BY <2>1, <2>2 DEF Announced
  <2> HIDE DEF S
  <2>7. Once(Announced') /\ TagsIn(Announced') = TagsIn(sent) \union S /\ Latest(Announced', last)
    BY <1>a, <2>2, <2>3, <2>4, <2>5, <2>6, TagsAtEnd
  <2>8. Once(Announced)' /\ TagsIn(Announced)' = TagsIn(sent) \union S /\ Latest(Announced, last)'
    BY <2>1, <2>7 DEF Once, TagsIn, Latest
  <2>9. StartKnown' /\ S \intersect first.tags = {}
    BY <1>a, <2>1, <2>4 DEF StartKnown
  <2>10. known' \ (first.tags \union OddTags)' = TagsIn(sent) \union S
    BY <2>1, <2>3, <2>9 DEF S
  <2>11. QED
    BY <2>1, <2>8, <2>9, <2>10 DEF Phases, Remembered, Announced
<1>7. CASE Send
  <2>1. Announced' = Announced /\ pending # <<>> /\ UNCHANGED <<pc, memory, first>>
    BY <1>7, <1>a, MoveOne DEF Send, Announced
  <2>2. QED
    BY <1>a, <2>1, NoNews DEF Phases, Running
<1>8. CASE Stop
  <2>1. Announced' = sent /\ pending' = <<>> /\ ~Running'
    BY <1>8, <1>a, EmptyEnd DEF Stop, Announced, Running
  <2>2. Once(sent)
    <3>1. /\ DOMAIN sent \subseteq DOMAIN Announced
          /\ \A n \in DOMAIN sent : Announced[n] = sent[n]
      BY <1>a, ConcatIs DEF Announced
    <3>2. QED
      BY <1>a, <3>1 DEF Once
  <2>3. QED
    BY <2>1, <2>2 DEF Phases, StartKnown, Once, Remembered
<1>9. QED
  BY <1>2, <1>3, <1>4, <1>5, <1>6, <1>7, <1>8 DEF Next

LEMMA Invariance == Spec => []GitInv
<1>1. Init => GitInv
  BY InitInv
<1>2. GitInv /\ [Next]_vars => GitInv'
  BY Types, Remembers DEF GitInv
<1>3. QED
  BY <1>1, <1>2, PTL DEF Spec

----------------------------------------------------------------------------
\* Every variable has its type: what is pending and sent are events of commits
\* and of tags the trigger may have, and the channel is never beyond its capacity.
THEOREM Typing == Spec => []TypeOK
<1>1. GitInv => TypeOK
  BY DEF GitInv
<1>2. QED
  BY <1>1, Invariance, PTL

\* While it polls, the subscriber has announced, or is announcing, the commit and
\* exactly the readable tags it remembers on top of those it began with (subscriber.go:344, 384).
THEOREM RemembersNews == Spec => []Remembered
<1>1. GitInv => Remembered
  BY DEF GitInv
<1>2. QED
  BY <1>1, Invariance, PTL

\* No subscription announces a tag twice, whatever is deleted and made again
\* (subscriber.go:384).
THEOREM AnnouncesTagsOnce == Spec => []TagOnce
<1>1. ASSUME GitInv PROVE TagOnce
  <2>1. sent \in Seq(Events) /\ pending \in Seq(Events) /\ Once(Announced)
    BY <1>1 DEF GitInv, TypeOK
  <2>2. \A n \in DOMAIN sent : n \in DOMAIN Announced /\ Announced[n] = sent[n]
    BY <2>1, ConcatIs DEF Announced
  <2>3. QED
    BY <2>1, <2>2 DEF Once, TagOnce
<1>2. QED
  BY <1>1, Invariance, PTL

----------------------------------------------------------------------------
(* A commit is announced again only after another one. *)

Commit(e) == <<"commit", e>>

\* Event n, if it is of a commit, is of another one than the event of a commit
\* before it, or than the commit of the start if it is the first.
IsNews(events, n) ==
    IsCommit(events[n]) =>
        \/ \E m \in 1..(n - 1) :
              /\ IsCommit(events[m]) /\ events[m] # events[n]
              /\ \A k \in 1..(n - 1) : k > m => ~IsCommit(events[k])
        \/ /\ \A m \in 1..(n - 1) : ~IsCommit(events[m])
           /\ events[n] # Commit(first.commit)

OnlyNews(events) == \A n \in DOMAIN events : IsNews(events, n)

LEMMA SameNews ==
    ASSUME NEW s, NEW t, NEW n \in Nat, n > 0, \A m \in 1..n : s[m] = t[m], IsNews(s, n)
    PROVE  IsNews(t, n)
<1>1. n \in 1..n /\ \A m \in 1..(n - 1) : m \in 1..n
  OBVIOUS
<1> QED BY <1>1, Zenon DEF IsNews

LEMMA NewsBegins ==
    ASSUME NEW s \in Seq(Events), NEW t \in Seq(Events), OnlyNews(s \o t)
    PROVE  OnlyNews(s)
<1> SUFFICES ASSUME NEW n \in DOMAIN s PROVE IsNews(s, n)
  BY DEF OnlyNews
<1>1. n \in Nat /\ n > 0 /\ n \in DOMAIN (s \o t) /\ \A m \in 1..n : (s \o t)[m] = s[m]
  BY ConcatIs
<1>2. IsNews(s \o t, n)
  BY <1>1 DEF OnlyNews
<1> QED BY <1>1, <1>2, SameNews

LEMMA TagsAreNoNews ==
    ASSUME NEW s \in Seq(Events), NEW t \in Seq(Events), OnlyNews(s), \A n \in DOMAIN t : ~IsCommit(t[n])
    PROVE  OnlyNews(s \o t)
<1> SUFFICES ASSUME NEW n \in DOMAIN (s \o t) PROVE IsNews(s \o t, n)
  BY DEF OnlyNews
<1>1. /\ n \in 1..(Len(s) + Len(t)) /\ Len(s) \in Nat /\ Len(t) \in Nat
      /\ DOMAIN s = 1..Len(s) /\ DOMAIN t = 1..Len(t)
      /\ \A m \in 1..Len(s) : (s \o t)[m] = s[m]
      /\ \A m \in 1..Len(t) : (s \o t)[Len(s) + m] = t[m]
  BY ConcatIs
<1> DEFINE all == s \o t
<1> HIDE DEF all
<1>2. CASE n <= Len(s)
  <2>1. n \in Nat /\ n > 0 /\ \A m \in 1..n : s[m] = all[m]
    BY <1>1, <1>2 DEF all
  <2>2. IsNews(s, n)
    BY <1>1, <1>2 DEF OnlyNews
  <2>3. IsNews(all, n)
    BY <2>1, <2>2, SameNews
  <2> QED BY <2>3 DEF all
<1>3. CASE ~(n <= Len(s))
  <2>1. n - Len(s) \in 1..Len(t) /\ n = Len(s) + (n - Len(s))
    BY <1>1, <1>3
  <2>2. ~IsCommit((s \o t)[n])
    BY <1>1, <2>1
  <2> QED BY <2>2 DEF IsNews
<1> QED BY <1>2, <1>3

LEMMA OtherCommitIsNews ==
    ASSUME NEW s \in Seq(Events), OnlyNews(s), NEW l, Latest(s, l), NEW c \in Commits, c # l
    PROVE  OnlyNews(s \o <<Commit(c)>>)
<1> DEFINE e == Commit(c)
           all == s \o <<e>>
           k == Len(s)
<1>1. /\ k \in Nat /\ DOMAIN s = 1..k /\ DOMAIN all = 1..(k + 1)
      /\ \A n \in 1..k : all[n] = s[n]
      /\ all[k + 1] = e
  <2>1. e \in Events
    BY EventIs DEF Commit
  <2> HIDE DEF e
  <2>2. <<e>> \in Seq(Events) /\ Len(<<e>>) = 1 /\ <<e>>[1] = e
    BY <2>1
  <2> QED BY <2>2, ConcatIs
<1>2. e # Commit(l) /\ IsCommit(Commit(l))
  BY DEF Commit, IsCommit
<1> HIDE DEF all, e, k
<1>3. ASSUME NEW n \in 1..k PROVE IsNews(all, n)
  <2>1. n \in Nat /\ n > 0 /\ IsNews(s, n) /\ \A m \in 1..n : s[m] = all[m]
    BY <1>1 DEF OnlyNews
  <2> QED BY <2>1, SameNews
<1>4. IsNews(all, k + 1)
  <2>1. (k + 1) - 1 = k
    BY <1>1
  <2>2. CASE l = first.commit /\ \A n \in DOMAIN s : ~IsCommit(s[n])
    BY <1>1, <1>2, <2>1, <2>2 DEF IsNews
  <2>3. ASSUME NEW n \in DOMAIN s, s[n] = Commit(l), \A m \in DOMAIN s : m > n => ~IsCommit(s[m])
        PROVE  IsNews(all, k + 1)
    <3>1. n \in 1..k /\ all[n] = Commit(l) /\ all[n] # all[k + 1]
      BY <1>1, <1>2, <2>3
    <3>2. \A m \in 1..k : m > n => ~IsCommit(all[m])
      BY <1>1, <2>3
    <3> QED BY <1>2, <2>1, <3>1, <3>2 DEF IsNews
  <2> QED BY <2>2, <2>3 DEF Latest, Commit
<1>5. OnlyNews(all)
  BY <1>1, <1>3, <1>4 DEF OnlyNews
<1> QED BY <1>5 DEF all, e

LEMMA NewsStep == GitInv /\ OnlyNews(Announced) /\ [Next]_vars => OnlyNews(Announced)'
<1> SUFFICES ASSUME GitInv, OnlyNews(Announced), [Next]_vars PROVE OnlyNews(Announced)'
  OBVIOUS
<1>a. sent \in Seq(Events) /\ pending \in Seq(Events) /\ (pending = <<>> => Announced = sent)
  BY EmptyEnd DEF GitInv, TypeOK, Announced
<1>1. ASSUME Announced' = Announced, first' = first PROVE OnlyNews(Announced)'
  BY <1>1 DEF OnlyNews, IsNews
<1>2. CASE \/ \E c \in Commits \union {NoCommit} : MoveBranch(c)
           \/ \E g \in Tags : ToggleTag(g)
           \/ NetworkTurns \/ Tick \/ Fetch \/ FetchFails \/ PollEnds \/ Consume \/ Cancel \/ UNCHANGED vars
  BY <1>1, <1>2 DEF MoveBranch, ToggleTag, NetworkTurns, Tick, Fetch, FetchFails, PollEnds, Consume, Cancel, vars, Announced
<1>3. CASE Subscribe
  <2>1. Announced' = <<>>
    BY <1>3, EmptyEnd DEF Subscribe, Announced
  <2> QED BY <2>1 DEF OnlyNews
<1>4. CASE CheckNewCommits
  <2>1. pending = <<>> /\ UNCHANGED <<sent, first>> /\ Running
    BY <1>4 DEF CheckNewCommits, GitInv, Phases, Running
  <2>2. CASE UNCHANGED pending
    BY <1>1, <2>1, <2>2 DEF Announced
  <2>3. CASE ~UNCHANGED pending
    <3>1. /\ BranchRef \in Commits /\ BranchRef # last
          /\ pending' = <<Commit(BranchRef)>>
      BY <1>4, <2>3 DEF CheckNewCommits, BranchRef, GitInv, TypeOK, Commit
    <3>2. Latest(sent, last) /\ OnlyNews(sent)
      BY <1>a, <2>1 DEF GitInv, Remembered, Announced
    <3>3. OnlyNews(sent \o <<Commit(BranchRef)>>)
      BY <1>a, <3>1, <3>2, OtherCommitIsNews
    <3>4. Announced' = sent \o <<Commit(BranchRef)>>
      BY <2>1, <3>1 DEF Announced
    <3> QED BY <2>1, <3>3, <3>4 DEF OnlyNews, IsNews
  <2> QED BY <2>2, <2>3
<1>5. CASE CheckNewTags
  <2>1. pending = <<>> /\ UNCHANGED <<sent, first>> /\ pending' \in Seq(Events)
    BY <1>5, NewTagsTypes DEF CheckNewTags, GitInv
  <2>2. \A n \in DOMAIN pending' : ~IsCommit(pending'[n])
    BY <1>5 DEF CheckNewTags, IsCommit
  <2>3. OnlyNews(sent \o pending')
    BY <1>a, <2>1, <2>2, TagsAreNoNews
  <2>4. Announced' = sent \o pending'
    BY <2>1 DEF Announced
  <2> QED BY <2>1, <2>3, <2>4 DEF OnlyNews, IsNews
<1>6. CASE Send
  <2>1. Announced' = Announced /\ first' = first
    BY <1>6, <1>a, MoveOne DEF Send, Announced
  <2> QED BY <1>1, <2>1
<1>7. CASE Stop
  <2>1. Announced' = sent /\ first' = first
    BY <1>7, <1>a, EmptyEnd DEF Stop, Announced
  <2>2. OnlyNews(sent)
    BY <1>a, NewsBegins DEF Announced
  <2> QED BY <2>1, <2>2 DEF OnlyNews, IsNews
<1> QED BY <1>2, <1>3, <1>4, <1>5, <1>6, <1>7 DEF Next

\* What is left of "each commit only triggers once" (README.md:11) when a branch is
\* reset and moved on again: a commit is announced only after another one was, or, as
\* the first, if it is not the one the subscription began with (subscriber.go:344).
THEOREM AnnouncesChanges == Spec => []OnlyNews(sent)
<1>1. Init => OnlyNews(Announced)
  <2> SUFFICES ASSUME Init PROVE OnlyNews(Announced)
    OBVIOUS
  <2>1. Announced = <<>>
    BY EmptyEnd DEF Init, Announced
  <2> QED BY <2>1 DEF OnlyNews
<1>2. GitInv /\ OnlyNews(Announced) => OnlyNews(sent)
  BY NewsBegins DEF GitInv, TypeOK, Announced
<1>3. QED
  BY <1>1, <1>2, NewsStep, Invariance, PTL DEF Spec

\* Nor does a subscription announce a tag that was there when it began, however
\* often that is deleted and made again (subscriber.go:384).
THEOREM AnnouncesNoOldTags == Spec => [](Running => TagsIn(sent) \intersect first.tags = {})
<1>1. ASSUME GitInv, Running PROVE TagsIn(sent) \intersect first.tags = {}
  <2>1. sent \in Seq(Events) /\ pending \in Seq(Events)
    BY <1>1 DEF GitInv, TypeOK
  <2>2. \A n \in DOMAIN sent : n \in DOMAIN Announced /\ Announced[n] = sent[n]
    BY <2>1, ConcatIs DEF Announced
  <2>3. TagsIn(sent) \subseteq TagsIn(Announced)
    BY <2>2 DEF TagsIn
  <2>4. TagsIn(Announced) \intersect first.tags = {}
    BY <1>1 DEF GitInv, Remembered, Announced
  <2> QED BY <2>3, <2>4
<1>2. QED
  BY <1>1, Invariance, PTL
=============================================================================
