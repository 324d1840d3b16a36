------------------------ MODULE FileSystemStoreProofs ------------------------
(***************************************************************************)
(* Proofs about FileSystemStore, for any number of triggers, handlers and  *)
(* versions and any capacity of the channel, under write failures.         *)
(*                                                                         *)
(* A file that is there holds the newest version of its trigger, so what   *)
(* the watcher reads is never older than what it has sent; and a torn file *)
(* is either being written, under the mutex, or was left by a failure.     *)
(***************************************************************************)
EXTENDS FileSystemStore, TLAPS

FileIsNewest == \A t \in Triggers : file[t] \in {0, ver[t]}

TornIsExplained == \A t \in Triggers : torn[t] => t \in broken \/ (mu # NoClient /\ target[mu] = t)

\* The bound on writes is checked where a write begins.
WithinBound == mu # NoClient => mu \in Clients /\ ver[target[mu]] < MaxWrites

\* The versions of one trigger do not decrease from e to f.
Follows(e, f) == e[1] = f[1] => e[2] <= f[2]

Due(e) == got[e[1]] <= e[2] /\ e[2] <= ver[e[1]]

Ordered ==
    /\ \A i, j \in DOMAIN updateCh : i < j => Follows(updateCh[i], updateCh[j])
    /\ \A i \in DOMAIN updateCh : Due(updateCh[i])
    /\ wpc = "send" => Due(cur) /\ \A i \in DOMAIN updateCh : Follows(updateCh[i], cur)
    /\ \A t \in Triggers : got[t] <= ver[t]

Phases ==
    /\ svc \in {"starting", "loaded", "opened", "failed"} => wpc = "off" /\ updateCh = <<>>
    /\ svc = "starting" => got = [t \in Triggers |-> 0]

\* A Shutdown that is not premature finds no watcher or one that it waits for, and
\* none is started after it.
WaitedFor ==
    /\ shut # "no" /\ ~Premature => svc \notin {"starting", "loaded", "opened"}
    /\ shut = "closed" /\ ~Premature => wpc \in {"off", "gone"}

FileInv ==
    /\ TypeOK /\ WithinBound /\ FileIsNewest /\ TornIsExplained
    /\ Ordered /\ Phases /\ WaitedFor /\ NoSendOnClosed

----------------------------------------------------------------------------
\* An update on its way: a trigger and a version.
Updates == Triggers \X (0..MaxWrites)

IsUpdate(e) == e[1] \in Triggers /\ e[2] \in Nat

LEMMA TailIs ==
    ASSUME NEW T, NEW s \in Seq(T), s # <<>>
    PROVE  /\ Tail(s) \in Seq(T) /\ Len(Tail(s)) = Len(s) - 1 /\ Len(s) \in Nat
           /\ s[1] \in T /\ Head(s) = s[1] /\ 1 \in DOMAIN s
           /\ \A i \in DOMAIN Tail(s) : i \in Nat /\ i > 0 /\ i + 1 \in DOMAIN s /\ Tail(s)[i] = s[i + 1]
  OBVIOUS

LEMMA AppendIs ==
    ASSUME NEW T, NEW s \in Seq(T), NEW e \in T
    PROVE  /\ Append(s, e) \in Seq(T) /\ Len(Append(s, e)) = Len(s) + 1 /\ Len(s) \in Nat
           /\ DOMAIN Append(s, e) = DOMAIN s \union {Len(s) + 1}
           /\ \A i \in DOMAIN s : i \in 1..Len(s) /\ Append(s, e)[i] = s[i]
           /\ Append(s, e)[Len(s) + 1] = e
  OBVIOUS

\* The same facts, with the set of updates hidden from the provers.
LEMMA Elements ==
    ASSUME TypeOK
    PROVE  /\ updateCh \in Seq(Updates) /\ cur \in Updates
           /\ \A e \in Updates : IsUpdate(e)
           /\ \A i \in DOMAIN updateCh : i \in Nat /\ IsUpdate(updateCh[i])
           /\ \A t \in Triggers : ver[t] \in Nat /\ got[t] \in Nat /\ file[t] \in Nat
<1>1. updateCh \in Seq(Updates) /\ cur \in Updates
  BY DEF TypeOK, Updates
<1>2. \A e \in Updates : IsUpdate(e)
  BY BoundAssumption DEF Updates, IsUpdate
<1>3. \A i \in DOMAIN updateCh : i \in Nat /\ updateCh[i] \in Updates
  BY <1>1
<1>4. \A t \in Triggers : ver[t] \in Nat /\ got[t] \in Nat /\ file[t] \in Nat
  BY BoundAssumption DEF TypeOK
<1>5. QED
  BY <1>1, <1>2, <1>3, <1>4

LEMMA ReportTypes == \A t \in Triggers : events \in Seq(Triggers) /\ Report(t) => events' \in Seq(Triggers)
  BY DEF Report

LEMMA TakeTypes == TypeOK /\ TakeEvent => events' \in Seq(Triggers) /\ cur' \in Updates
<1> SUFFICES ASSUME TypeOK, TakeEvent PROVE events' \in Seq(Triggers) /\ cur' \in Updates
  OBVIOUS
<1>1. events \in Seq(Triggers) /\ events # <<>>
  BY DEF TypeOK, TakeEvent
<1>2. Tail(events) \in Seq(Triggers) /\ Head(events) \in Triggers
  BY <1>1, TailIs
<1>3. events' = Tail(events) /\ cur' = <<Head(events), 0>>
  BY DEF TakeEvent
<1>4. QED
  BY <1>2, <1>3, BoundAssumption DEF Updates

LEMMA DeleteTypes ==
    ASSUME TypeOK, NEW t \in Triggers, Delete(t)
    PROVE  file' \in [Triggers -> 0..MaxWrites] /\ torn' \in [Triggers -> BOOLEAN] /\ broken' \subseteq Triggers
<1>1. file' = [file EXCEPT ![t] = 0] /\ torn' = [torn EXCEPT ![t] = FALSE] /\ broken' = broken \ {t}
  BY DEF Delete
<1>2. file \in [Triggers -> 0..MaxWrites] /\ torn \in [Triggers -> BOOLEAN] /\ broken \subseteq Triggers
  BY DEF TypeOK
<1>3. 0 \in 0..MaxWrites
  BY BoundAssumption
<1>4. QED
  BY <1>1, <1>2, <1>3, Zenon

LEMMA ReceiveTypes ==
    TypeOK /\ Receive => /\ updateCh' \in Seq(Updates) /\ Len(updateCh') <= Cap
                        /\ got' \in [Triggers -> 0..MaxWrites]
<1> SUFFICES ASSUME TypeOK, Receive
             PROVE  /\ updateCh' \in Seq(Updates) /\ Len(updateCh') <= Cap
                    /\ got' \in [Triggers -> 0..MaxWrites]
  OBVIOUS
<1>1. /\ updateCh \in Seq(Updates) /\ updateCh # <<>> /\ updateCh' = Tail(updateCh)
      /\ got' = [got EXCEPT ![Head(updateCh)[1]] = Head(updateCh)[2]]
  BY Elements DEF Receive
<1>2. /\ updateCh' \in Seq(Updates) /\ Len(updateCh') = Len(updateCh) - 1 /\ Len(updateCh) \in Nat
      /\ Head(updateCh) \in Updates
  BY <1>1, TailIs
<1>3. Len(updateCh') <= Cap
  BY <1>2, BoundAssumption DEF TypeOK
<1>4. PICK u \in Triggers, v \in 0..MaxWrites : Head(updateCh) = <<u, v>>
  BY <1>2 DEF Updates
<1>5. Head(updateCh)[1] = u /\ Head(updateCh)[2] = v
  BY <1>4
<1>6. got' = [got EXCEPT ![u] = v]
  BY <1>1, <1>5
<1>7. QED
  BY <1>2, <1>3, <1>4, <1>6 DEF TypeOK

LEMMA SendTypes == TypeOK /\ Send => updateCh' \in Seq(Updates) /\ Len(updateCh') <= Cap
<1> SUFFICES ASSUME TypeOK, Send PROVE updateCh' \in Seq(Updates) /\ Len(updateCh') <= Cap
  OBVIOUS
<1>1. updateCh \in Seq(Updates) /\ cur \in Updates /\ updateCh' = Append(updateCh, cur)
  BY Elements DEF Send
<1>2. updateCh' \in Seq(Updates) /\ Len(updateCh') = Len(updateCh) + 1 /\ Len(updateCh) \in Nat
  BY <1>1, AppendIs
<1>3. QED
  BY <1>2, BoundAssumption DEF Send

LEMMA InitInv == Init => FileInv
<1> SUFFICES ASSUME Init PROVE FileInv
  OBVIOUS
<1>1. TypeOK
  <2>1. ver \in [Triggers -> 0..MaxWrites] /\ cur \in Triggers \X (0..MaxWrites)
    BY BoundAssumption DEF Init
  <2>2. Len(updateCh) <= Cap /\ updateCh \in Seq(Triggers \X (0..MaxWrites)) /\ events \in Seq(Triggers)
    BY BoundAssumption DEF Init
  <2>3. QED
    BY <2>1, <2>2, BoundAssumption DEF Init, TypeOK, ServiceStates
<1>2. WithinBound /\ FileIsNewest /\ TornIsExplained /\ Ordered /\ Phases /\ WaitedFor /\ NoSendOnClosed
  BY <1>1 DEF Init, TypeOK, WithinBound, FileIsNewest, TornIsExplained, Ordered, Phases, WaitedFor, NoSendOnClosed, Premature
<1>3. QED
  BY <1>1, <1>2 DEF FileInv

----------------------------------------------------------------------------
\* Typing and the invariants on files, one step for each action.
LEMMA TypeStep == TypeOK /\ WithinBound /\ [Next]_vars => TypeOK'
<1> SUFFICES ASSUME TypeOK, WithinBound, [Next]_vars PROVE TypeOK'
  OBVIOUS
<1> USE BoundAssumption DEF TypeOK, files, watcher, service, shutdown
<1>1. CASE UNCHANGED vars
  BY <1>1 DEF vars
<1>2. ASSUME NEW c \in Clients, NEW t \in Triggers, WriteBegins(c, t) PROVE TypeOK'
  BY <1>2, ReportTypes DEF WriteBegins
<1>3. ASSUME NEW c \in Clients, WriteEnds(c) PROVE TypeOK'
  <2> DEFINE t == target[c]
  <2>1. t \in Triggers /\ events' \in Seq(Triggers)
    BY <1>3, ReportTypes DEF WriteEnds
  <2>2. ver[t] + 1 \in 0..MaxWrites
    BY <1>3, <2>1, ClientAssumption, SMTT(30) DEF WriteEnds, WithinBound
  <2>3. QED
    BY <1>3, <2>1, <2>2 DEF WriteEnds
<1>4. ASSUME NEW c \in Clients, WriteFails(c) PROVE TypeOK'
  BY <1>4 DEF WriteFails
<1>5. ASSUME NEW t \in Triggers, Delete(t) PROVE TypeOK'
  <2>1. file' \in [Triggers -> 0..MaxWrites] /\ torn' \in [Triggers -> BOOLEAN] /\ broken' \subseteq Triggers
    BY <1>5, DeleteTypes
  <2>2. QED
    BY <1>5, <2>1 DEF Delete
<1>6. CASE LoadAll
  <2>1. got' \in [Triggers -> 0..MaxWrites]
    BY <1>6 DEF LoadAll
  <2>2. svc' \in ServiceStates
    BY <1>6 DEF LoadAll, ServiceStates
  <2>3. QED
    BY <1>6, <2>1, <2>2 DEF LoadAll
<1>7. CASE SubscribeBegins \/ SubscribeEnds
  <2>1. CASE SubscribeBegins
    BY <2>1 DEF SubscribeBegins, ServiceStates
  <2>2. CASE SubscribeEnds
    <3>1. svc' \in ServiceStates
      BY <2>2 DEF SubscribeEnds, ServiceStates
    <3>2. QED
      BY <2>2, <3>1 DEF SubscribeEnds
  <2>3. QED
    BY <1>7, <2>1, <2>2
<1>8. CASE ListenerStops
  <2>1. svc' \in ServiceStates
    BY <1>8 DEF ListenerStops, ServiceStates
  <2>2. QED
    BY <1>8, <2>1 DEF ListenerStops
<1>9. CASE CancelCtx
  BY <1>9 DEF CancelCtx
<1>10. CASE SubscribeFails
  <2>1. watched' \in {"nil", "open", "closed"} /\ svc' = "failed"
    BY <1>10 DEF SubscribeFails, ServiceStates
  <2>2. QED
    BY <1>10, <2>1 DEF SubscribeFails, ServiceStates
<1>11. CASE TakeEvent
  BY <1>11, TakeTypes DEF TakeEvent, Updates
<1>12. CASE ShutdownBegins
  <2>1. (watched' = "closed" /\ events' = <<>>) \/ UNCHANGED <<watched, events>>
    BY <1>12, Zenon DEF ShutdownBegins
  <2>2. events' \in Seq(Triggers) /\ watched' \in {"nil", "open", "closed"}
    <3>1. CASE watched' = "closed" /\ events' = <<>>
      BY <3>1
    <3>2. CASE UNCHANGED <<watched, events>>
      BY <3>2
    <3>3. QED
      BY <2>1, <3>1, <3>2
  <2>3. UNCHANGED <<ver, file, torn, broken, mu, target, wpc, cur, updateCh, svc, got, since, ctxDone>> /\ shut' = "closing" /\ called' = svc
    BY <1>12 DEF ShutdownBegins
  <2>4. QED
    BY <2>2, <2>3
<1>13. CASE ShutdownEnds
  BY <1>13 DEF ShutdownEnds
<1>14. CASE SendPanics
  <2>1. events' \in Seq(Triggers) /\ mu' \in Clients \union {NoClient}
    BY <1>14 DEF SendPanics, ServiceStates
  <2>2. broken' \subseteq Triggers
    BY <1>14 DEF SendPanics, ServiceStates
  <2>3. QED
    BY <1>14, <2>1, <2>2 DEF SendPanics, ServiceStates
<1>15. CASE WatchStops
  <2>1. events' \in Seq(Triggers)
    BY <1>15 DEF WatchStops
  <2>2. QED
    BY <1>15, <2>1 DEF WatchStops
<1>16. CASE ReadFile
  <2>1. wpc' \in {"select", "send"} /\ (UNCHANGED cur \/ cur' = <<cur[1], file[cur[1]]>>)
    BY <1>16 DEF ReadFile
  <2>2. cur' \in Triggers \X (0..MaxWrites)
    BY <2>1
  <2>3. QED
    BY <1>16, <2>1, <2>2 DEF ReadFile
<1>17. CASE Receive
  <2>1. updateCh' \in Seq(Triggers \X (0..MaxWrites)) /\ Len(updateCh') <= Cap /\ got' \in [Triggers -> 0..MaxWrites]
    BY <1>17, ReceiveTypes DEF Updates
  <2>2. QED
    BY <1>17, <2>1 DEF Receive
<1>18. CASE Send
  BY <1>18, SendTypes DEF Send, Updates
<1>19. QED
  BY <1>1, <1>2, <1>3, <1>4, <1>5, <1>6, <1>7, <1>8, <1>9, <1>10, <1>11, <1>12, <1>13, <1>14, <1>15, <1>16, <1>17, <1>18 DEF Next

LEMMA FilesStep ==
    TypeOK /\ WithinBound /\ FileIsNewest /\ TornIsExplained /\ [Next]_vars
        => WithinBound' /\ FileIsNewest' /\ TornIsExplained'
<1> SUFFICES ASSUME TypeOK, WithinBound, FileIsNewest, TornIsExplained, [Next]_vars
             PROVE  WithinBound' /\ FileIsNewest' /\ TornIsExplained'
  OBVIOUS
<1> USE BoundAssumption, ClientAssumption DEF TypeOK, WithinBound, FileIsNewest, TornIsExplained
<1>1. ASSUME NEW c \in Clients, NEW t \in Triggers, WriteBegins(c, t)
      PROVE  WithinBound' /\ FileIsNewest' /\ TornIsExplained'
  BY <1>1 DEF WriteBegins
<1>2. ASSUME NEW c \in Clients, WriteEnds(c) PROVE WithinBound' /\ FileIsNewest' /\ TornIsExplained'
  BY <1>2 DEF WriteEnds
<1>3. ASSUME NEW c \in Clients, WriteFails(c) PROVE WithinBound' /\ FileIsNewest' /\ TornIsExplained'
  BY <1>3 DEF WriteFails
<1>4. ASSUME NEW t \in Triggers, Delete(t) PROVE WithinBound' /\ FileIsNewest' /\ TornIsExplained'
  BY <1>4 DEF Delete
<1>5. CASE \/ UNCHANGED vars
           \/ LoadAll \/ SubscribeBegins \/ SubscribeEnds \/ SubscribeFails
           \/ Receive \/ ListenerStops \/ CancelCtx
           \/ TakeEvent \/ ReadFile \/ Send \/ WatchStops \/ ShutdownBegins \/ ShutdownEnds
  <2>1. UNCHANGED files
    BY <1>5 DEF vars, files, LoadAll, SubscribeBegins, SubscribeEnds, SubscribeFails, Receive, ListenerStops, CancelCtx,
       TakeEvent, ReadFile, Send, WatchStops, ShutdownBegins, ShutdownEnds
  <2>2. QED
    BY <2>1 DEF files
<1>6. CASE SendPanics
  BY <1>6 DEF SendPanics
<1>7. QED
  BY <1>1, <1>2, <1>3, <1>4, <1>5, <1>6 DEF Next

----------------------------------------------------------------------------
LEMMA OrderStep == FileInv /\ [Next]_vars => Ordered'
<1> SUFFICES ASSUME FileInv, [Next]_vars PROVE Ordered'
  OBVIOUS
<1> USE Elements DEF FileInv, IsUpdate, files, watcher, service, shutdown
<1>1. ASSUME NEW c \in Clients, WriteEnds(c) PROVE Ordered'
  <2>1. ver' = [ver EXCEPT ![target[c]] = @ + 1] /\ UNCHANGED <<wpc, cur, updateCh, got>>
    BY <1>1 DEF WriteEnds
  <2>2. \A t \in Triggers : ver[t] <= ver'[t] /\ ver'[t] \in Nat
    <3>1. \A t \in Triggers : ver'[t] = IF t = target[c] THEN ver[t] + 1 ELSE ver[t]
      BY <2>1 DEF TypeOK
    <3>2. \A t \in Triggers : ver[t] \in Nat
      OBVIOUS
    <3>3. QED
      BY ONLY <3>1, <3>2
  <2>3. \A i \in DOMAIN updateCh' : Due(updateCh[i])'
    BY <2>1, <2>2 DEF Ordered, Due
  <2>4. wpc' = "send" => Due(cur)'
    BY <2>1, <2>2 DEF Ordered, Due
  <2>5. \A t \in Triggers : got'[t] <= ver'[t]
    BY <2>1, <2>2 DEF Ordered
  <2>6. QED
    BY <2>1, <2>3, <2>4, <2>5 DEF Ordered, Follows
<1>2. CASE LoadAll
  <2>1. updateCh = <<>> /\ wpc = "off" /\ UNCHANGED <<ver, wpc, updateCh>>
    BY <1>2 DEF LoadAll, Phases
  <2>2. \A t \in Triggers : got'[t] <= ver[t]
    BY <1>2 DEF LoadAll, Ordered, FileIsNewest
  <2>3. QED
    BY <2>1, <2>2 DEF Ordered
<1>3. CASE Receive
  <2>1. /\ updateCh' = Tail(updateCh) /\ updateCh # <<>>
        /\ got' = [got EXCEPT ![Head(updateCh)[1]] = Head(updateCh)[2]]
        /\ UNCHANGED <<ver, wpc, cur>>
    BY <1>3 DEF Receive
  <2>2. /\ Head(updateCh) = updateCh[1] /\ 1 \in DOMAIN updateCh
        /\ \A i \in DOMAIN updateCh' : i \in Nat /\ i > 0 /\ i + 1 \in DOMAIN updateCh /\ updateCh'[i] = updateCh[i + 1]
    BY <2>1, TailIs
  <2>3. \A t \in Triggers : got'[t] = IF t = updateCh[1][1] THEN updateCh[1][2] ELSE got[t]
    BY <2>1, <2>2 DEF TypeOK
  <2>4. IsUpdate(updateCh[1]) /\ Due(updateCh[1])
    BY <2>2 DEF Ordered
  <2>5. ASSUME NEW e, IsUpdate(e), Due(e), Follows(updateCh[1], e)
        PROVE  got'[e[1]] <= e[2] /\ e[2] <= ver[e[1]]
    BY <2>3, <2>4, <2>5 DEF Follows, Due
  <2>6. \A i, j \in DOMAIN updateCh' : i < j => Follows(updateCh'[i], updateCh'[j])
    BY <2>2 DEF Ordered
  <2>7. \A i \in DOMAIN updateCh' : Due(updateCh[i])'
    <3> SUFFICES ASSUME NEW i \in DOMAIN updateCh' PROVE Due(updateCh[i])'
      OBVIOUS
    <3>1. i + 1 \in DOMAIN updateCh /\ updateCh'[i] = updateCh[i + 1] /\ 1 < i + 1
      BY <2>2
    <3>2. IsUpdate(updateCh[i + 1]) /\ Due(updateCh[i + 1]) /\ Follows(updateCh[1], updateCh[i + 1])
      BY <2>2, <3>1 DEF Ordered
    <3>3. got'[updateCh[i + 1][1]] <= updateCh[i + 1][2] /\ updateCh[i + 1][2] <= ver[updateCh[i + 1][1]]
      BY <2>5, <3>2
    <3>4. QED
      BY <2>1, <3>1, <3>3 DEF Due
  <2>8. wpc' = "send" => Due(cur)' /\ \A i \in DOMAIN updateCh' : Follows(updateCh'[i], cur')
    <3> SUFFICES ASSUME wpc = "send" PROVE Due(cur)' /\ \A i \in DOMAIN updateCh' : Follows(updateCh'[i], cur')
      BY <2>1
    <3>1. Due(cur) /\ IsUpdate(cur) /\ \A i \in DOMAIN updateCh : Follows(updateCh[i], cur)
      BY DEF Ordered
    <3>2. got'[cur[1]] <= cur[2] /\ cur[2] <= ver[cur[1]]
      BY <2>2, <2>5, <3>1
    <3>3. QED
      BY <2>1, <2>2, <3>1, <3>2 DEF Due
  <2>9. \A t \in Triggers : got'[t] <= ver'[t]
    BY <2>1, <2>3, <2>4 DEF Ordered, Due
  <2>10. QED
    BY <2>6, <2>7, <2>8, <2>9 DEF Ordered
<1>4. CASE ReadFile
  <2>1. UNCHANGED <<ver, updateCh, got>>
    BY <1>4 DEF ReadFile
  <2>2. CASE wpc' = "select"
    BY <2>1, <2>2 DEF Ordered, Due
  <2>3. CASE cur' = <<cur[1], file[cur[1]]>> /\ file[cur[1]] # 0
    <3>1. cur'[1] = cur[1] /\ cur'[2] = ver[cur[1]] /\ cur[1] \in Triggers
      BY <2>3 DEF FileIsNewest
    <3>2. \A i \in DOMAIN updateCh : Follows(updateCh[i], cur')
      BY <3>1 DEF Ordered, Due, Follows
    <3>3. Due(cur)'
      BY <2>1, <3>1 DEF Ordered, Due
    <3>4. QED
      BY <2>1, <3>2, <3>3 DEF Ordered, Due
  <2>4. QED
    BY <1>4, <2>2, <2>3 DEF ReadFile
<1>5. CASE Send
  <2>1. /\ updateCh' = Append(updateCh, cur) /\ wpc = "send" /\ wpc' = "select"
        /\ UNCHANGED <<ver, got, cur>>
    BY <1>5 DEF Send
  <2>2. /\ DOMAIN updateCh' = DOMAIN updateCh \union {Len(updateCh) + 1} /\ Len(updateCh) \in Nat
        /\ \A i \in DOMAIN updateCh : i \in 1..Len(updateCh) /\ updateCh'[i] = updateCh[i]
        /\ updateCh'[Len(updateCh) + 1] = cur
    BY <2>1, AppendIs
  <2>3. \A i, j \in DOMAIN updateCh' : i < j => Follows(updateCh'[i], updateCh'[j])
    BY <2>1, <2>2 DEF Ordered
  <2>4. QED
    BY <2>1, <2>2, <2>3 DEF Ordered, Due
<1>6. CASE TakeEvent
  <2>1. wpc' = "read" /\ UNCHANGED <<ver, got, updateCh>>
    BY <1>6 DEF TakeEvent
  <2>2. QED
    BY <2>1 DEF Ordered, Due
<1>7. ASSUME \/ UNCHANGED vars
             \/ \E c \in Clients, t \in Triggers : WriteBegins(c, t)
             \/ \E c \in Clients : WriteFails(c)
             \/ \E t \in Triggers : Delete(t)
             \/ SubscribeBegins \/ SubscribeEnds \/ SubscribeFails \/ ListenerStops \/ CancelCtx
             \/ SendPanics \/ WatchStops \/ ShutdownBegins \/ ShutdownEnds
      PROVE  Ordered'
  <2>1. UNCHANGED <<ver, cur, got, updateCh>> /\ (wpc' = "send" => wpc = "send")
    BY <1>7 DEF vars, WriteBegins, WriteFails, Delete, SubscribeBegins, SubscribeEnds, SubscribeFails,
       ListenerStops, CancelCtx, SendPanics, WatchStops, ShutdownBegins, ShutdownEnds
  <2>2. QED
    BY <2>1 DEF Ordered, Follows, Due
<1>8. QED
  BY <1>1, <1>2, <1>3, <1>4, <1>5, <1>6, <1>7 DEF Next

LEMMA PhaseStep ==
    Phases /\ WaitedFor /\ NoSendOnClosed /\ [Next]_vars => Phases' /\ WaitedFor' /\ NoSendOnClosed'
<1> SUFFICES ASSUME Phases, WaitedFor, NoSendOnClosed, [Next]_vars
             PROVE  Phases' /\ WaitedFor' /\ NoSendOnClosed'
  OBVIOUS
<1> USE DEF Phases, WaitedFor, NoSendOnClosed, Premature, files, watcher, service, shutdown
<1>1. ASSUME \/ UNCHANGED vars
             \/ \E c \in Clients, t \in Triggers : WriteBegins(c, t)
             \/ \E c \in Clients : WriteEnds(c) \/ WriteFails(c)
             \/ \E t \in Triggers : Delete(t)
      PROVE  UNCHANGED <<wpc, updateCh, svc, got, shut, called>>
  BY <1>1 DEF vars, WriteBegins, WriteEnds, WriteFails, Delete
<1>2. CASE LoadAll \/ SubscribeBegins \/ SubscribeEnds \/ SubscribeFails \/ CancelCtx
  BY <1>2 DEF LoadAll, SubscribeBegins, SubscribeEnds, SubscribeFails, CancelCtx
<1>3. CASE Receive \/ ListenerStops
  BY <1>3 DEF Receive, ListenerStops
<1>4. CASE TakeEvent \/ ReadFile \/ Send \/ WatchStops
  BY <1>4 DEF TakeEvent, ReadFile, Send, WatchStops
<1>5. CASE SendPanics
  BY <1>5 DEF SendPanics
<1>6. CASE ShutdownBegins \/ ShutdownEnds
  BY <1>6 DEF ShutdownBegins, ShutdownEnds
<1>7. QED
  BY <1>1, <1>2, <1>3, <1>4, <1>5, <1>6 DEF Next

LEMMA Inductive == Spec => []FileInv
<1>1. FileInv /\ [Next]_vars => TypeOK' /\ WithinBound' /\ FileIsNewest' /\ TornIsExplained'
  BY TypeStep, FilesStep DEF FileInv
<1>2. FileInv /\ [Next]_vars => Ordered' /\ Phases' /\ WaitedFor' /\ NoSendOnClosed'
  BY OrderStep, PhaseStep DEF FileInv
<1>3. FileInv /\ [Next]_vars => FileInv'
  BY <1>1, <1>2 DEF FileInv
<1>4. QED
  BY <1>3, InitInv, PTL DEF Spec

----------------------------------------------------------------------------
\* Every variable has its type: what is in the channel and in the watcher's
\* hands are versions of triggers, and the channel is never beyond its capacity.
THEOREM Typing == Spec => []TypeOK
<1>1. FileInv => TypeOK
  BY DEF FileInv
<1>2. QED
  BY <1>1, Inductive, PTL

\* The watcher's send panics on the closed update channel only if Shutdown was called
\* before Subscribe had returned: otherwise Shutdown waits for the goroutine before it
\* closes the channel, and none is started after it (SubscribeEnds, ShutdownEnds).
THEOREM ClosedLast == Spec => []NoSendOnClosed
<1>1. FileInv => NoSendOnClosed
  BY DEF FileInv
<1>2. QED
  BY <1>1, Inductive, PTL

\* All fails only over a file whose last write failed, never over one that a
\* handler is writing: the mutex keeps half-written files from its reader.
THEOREM WholeFiles == Spec => LoadSeesWholeFiles
<1>1. ASSUME FileInv, [Next]_vars, svc = "starting", svc' = "failed" PROVE \E t \in broken : torn[t]
  <2>1. LoadAll
    BY <1>1 DEF Next, vars, service, WriteBegins, WriteEnds, WriteFails, Delete, SubscribeBegins,
       SubscribeEnds, SubscribeFails, Receive, ListenerStops, CancelCtx, TakeEvent, ReadFile, Send,
       SendPanics, WatchStops, ShutdownBegins, ShutdownEnds
  <2>2. mu = NoClient /\ \E t \in Triggers : torn[t]
    BY <1>1, <2>1 DEF LoadAll
  <2>3. QED
    BY <1>1, <2>2 DEF FileInv, TornIsExplained
<1>2. FileInv /\ [Next]_vars => [svc = "starting" /\ svc' = "failed" => \E t \in broken : torn[t]]_vars
  BY <1>1
<1>3. QED
  BY <1>2, Inductive, PTL DEF Spec, LoadSeesWholeFiles

----------------------------------------------------------------------------
LEMMA FeedStep == FileInv /\ [Next]_vars => [Feed!Next]_(Feed!vars)
<1> SUFFICES ASSUME FileInv, [Next]_vars PROVE [Feed!Next]_(Feed!vars)
  OBVIOUS
<1> USE DEF FileInv, Feed!vars, files, service
<1>1. ASSUME NEW c \in Clients, WriteEnds(c) PROVE Feed!Next
  <2>1. target[c] \in Triggers
    BY <1>1 DEF TypeOK
  <2>2. Feed!Store(target[c])
    BY <1>1 DEF WriteEnds, Feed!Store
  <2>3. QED
    BY <2>1, <2>2 DEF Feed!Next
<1>2. CASE LoadAll
  <2>1. CASE got' = got
    BY <1>2, <2>1 DEF LoadAll
  <2>2. CASE got' = file
    <3>1. got = [t \in Triggers |-> 0] /\ UNCHANGED ver
      BY <1>2 DEF LoadAll, Phases
    <3>2. file \in [Triggers -> Nat] /\ \A t \in Triggers : ver[t] \in Nat
      <4>1. 0..MaxWrites \subseteq Nat
        BY BoundAssumption
      <4>2. QED
        BY <4>1, Elements DEF TypeOK
    <3>3. Feed!Learn
      BY <2>2, <3>1, <3>2 DEF Feed!Learn, FileIsNewest
    <3>4. QED
      BY <3>3 DEF Feed!Next
  <2>3. QED
    BY <1>2, <2>1, <2>2 DEF LoadAll
<1>3. CASE Receive
  <2>1. got' = [got EXCEPT ![Head(updateCh)[1]] = Head(updateCh)[2]] /\ UNCHANGED ver /\ updateCh # <<>>
    BY <1>3 DEF Receive
  <2>2. Head(updateCh) = updateCh[1] /\ 1 \in DOMAIN updateCh
    BY <2>1, Elements, TailIs
  <2>3. IsUpdate(updateCh[1]) /\ Due(updateCh[1])
    BY <2>2, Elements DEF Ordered
  <2>4. /\ got' = [got EXCEPT ![updateCh[1][1]] = updateCh[1][2]]
        /\ \A t \in Triggers : got[t] \in Nat /\ got[t] <= ver[t] /\ ver[t] \in Nat
    BY <2>1, <2>2, Elements DEF Ordered
  <2>5. got \in [Triggers -> Nat]
    BY BoundAssumption DEF TypeOK
  <2>6. got' \in [Triggers -> Nat]
    BY <2>3, <2>4, <2>5 DEF IsUpdate
  <2>7. \A t \in Triggers : got[t] <= got'[t] /\ got'[t] <= ver[t]
    BY <2>3, <2>4, <2>5 DEF Due, IsUpdate
  <2>8. Feed!Learn
    BY <2>1, <2>6, <2>7 DEF Feed!Learn
  <2>9. QED
    BY <2>8 DEF Feed!Next
<1>4. ASSUME \/ UNCHANGED vars
             \/ \E c \in Clients, t \in Triggers : WriteBegins(c, t)
             \/ \E c \in Clients : WriteFails(c)
             \/ \E t \in Triggers : Delete(t)
             \/ SubscribeBegins \/ SubscribeEnds \/ SubscribeFails \/ ListenerStops \/ CancelCtx
             \/ TakeEvent \/ ReadFile \/ Send \/ SendPanics
             \/ WatchStops \/ ShutdownBegins \/ ShutdownEnds
      PROVE  UNCHANGED <<ver, got>>
  BY <1>4 DEF vars, WriteBegins, WriteFails, Delete, SubscribeBegins, SubscribeEnds,
     SubscribeFails, ListenerStops, CancelCtx, TakeEvent, ReadFile, Send, SendPanics, WatchStops, ShutdownBegins, ShutdownEnds
<1>5. QED
  BY <1>1, <1>2, <1>3, <1>4 DEF Next

\* The store implements the feed it promises the service: what the service knows
\* of a trigger was stored and never goes back, although the watcher reads a
\* file later than the event that announced it (handleFileChange).
THEOREM Implements == Spec => ImplementsFeed
<1>1. Init => Feed!Init
  BY BoundAssumption DEF Init, Feed!Init
<1>2. FileInv /\ [Next]_vars => [Feed!Next]_(Feed!vars)
  BY FeedStep
<1>3. QED
  BY <1>1, <1>2, Inductive, PTL DEF Spec, ImplementsFeed, Feed!Spec

\* The promise of TriggerFeed in terms of its state.
WasStored == (got \in [Triggers -> Nat]) /\ \A t \in Triggers : got[t] <= ver[t] /\ ver[t] \in Nat

NeverGoesBack == \A t \in Triggers : got[t] <= got'[t] /\ got'[t] <= ver'[t]

\* What that means: the service never goes back to an older version of a trigger and never
\* knows one that was not stored, however late the watcher reads a file.
THEOREM FeedNeverGoesBack == Spec => [][NeverGoesBack]_(Feed!vars)
<1>1. Feed!Init => WasStored
  BY DEF Feed!Init, WasStored
<1>2. ASSUME WasStored, [Feed!Next]_(Feed!vars) PROVE WasStored' /\ [NeverGoesBack]_(Feed!vars)
  <2>1. CASE UNCHANGED <<ver, got>>
    BY <1>2, <2>1 DEF WasStored, Feed!vars
  <2>2. CASE Feed!Learn
    BY <1>2, <2>2 DEF WasStored, NeverGoesBack, Feed!Learn
  <2>3. ASSUME NEW t \in Triggers, Feed!Store(t) PROVE WasStored' /\ NeverGoesBack
    BY <1>2, <2>3 DEF WasStored, NeverGoesBack, Feed!Store
  <2>4. QED
    BY <1>2, <2>1, <2>2, <2>3 DEF Feed!Next, Feed!vars
<1>3. QED
  BY <1>1, <1>2, Implements, PTL DEF ImplementsFeed, Feed!Spec
=============================================================================
