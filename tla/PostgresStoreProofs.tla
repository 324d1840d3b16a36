------------------------- MODULE PostgresStoreProofs -------------------------
(***************************************************************************)
(* Proofs about PostgresStore, for any number of triggers and of versions  *)
(* and any capacity of the channel.                                        *)
(*                                                                         *)
(* What is on its way to the service (notifications, the one the listener  *)
(* handles, the channel) is one queue, in which the versions of a trigger  *)
(* increase; all of it is newer than what was skipped and not older than   *)
(* what the service knows.                                                 *)
(***************************************************************************)
EXTENDS PostgresStore, TLAPS

Newer(e, f) == e[1] = f[1] => e[2] < f[2]

Increasing(s) == \A i, j \in DOMAIN s : i < j => Newer(s[i], s[j])

Queued ==
    /\ Increasing(notes) /\ Increasing(updateCh)
    /\ \A i \in DOMAIN updateCh, j \in DOMAIN notes : Newer(updateCh[i], notes[j])
    /\ lpc = "send" =>
          /\ \A i \in DOMAIN updateCh : Newer(updateCh[i], cur)
          /\ \A j \in DOMAIN notes : Newer(cur, notes[j])

\* An update on its way, against what the service knows and what is committed.
Due(e) == got[e[1]] <= e[2] /\ e[2] <= ver[e[1]]

AllDue ==
    /\ \A i \in DOMAIN notes : Due(notes[i]) /\ skipped[notes[i][1]] < notes[i][2]
    /\ \A i \in DOMAIN updateCh : Due(updateCh[i])
    /\ lpc = "send" => Due(cur) /\ skipped[cur[1]] < cur[2]
    /\ \A t \in Triggers : got[t] <= ver[t] /\ skipped[t] <= ver[t]

\* Before it subscribes nothing is on its way; while it listens, so does the session.
Phases ==
    /\ svc \in {"starting", "loaded"} =>
          notes = <<>> /\ updateCh = <<>> /\ lpc = "off" /\ ~listening
    /\ svc = "starting" => got = [t \in Triggers |-> 0]
    /\ svc = "listening" /\ conn = "ok" /\ shut = "no" => listening

\* Once the update channel is closed the listener is neither at its send nor on its
\* way there: started late, it looks at stopCh first.
SendsBeforeClose == shut = "closed" => lpc \in {"off", "check", "gone"}

StoreInv == TypeOK /\ Queued /\ AllDue /\ Phases /\ SendsBeforeClose /\ NothingLost

----------------------------------------------------------------------------
LEMMA TailIs ==
    ASSUME NEW T, NEW s \in Seq(T), s # <<>>
    PROVE  /\ Tail(s) \in Seq(T) /\ Len(Tail(s)) = Len(s) - 1
           /\ s[1] \in T /\ Head(s) = s[1] /\ Len(s) >= 1
           /\ \A i \in DOMAIN Tail(s) : i + 1 \in DOMAIN s /\ Tail(s)[i] = s[i + 1]
  OBVIOUS

LEMMA AppendIs ==
    ASSUME NEW T, NEW s \in Seq(T), NEW e \in T
    PROVE  /\ Append(s, e) \in Seq(T) /\ Len(Append(s, e)) = Len(s) + 1
           /\ DOMAIN Append(s, e) = DOMAIN s \union {Len(s) + 1}
           /\ \A i \in DOMAIN s : i \in 1..Len(s) /\ Append(s, e)[i] = s[i]
           /\ Append(s, e)[Len(s) + 1] = e
  OBVIOUS

LEMMA InitInv == Init => StoreInv
<1> SUFFICES ASSUME Init PROVE StoreInv
  OBVIOUS
<1>1. TypeOK
  <2>1. notes \in Seq(Notices) /\ updateCh \in Seq(Notices) /\ Len(updateCh) <= Cap
    BY BoundAssumption DEF Init
  <2>2. cur \in Triggers \X (0..MaxWrites) /\ lpc # "send"
    BY BoundAssumption DEF Init
  <2>3. ver \in [Triggers -> 0..MaxWrites] /\ row \in [Triggers -> BOOLEAN]
    BY BoundAssumption DEF Init
  <2>4. QED
    BY <2>1, <2>2, <2>3, BoundAssumption DEF Init, TypeOK
<1>2. Queued /\ AllDue /\ Phases /\ SendsBeforeClose /\ NothingLost
  BY <1>1 DEF Init, TypeOK, Queued, Increasing, AllDue, Phases, SendsBeforeClose, NothingLost
<1>3. QED
  BY <1>1, <1>2 DEF StoreInv

LEMMA TypeStep == TypeOK /\ [Next]_vars => TypeOK'
<1> SUFFICES ASSUME TypeOK, [Next]_vars PROVE TypeOK'
  OBVIOUS
<1> USE BoundAssumption DEF TypeOK, table, session, listener, service
<1>1. CASE UNCHANGED vars
  BY <1>1 DEF vars
<1>2. ASSUME NEW t \in Triggers, Commit(t), row' \in [Triggers -> BOOLEAN] PROVE TypeOK'
  <2>1. ver' \in [Triggers -> 0..MaxWrites] /\ <<t, ver[t] + 1>> \in Notices
    BY <1>2, SMTT(30) DEF Commit, Notices
  <2>2. notes' \in Seq(Notices)
    BY <1>2, <2>1, AppendIs DEF Commit, Notify, Notices
  <2>3. QED
    BY <1>2, <2>1, <2>2 DEF Commit, Notices
<1>3. ASSUME NEW by \in Connections, NEW t \in Triggers, Add(by, t) \/ Update(by, t) PROVE TypeOK'
  BY <1>2, <1>3 DEF Add, Update
<1>4. ASSUME NEW by \in Connections, NEW t \in Triggers, Delete(by, t) PROVE TypeOK'
  BY <1>4 DEF Delete
<1>5. CASE LoseConnection
  <2>1. notes' \in Seq(Notices)
    BY <1>5 DEF LoseConnection
  <2>2. QED
    BY <1>5, <2>1 DEF LoseConnection
<1>6. CASE LoadAll
  <2>1. got' = [t \in Triggers |-> IF row[t] THEN ver[t] ELSE 0] \/ got' = got
    BY <1>6 DEF LoadAll
  <2>2. [t \in Triggers |-> IF row[t] THEN ver[t] ELSE 0] \in [Triggers -> 0..MaxWrites]
    OBVIOUS
  <2>3. got' \in [Triggers -> 0..MaxWrites]
    BY <2>1, <2>2
  <2>4. svc' \in {"loaded", "failed"}
    BY <1>6 DEF LoadAll
  <2>5. QED
    BY <1>6, <2>3, <2>4 DEF LoadAll
<1>10. CASE Subscribe
  BY <1>10 DEF Subscribe
<1>7. CASE Receive
  <2>1. /\ updateCh' \in Seq(Notices) /\ Len(updateCh') <= Cap
        /\ Head(updateCh) \in Notices
    BY <1>7, TailIs DEF Receive
  <2>2. got' \in [Triggers -> 0..MaxWrites]
    <3>1. PICK u \in Triggers, v \in 1..MaxWrites : Head(updateCh) = <<u, v>>
      BY <2>1, SMTT(30) DEF Notices
    <3>2. Head(updateCh)[1] = u /\ Head(updateCh)[2] = v
      BY <3>1, SMTT(30)
    <3>3. got' = [got EXCEPT ![u] = v]
      BY <1>7, <3>2 DEF Receive
    <3>4. QED
      BY <3>1, <3>3
  <2>3. QED
    BY <1>7, <2>1, <2>2 DEF Receive
<1>8. CASE ListenerStops \/ CancelCtx \/ Check \/ WaitFails
  BY <1>8, ZenonT(30) DEF ListenerStops, CancelCtx, Check, WaitFails
<1>9. CASE WaitReturns
  <2>1. notes' \in Seq(Notices) /\ cur' \in Notices
    BY <1>9, TailIs DEF WaitReturns
  <2>2. cur' \in Triggers \X (0..MaxWrites)
    BY <2>1 DEF Notices
  <2>3. QED
    BY <1>9, <2>1, <2>2 DEF WaitReturns
<1>11. CASE Send
  <2>1. CASE Len(updateCh) < Cap
    <3>1. cur \in Notices
      BY <1>11 DEF Send
    <3>2. updateCh' \in Seq(Notices) /\ Len(updateCh') <= Cap
      <4>1. updateCh' = Append(updateCh, cur)
        BY <1>11, <2>1 DEF Send
      <4>2. Len(updateCh) \in Nat /\ Len(updateCh') = Len(updateCh) + 1
        BY <3>1, <4>1, AppendIs
      <4>3. QED
        BY <2>1, <3>1, <4>1, <4>2, AppendIs
    <3>3. QED
      BY <1>11, <2>1, <3>2 DEF Send
  <2>2. CASE ~(Len(updateCh) < Cap)
    BY <1>11, <2>2 DEF Send
  <2>3. QED
    BY <2>1, <2>2
<1>12. CASE ShutdownBegins \/ ShutdownEnds
  BY <1>12 DEF ShutdownBegins, ShutdownEnds
<1>13. QED
  BY <1>1, <1>3, <1>4, <1>5, <1>6, <1>7, <1>8, <1>9, <1>10, <1>11, <1>12 DEF Next

IsNotice(e) == e[1] \in Triggers /\ e[2] \in Nat

LEMMA Elements ==
    ASSUME TypeOK
    PROVE  /\ \A i \in DOMAIN notes : i \in Nat /\ IsNotice(notes[i])
           /\ \A i \in DOMAIN updateCh : i \in Nat /\ IsNotice(updateCh[i])
           /\ IsNotice(cur)
           /\ \A t \in Triggers : ver[t] \in Nat /\ got[t] \in Nat /\ skipped[t] \in Nat
<1>1. \A e \in Notices : IsNotice(e)
  BY BoundAssumption DEF Notices, IsNotice
<1>2. \A i \in DOMAIN notes : i \in Nat /\ notes[i] \in Notices
  BY DEF TypeOK
<1>3. \A i \in DOMAIN updateCh : i \in Nat /\ updateCh[i] \in Notices
  BY DEF TypeOK
<1>4. IsNotice(cur) /\ \A t \in Triggers : ver[t] \in Nat /\ got[t] \in Nat /\ skipped[t] \in Nat
  BY BoundAssumption DEF TypeOK, IsNotice
<1>5. QED
  BY <1>1, <1>2, <1>3, <1>4

LEMMA QueueStep == TypeOK /\ Queued /\ AllDue /\ Phases /\ [Next]_vars => Queued' /\ AllDue'
<1> SUFFICES ASSUME TypeOK, Queued, AllDue, Phases, [Next]_vars PROVE Queued' /\ AllDue'
  OBVIOUS
<1> USE Elements DEF IsNotice
<1>1. CASE UNCHANGED vars
  BY <1>1 DEF vars, Queued, Increasing, Newer, AllDue, Due
<1>2. ASSUME NEW t \in Triggers, Commit(t) PROVE Queued' /\ AllDue'
  <2>1. /\ ver' = [ver EXCEPT ![t] = @ + 1]
        /\ UNCHANGED <<lpc, cur, updateCh, got, skipped>>
    BY <1>2 DEF Commit, listener, service
  <2>2. \A u \in Triggers : ver'[u] \in Nat /\ ver[u] <= ver'[u]
    <3>1. \A u \in Triggers : ver'[u] = IF u = t THEN ver[t] + 1 ELSE ver[u]
      BY <2>1 DEF TypeOK
    <3>2. QED
      BY <3>1
  <2>3. ver'[t] = ver[t] + 1
    BY <2>1 DEF TypeOK
  <2>4. CASE notes' = notes
    BY <2>1, <2>2, <2>4 DEF Queued, Increasing, Newer, AllDue, Due
  <2>5. CASE notes' = Append(notes, <<t, ver[t] + 1>>)
    <3> DEFINE e == <<t, ver[t] + 1>>
    <3>1. e[1] = t /\ e[2] = ver[t] + 1 /\ e \in Triggers \X Nat
      OBVIOUS
    <3>2. notes \in Seq(Triggers \X Nat)
      BY BoundAssumption, SMTT(30) DEF TypeOK, Notices
    <3>3. /\ DOMAIN notes' = DOMAIN notes \union {Len(notes) + 1}
          /\ \A i \in DOMAIN notes : i \in 1..Len(notes) /\ notes'[i] = notes[i]
          /\ notes'[Len(notes) + 1] = e
      BY <2>5, <3>1, <3>2, AppendIs
    <3> HIDE DEF e
    <3>4. Len(notes) \in Nat
      BY <3>2
    <3>5. \A i \in DOMAIN notes : Newer(notes[i], e)
      BY <3>1 DEF AllDue, Due, Newer
    <3>6. Increasing(notes')
      BY <3>3, <3>4, <3>5 DEF Queued, Increasing
    <3>7. Queued'
      BY <2>1, <3>1, <3>3, <3>6 DEF Queued, AllDue, Due, Newer
    <3>8. AllDue'
      <4>1. ASSUME NEW u \in Triggers, NEW v \in Nat, v <= ver[u] PROVE v <= ver'[u]
        BY <2>2, <4>1
      <4>2. \A i \in DOMAIN notes' : Due(notes[i])' /\ skipped'[notes'[i][1]] < notes'[i][2]
        <5>1. got'[e[1]] <= e[2] /\ e[2] <= ver'[e[1]] /\ skipped'[e[1]] < e[2]
          <6>1. got[t] \in Nat /\ skipped[t] \in Nat /\ ver[t] \in Nat /\ got[t] <= ver[t] /\ skipped[t] <= ver[t]
            BY DEF AllDue
          <6>2. QED
            BY ONLY <2>1, <2>3, <3>1, <6>1
        <5>2. \A i \in DOMAIN notes : Due(notes[i])' /\ skipped'[notes'[i][1]] < notes'[i][2]
          BY <2>1, <3>3, <4>1 DEF AllDue, Due
        <5>3. QED
          BY <3>3, <5>1, <5>2 DEF Due
      <4>3. (\A i \in DOMAIN updateCh' : Due(updateCh[i])') /\ (lpc' = "send" => Due(cur)' /\ skipped'[cur'[1]] < cur'[2])
        BY <2>1, <4>1 DEF AllDue, Due
      <4>4. \A u \in Triggers : got'[u] <= ver'[u] /\ skipped'[u] <= ver'[u]
        BY <2>1, <4>1 DEF AllDue
      <4>5. QED
        BY <4>2, <4>3, <4>4 DEF AllDue
    <3>9. QED
      BY <3>7, <3>8
  <2>6. QED
    BY <1>2, <2>4, <2>5 DEF Commit, Notify
<1>3. ASSUME NEW by \in Connections, NEW t \in Triggers, Add(by, t) \/ Update(by, t) PROVE Queued' /\ AllDue'
  BY <1>2, <1>3 DEF Add, Update
<1>4. ASSUME NEW by \in Connections, NEW t \in Triggers, Delete(by, t) PROVE Queued' /\ AllDue'
  BY <1>4 DEF Delete, session, listener, service, Queued, Increasing, Newer, AllDue, Due
<1>5. CASE LoseConnection
  BY <1>5 DEF LoseConnection, table, listener, service, Queued, Increasing, Newer, AllDue, Due
<1>6. CASE LoadAll
  <2>1. /\ notes = <<>> /\ updateCh = <<>> /\ lpc = "off"
        /\ UNCHANGED <<ver, notes, lpc, cur, updateCh, skipped>>
    BY <1>6 DEF LoadAll, Phases, table, session, listener
  <2>2. \A t \in Triggers : got'[t] \in Nat /\ got'[t] <= ver[t]
    BY <1>6 DEF LoadAll, AllDue
  <2>3. QED
    BY <2>1, <2>2 DEF Queued, Increasing, AllDue
<1>7. CASE Receive
  <2>1. /\ updateCh' = Tail(updateCh) /\ updateCh # <<>>
        /\ got' = [got EXCEPT ![Head(updateCh)[1]] = Head(updateCh)[2]]
        /\ UNCHANGED <<ver, notes, lpc, cur, skipped>>
    BY <1>7 DEF Receive, table, session, listener
  <2>2. /\ Head(updateCh) = updateCh[1] /\ 1 \in DOMAIN updateCh
        /\ \A i \in DOMAIN updateCh' : i + 1 \in DOMAIN updateCh /\ updateCh'[i] = updateCh[i + 1] /\ i \in Nat /\ i > 0
    BY <2>1, TailIs DEF TypeOK
  <2>3. \A t \in Triggers : got'[t] = IF t = updateCh[1][1] THEN updateCh[1][2] ELSE got[t]
    BY <2>1, <2>2 DEF TypeOK
  <2>4. Increasing(updateCh')
    BY <2>2 DEF Queued, Increasing
  <2>5. Queued'
    BY <2>1, <2>2, <2>4 DEF Queued, Newer, Increasing
  <2>6. \A i \in DOMAIN updateCh' : Newer(updateCh[1], updateCh'[i])
    BY <2>2 DEF Queued, Increasing
  <2>7. IsNotice(updateCh[1]) /\ Due(updateCh[1])
    BY <2>2 DEF AllDue
  <2>8. ASSUME NEW e, IsNotice(e), Due(e), Newer(updateCh[1], e) PROVE Due(e)'
    BY <2>1, <2>3, <2>7, <2>8 DEF Newer, Due
  <2>9. \A i \in DOMAIN notes' : Due(notes[i])' /\ skipped'[notes'[i][1]] < notes'[i][2]
    BY <2>1, <2>2, <2>8 DEF Queued, AllDue
  <2>10. \A i \in DOMAIN updateCh' : Due(updateCh[i])'
    <3> SUFFICES ASSUME NEW i \in DOMAIN updateCh' PROVE Due(updateCh[i])'
      OBVIOUS
    <3>1. i + 1 \in DOMAIN updateCh /\ updateCh'[i] = updateCh[i + 1]
      BY <2>2
    <3>2. IsNotice(updateCh[i + 1]) /\ Due(updateCh[i + 1]) /\ Newer(updateCh[1], updateCh[i + 1])
      BY <2>6, <3>1 DEF AllDue
    <3>3. Due(updateCh[i + 1]) => got'[updateCh[i + 1][1]] <= updateCh[i + 1][2] /\ updateCh[i + 1][2] <= ver[updateCh[i + 1][1]]
      BY <2>3, <2>7, <3>2 DEF Newer, Due
    <3>4. QED
      BY <2>1, <3>1, <3>2, <3>3 DEF Due
  <2>11. lpc' = "send" => Due(cur)' /\ skipped'[cur'[1]] < cur'[2]
    BY <2>1, <2>2, <2>8 DEF Queued, AllDue
  <2>12. \A t \in Triggers : got'[t] <= ver'[t] /\ skipped'[t] <= ver'[t]
    BY <2>1, <2>3, <2>7 DEF AllDue, Due
  <2>13. AllDue'
    BY <2>9, <2>10, <2>11, <2>12 DEF AllDue
  <2>14. QED
    BY <2>5, <2>13
<1>8. CASE WaitReturns
  <2>1. /\ notes' = Tail(notes) /\ notes # <<>> /\ cur' = Head(notes) /\ lpc' = "send"
        /\ UNCHANGED <<ver, updateCh, got, skipped>>
    BY <1>8 DEF WaitReturns, table, session, service
  <2>2. /\ cur' = notes[1] /\ 1 \in DOMAIN notes
        /\ \A i \in DOMAIN notes' : i + 1 \in DOMAIN notes /\ notes'[i] = notes[i + 1] /\ i \in Nat /\ i > 0
    BY <2>1, TailIs DEF TypeOK
  <2>3. Increasing(notes') /\ \A i \in DOMAIN notes' : Newer(cur', notes'[i])
    BY <2>2 DEF Queued, Increasing
  <2>4. Queued'
    BY <2>1, <2>2, <2>3 DEF Queued, Increasing, Newer
  <2>5. AllDue'
    BY <2>1, <2>2 DEF AllDue, Due
  <2>6. QED
    BY <2>4, <2>5
<1>9. CASE Send /\ Len(updateCh) < Cap
  <2>1. /\ updateCh' = Append(updateCh, cur) /\ lpc' = "check" /\ lpc = "send"
        /\ UNCHANGED <<ver, notes, got, skipped, cur>>
    BY <1>9 DEF Send, table, session, service
  <2>2. cur \in Notices /\ Len(updateCh) \in Nat
    BY <2>1 DEF TypeOK
  <2>3. /\ DOMAIN updateCh' = DOMAIN updateCh \union {Len(updateCh) + 1}
        /\ \A i \in DOMAIN updateCh : i \in 1..Len(updateCh) /\ updateCh'[i] = updateCh[i]
        /\ updateCh'[Len(updateCh) + 1] = cur
    BY <2>1, <2>2, AppendIs DEF TypeOK
  <2>4. Increasing(updateCh')
    BY <2>1, <2>2, <2>3 DEF Queued, Increasing
  <2>5. Queued'
    BY <2>1, <2>3, <2>4, SMTT(30) DEF Queued, Newer
  <2>6. AllDue'
    BY <2>1, <2>3 DEF AllDue, Due
  <2>7. QED
    BY <2>5, <2>6
<1>10. CASE Send /\ ~(Len(updateCh) < Cap)
  <2>1. /\ skipped' = [skipped EXCEPT ![cur[1]] = cur[2]] /\ lpc' = "check" /\ lpc = "send"
        /\ UNCHANGED <<ver, notes, got, updateCh, cur>>
    BY <1>10 DEF Send, table, session, service
  <2>2. \A t \in Triggers : skipped'[t] = IF t = cur[1] THEN cur[2] ELSE skipped[t]
    BY <2>1 DEF TypeOK
  <2>3. Queued'
    BY <2>1 DEF Queued, Increasing, Newer
  <2>4. AllDue'
    BY <2>1, <2>2 DEF Queued, Newer, AllDue, Due
  <2>5. QED
    BY <2>3, <2>4
<1>11. CASE Subscribe \/ ListenerStops \/ CancelCtx \/ Check \/ WaitFails \/ ShutdownBegins \/ ShutdownEnds
  <2>1. /\ UNCHANGED <<ver, notes, got, updateCh, skipped, cur>>
        /\ lpc' = "send" => lpc = "send"
    BY <1>11 DEF Subscribe, ListenerStops, CancelCtx, Check, WaitFails, ShutdownBegins, ShutdownEnds, table, session, listener, service
  <2>2. QED
    BY <2>1 DEF Queued, Increasing, Newer, AllDue, Due
<1>12. QED
  BY <1>1, <1>3, <1>4, <1>5, <1>6, <1>7, <1>8, <1>9, <1>10, <1>11 DEF Next

LEMMA PhaseStep == TypeOK /\ Phases /\ [Next]_vars => Phases'
<1> SUFFICES ASSUME TypeOK, Phases, [Next]_vars PROVE Phases'
  OBVIOUS
<1> USE DEF Phases, table, session, listener, service
<1>1. CASE UNCHANGED vars
  BY <1>1 DEF vars
<1>2. ASSUME NEW by \in Connections, NEW t \in Triggers, Add(by, t) \/ Update(by, t) \/ Delete(by, t) PROVE Phases'
  BY <1>2 DEF Add, Update, Delete, Commit, Notify
<1>3. CASE LoseConnection \/ LoadAll \/ Subscribe \/ CancelCtx
  BY <1>3 DEF LoseConnection, LoadAll, Subscribe, CancelCtx
<1>4. CASE Receive \/ ListenerStops
  <2>1. /\ svc = "listening" /\ svc' \in {"listening", "stopped"}
        /\ UNCHANGED <<conn, listening, shut>>
    BY <1>4 DEF Receive, ListenerStops
  <2>2. QED
    BY <2>1
<1>5. CASE Check \/ WaitReturns \/ WaitFails \/ Send
  BY <1>5 DEF Check, WaitReturns, WaitFails, Send
<1>6. CASE ShutdownBegins
  <2>1. UNCHANGED <<conn, notes, lpc, updateCh, svc, got>> /\ shut' = "closing"
    BY <1>6 DEF ShutdownBegins
  <2>2. ~listening => ~listening'
    BY <1>6, Zenon DEF ShutdownBegins
  <2>3. QED
    BY <2>1, <2>2
<1>7. CASE ShutdownEnds
  BY <1>7 DEF ShutdownEnds
<1>8. QED
  BY <1>1, <1>2, <1>3, <1>4, <1>5, <1>6, <1>7 DEF Next

LEMMA CloseStep == SendsBeforeClose /\ [Next]_vars => SendsBeforeClose'
<1> SUFFICES ASSUME SendsBeforeClose, [Next]_vars PROVE SendsBeforeClose'
  OBVIOUS
<1> USE DEF SendsBeforeClose, table, session, listener, service
<1>1. ASSUME NEW by \in Connections, NEW t \in Triggers, Add(by, t) \/ Update(by, t) \/ Delete(by, t)
      PROVE  SendsBeforeClose'
  BY <1>1 DEF Add, Update, Delete, Commit
<1>2. CASE UNCHANGED vars \/ LoseConnection \/ LoadAll \/ Receive \/ ListenerStops \/ CancelCtx
  BY <1>2 DEF vars, LoseConnection, LoadAll, Receive, ListenerStops, CancelCtx
<1>3. CASE Subscribe \/ Check \/ WaitReturns \/ WaitFails \/ Send
  BY <1>3 DEF Subscribe, Check, WaitReturns, WaitFails, Send
<1>4. CASE ShutdownBegins \/ ShutdownEnds
  BY <1>4 DEF ShutdownBegins, ShutdownEnds
<1>5. QED
  BY <1>1, <1>2, <1>3, <1>4 DEF Next

----------------------------------------------------------------------------
\* NothingLost, of one trigger.
Known(t) == ver[t] = since[t] \/ skipped[t] = ver[t] \/ got[t] = ver[t] \/ OnItsWay(t)

Serving == svc = "listening" /\ conn = "ok" /\ ~ctxDone /\ shut = "no"

LEMMA LossStep == StoreInv /\ [Next]_vars => NothingLost'
<1> SUFFICES ASSUME StoreInv, [Next]_vars, Serving', NEW t \in Triggers PROVE Known(t)'
  BY DEF NothingLost, Serving, Known
<1> USE DEF StoreInv
<1>a. Serving => Known(t)
  BY DEF NothingLost, Serving, Known
<1>b. /\ \A s, e : Contains(s, e) <=> \E i \in 1..Len(s) : s[i] = e
      /\ DOMAIN notes = 1..Len(notes) /\ DOMAIN updateCh = 1..Len(updateCh)
      /\ Len(notes) \in Nat /\ Len(updateCh) \in Nat
  BY DEF Contains, TypeOK
<1>c. ver[t] \in Nat /\ got[t] \in Nat /\ skipped[t] \in Nat
  BY Elements
<1>1. CASE UNCHANGED vars
  BY <1>1, <1>a DEF vars, Serving, Known, OnItsWay
<1>2. ASSUME NEW by \in Connections, NEW u \in Triggers, Add(by, u) \/ Update(by, u) PROVE Known(t)'
  <2>1. /\ ver' = [ver EXCEPT ![u] = @ + 1] /\ Notify(u)
        /\ UNCHANGED <<conn, listening, lpc, cur, updateCh, svc, got, since, skipped, ctxDone, shut>>
    BY <1>2 DEF Add, Update, Commit, session, listener, service
  <2>2. Serving /\ listening /\ conn = "ok"
    BY <2>1 DEF Serving, Phases
  <2>3. notes' = Append(notes, <<u, ver[u] + 1>>)
    BY <2>1, <2>2 DEF Notify
  <2>4. /\ \A i \in 1..Len(notes) : i \in 1..Len(notes') /\ notes'[i] = notes[i]
        /\ Len(notes') \in 1..Len(notes') /\ notes'[Len(notes')] = <<u, ver[u] + 1>>
    <3>1. notes \in Seq(Triggers \X Nat) /\ <<u, ver[u] + 1>> \in Triggers \X Nat
      <4>1. Notices \subseteq Triggers \X Nat
        BY BoundAssumption DEF Notices
      <4>2. notes \in Seq(Triggers \X Nat)
        BY <4>1 DEF TypeOK
      <4>3. QED
        BY <4>2, Elements
    <3>2. QED
      BY <2>3, <3>1, <1>b
  <2>5. CASE t = u
    <3>1. notes'[Len(notes')] = <<t, ver'[t]>>
      BY <2>1, <2>4, <2>5 DEF TypeOK
    <3>2. Contains(notes', <<t, ver'[t]>>)
      BY <1>b, <2>4, <3>1
    <3>3. QED
      BY <3>2 DEF Known, OnItsWay
  <2>6. CASE t # u
    <3>1. ver'[t] = ver[t]
      BY <2>1, <2>6 DEF TypeOK
    <3>2. Contains(notes, <<t, ver[t]>>) => Contains(notes', <<t, ver[t]>>)
      BY <1>b, <2>4
    <3>3. QED
      BY <1>a, <2>1, <2>2, <3>1, <3>2 DEF Known, OnItsWay
  <2>7. QED
    BY <2>5, <2>6
<1>3. CASE Subscribe
  BY <1>3 DEF Subscribe, table, Known, Serving
<1>4. CASE Receive
  <2>1. /\ updateCh' = Tail(updateCh) /\ updateCh # <<>>
        /\ got' = [got EXCEPT ![Head(updateCh)[1]] = Head(updateCh)[2]]
        /\ UNCHANGED <<ver, since, conn, svc, ctxDone, shut, notes, lpc, cur, skipped>>
    BY <1>4 DEF Receive, table, session, listener
  <2>2. /\ Head(updateCh) = updateCh[1] /\ 1 \in DOMAIN updateCh
        /\ updateCh' \in Seq(Notices) /\ Len(updateCh') = Len(updateCh) - 1
        /\ \A i \in DOMAIN updateCh' : updateCh'[i] = updateCh[i + 1]
    BY <2>1, TailIs DEF TypeOK
  <2>3. got'[t] = IF t = updateCh[1][1] THEN updateCh[1][2] ELSE got[t]
    BY <2>1, <2>2 DEF TypeOK
  <2>4. IsNotice(updateCh[1]) /\ Due(updateCh[1])
    BY <2>2, Elements DEF AllDue
  <2>5. CASE got[t] = ver[t]
    BY <1>c, <2>1, <2>3, <2>4, <2>5 DEF Due, IsNotice, Known
  <2>6. CASE Contains(updateCh, <<t, ver[t]>>)
    <3>1. PICK i \in 1..Len(updateCh) : updateCh[i] = <<t, ver[t]>>
      BY <2>6, <1>b
    <3>2. CASE i = 1
      BY <2>1, <2>3, <3>1, <3>2 DEF Known
    <3>3. CASE i # 1
      <4>1. i - 1 \in 1..Len(updateCh') /\ updateCh'[i - 1] = <<t, ver[t]>>
        BY <1>b, <2>2, <3>1, <3>3
      <4>2. QED
        BY <1>b, <2>1, <4>1 DEF Known, OnItsWay
    <3>4. QED
      BY <3>2, <3>3
  <2>7. QED
    BY <1>a, <2>1, <2>5, <2>6 DEF Known, OnItsWay, Serving
<1>5. CASE WaitReturns
  <2>1. /\ notes' = Tail(notes) /\ notes # <<>> /\ cur' = Head(notes) /\ lpc = "wait" /\ lpc' = "send"
        /\ UNCHANGED <<ver, since, conn, svc, ctxDone, shut, updateCh, got, skipped>>
    BY <1>5 DEF WaitReturns, table, session, service
  <2>2. /\ cur' = notes[1] /\ notes' \in Seq(Notices) /\ Len(notes') = Len(notes) - 1
        /\ \A i \in DOMAIN notes' : notes'[i] = notes[i + 1]
    BY <2>1, TailIs DEF TypeOK
  <2>3. CASE Contains(notes, <<t, ver[t]>>)
    <3>1. PICK i \in 1..Len(notes) : notes[i] = <<t, ver[t]>>
      BY <2>3, <1>b
    <3>2. CASE i = 1
      BY <2>1, <2>2, <3>1, <3>2 DEF Known, OnItsWay
    <3>3. CASE i # 1
      <4>1. i \in Nat /\ i - 1 \in 1..Len(notes') /\ DOMAIN notes' = 1..Len(notes')
        BY <1>b, <2>2, <3>1, <3>3
      <4>2. notes'[i - 1] = notes[(i - 1) + 1] /\ (i - 1) + 1 = i
        BY <2>2, <4>1
      <4>3. QED
        BY <1>b, <2>1, <3>1, <4>1, <4>2 DEF Known, OnItsWay
    <3>4. QED
      BY <3>2, <3>3
  <2>4. QED
    BY <1>a, <2>1, <2>3 DEF Known, OnItsWay, Serving
<1>6. CASE Send /\ Len(updateCh) < Cap
  <2>1. /\ updateCh' = Append(updateCh, cur) /\ lpc = "send"
        /\ UNCHANGED <<ver, since, conn, svc, ctxDone, shut, notes, got, skipped>>
    BY <1>6 DEF Send, table, session, service
  <2>2. /\ \A i \in 1..Len(updateCh) : i \in 1..Len(updateCh') /\ updateCh'[i] = updateCh[i]
        /\ Len(updateCh') \in 1..Len(updateCh') /\ updateCh'[Len(updateCh')] = cur
    BY <1>b, <2>1, AppendIs DEF TypeOK
  <2>3. /\ Contains(updateCh, <<t, ver[t]>>) => Contains(updateCh', <<t, ver[t]>>)
        /\ cur = <<t, ver[t]>> => Contains(updateCh', <<t, ver[t]>>)
    BY <1>b, <2>2
  <2>4. QED
    BY <1>a, <2>1, <2>3 DEF Known, OnItsWay, Serving
<1>7. CASE Send /\ ~(Len(updateCh) < Cap)
  <2>1. /\ skipped' = [skipped EXCEPT ![cur[1]] = cur[2]] /\ lpc = "send"
        /\ UNCHANGED <<ver, since, conn, svc, ctxDone, shut, notes, got, updateCh, cur>>
    BY <1>7 DEF Send, table, session, service
  <2>2. skipped'[t] = IF t = cur[1] THEN cur[2] ELSE skipped[t]
    BY <2>1 DEF TypeOK
  <2>3. skipped[t] = ver[t] => t # cur[1]
    BY <1>c, <2>1, Elements DEF AllDue, Due, IsNotice
  <2>4. CASE cur = <<t, ver[t]>>
    BY <2>1, <2>2, <2>4 DEF Known
  <2>5. QED
    BY <1>a, <2>1, <2>2, <2>3, <2>4 DEF Known, OnItsWay, Serving
<1>8. ASSUME NEW by \in Connections, NEW u \in Triggers, Delete(by, u) PROVE Known(t)'
  BY <1>8, <1>a DEF Delete, session, listener, service, Serving, Known, OnItsWay
<1>9. CASE LoseConnection \/ LoadAll \/ ListenerStops \/ CancelCtx \/ ShutdownBegins
  BY <1>9 DEF LoseConnection, LoadAll, ListenerStops, CancelCtx, ShutdownBegins, Serving
<1>10. CASE Check \/ WaitFails \/ ShutdownEnds
  <2>1. /\ UNCHANGED <<ver, since, conn, svc, ctxDone, notes, updateCh, got, skipped, cur>>
        /\ shut' = "no" => shut = "no"
        /\ lpc = "send" => lpc' = "send"
    BY <1>10 DEF Check, WaitFails, ShutdownEnds, table, session, listener, service
  <2>2. QED
    BY <1>a, <2>1 DEF Serving, Known, OnItsWay
<1>11. QED
  BY <1>1, <1>2, <1>3, <1>4, <1>5, <1>6, <1>7, <1>8, <1>9, <1>10 DEF Next

LEMMA StepInv == StoreInv /\ [Next]_vars => StoreInv'
<1>1. StoreInv /\ [Next]_vars => Queued' /\ AllDue'
  BY QueueStep DEF StoreInv
<1>2. StoreInv /\ [Next]_vars => TypeOK' /\ Phases' /\ SendsBeforeClose' /\ NothingLost'
  BY TypeStep, PhaseStep, CloseStep, LossStep DEF StoreInv
<1>3. QED
  BY <1>1, <1>2 DEF StoreInv

LEMMA Inductive == Spec => []StoreInv
<1>1. QED
  BY InitInv, StepInv, PTL DEF Spec

\* Every variable has its type, and nothing that is on its way, also while the
\* listener handles it, is anything but a committed version of a trigger.
THEOREM Typing == Spec => []TypeOK
<1>1. StoreInv => TypeOK
  BY DEF StoreInv
<1>2. QED
  BY <1>1, Inductive, PTL

\* While the service listens on a sound connection, the newest version of every
\* trigger written since it subscribed is known to it or on its way, unless the
\* channel was full for that very version: of any number of triggers and
\* versions and for any capacity (listenForUpdates, migration 002's NOTIFY).
THEOREM Delivery == Spec => []NothingLost
<1>1. StoreInv => NothingLost
  BY DEF StoreInv
<1>2. QED
  BY <1>1, Inductive, PTL

\* The listener never sends on the closed update channel, which would panic, whenever
\* Shutdown is called: stopCh is closed before Shutdown waits, and a listener that
\* Subscribe starts after that ends before its first wait (listenForUpdates).
THEOREM ClosedLast == Spec => [](shut = "closed" => lpc # "send")
<1>1. StoreInv => (shut = "closed" => lpc # "send")
  BY DEF StoreInv, SendsBeforeClose
<1>2. QED
  BY <1>1, Inductive, PTL

----------------------------------------------------------------------------
LEMMA FeedInit == Init => Feed!Init
  BY DEF Init, Feed!Init

LEMMA FeedStep == StoreInv /\ [Next]_vars => [Feed!Next]_(Feed!vars)
<1> SUFFICES ASSUME StoreInv, [Next]_vars PROVE [Feed!Next]_(Feed!vars)
  OBVIOUS
<1> USE DEF StoreInv, Feed!vars
<1>1. CASE UNCHANGED vars
  BY <1>1 DEF vars
<1>2. ASSUME NEW by \in Connections, NEW t \in Triggers, Add(by, t) \/ Update(by, t) PROVE Feed!Store(t)
  BY <1>2 DEF Add, Update, Commit, service, Feed!Store
<1>3. CASE LoadAll
  <2>1. CASE got' = got
    BY <1>3, <2>1 DEF LoadAll, table
  <2>2. CASE got' = [t \in Triggers |-> IF row[t] THEN ver[t] ELSE 0]
    <3>1. UNCHANGED ver /\ got = [t \in Triggers |-> 0]
      BY <1>3 DEF LoadAll, table, Phases
    <3>2. \A t \in Triggers : ver[t] \in Nat
      BY Elements
    <3>3. Feed!Learn
      BY <2>2, <3>1, <3>2 DEF Feed!Learn
    <3>4. QED
      BY <3>3 DEF Feed!Next
  <2>3. QED
    BY <1>3, <2>1, <2>2 DEF LoadAll
<1>4. CASE Receive
  <2>1. got' = [got EXCEPT ![Head(updateCh)[1]] = Head(updateCh)[2]] /\ UNCHANGED ver /\ updateCh # <<>>
    BY <1>4 DEF Receive, table
  <2>2. Head(updateCh) = updateCh[1] /\ 1 \in DOMAIN updateCh
    BY <2>1, TailIs DEF TypeOK
  <2>3. IsNotice(updateCh[1]) /\ Due(updateCh[1])
    BY <2>2, Elements DEF AllDue
  <2>4. /\ DOMAIN got = Triggers /\ got' = [got EXCEPT ![updateCh[1][1]] = updateCh[1][2]]
        /\ \A t \in Triggers : got[t] \in Nat /\ got[t] <= ver[t] /\ ver[t] \in Nat
    BY <2>1, <2>2, Elements DEF AllDue, TypeOK
  <2>5. got \in [Triggers -> Nat]
    BY BoundAssumption DEF TypeOK
  <2>6. got' \in [Triggers -> Nat]
    BY <2>3, <2>4, <2>5 DEF IsNotice
  <2>7. \A t \in Triggers : got[t] <= got'[t] /\ got'[t] <= ver[t]
    BY <2>3, <2>4 DEF Due, IsNotice
  <2>8. Feed!Learn
    BY <2>1, <2>6, <2>7 DEF Feed!Learn
  <2>9. QED
    BY <2>8 DEF Feed!Next
<1>5. ASSUME NEW by \in Connections, NEW t \in Triggers, Delete(by, t) PROVE UNCHANGED <<ver, got>>
  BY <1>5 DEF Delete, service
<1>6. CASE LoseConnection \/ Subscribe \/ ListenerStops \/ CancelCtx \/ Check \/ WaitReturns
            \/ WaitFails \/ Send \/ ShutdownBegins \/ ShutdownEnds
  BY <1>6 DEF LoseConnection, Subscribe, ListenerStops, CancelCtx, Check, WaitReturns, WaitFails,
     Send, ShutdownBegins, ShutdownEnds, table, service
<1>7. QED
  BY <1>1, <1>2, <1>3, <1>4, <1>5, <1>6 DEF Next, Feed!Next

\* The store implements the feed it promises the service: what the service knows
\* of a trigger was committed and never goes back (All, listenForUpdates).
THEOREM Implements == Spec => ImplementsFeed
<1>1. Init => Feed!Init
  BY FeedInit
<1>2. StoreInv /\ [Next]_vars => [Feed!Next]_(Feed!vars)
  BY FeedStep
<1>3. QED
  BY <1>1, <1>2, Inductive, PTL DEF Spec, ImplementsFeed, Feed!Spec

\* The promise of TriggerFeed in terms of its state.
WasStored == (got \in [Triggers -> Nat]) /\ \A t \in Triggers : got[t] <= ver[t] /\ ver[t] \in Nat

NeverGoesBack == \A t \in Triggers : got[t] <= got'[t] /\ got'[t] <= ver'[t]

\* What that means: the service never goes back to an older version of a trigger and never
\* knows one that was not committed, however often the listener loses its connection.
THEOREM FeedNeverGoesBack == Spec => [][NeverGoesBack]_(Feed!vars)
<1>1. Feed!Init => WasStored
  BY DEF Feed!Init, WasStored
<1>2. ASSUME WasStored, [Feed!Next]_(Feed!vars) PROVE WasStored' /\ [NeverGoesBack]_(Feed!vars)
  <2>1. CASE UNCHANGED <<ver, got>>
    BY <1>2, <2>1 DEF WasStored, Feed!vars
  <2>2. CASE Feed!Learn
    BY <1>2, <2>2 DEF WasStored, NeverGoesBack, Feed!Learn
  <2>3. ASSUME NEW t \in Triggers, Feed!Store(t) PROVE WasStored' /\ NeverGoesBack
    BY <1>2, <2>3 DEF WasStored, NeverGoesBack, Feed!Store
  <2>4. QED
    BY <1>2, <2>1, <2>2, <2>3 DEF Feed!Next, Feed!vars
<1>3. QED
  BY <1>1, <1>2, Implements, PTL DEF ImplementsFeed, Feed!Spec
=============================================================================
