-------------------------- MODULE ApplicationProofs --------------------------
(***************************************************************************)
(* Proofs about Application, for any number of callers in any roles, of    *)
(* triggers, workflows, calls and events.                                  *)
(*                                                                         *)
(* Of a trigger whose calls do not overlap there is at most one row, which *)
(* an Add that has yet to send is about; so that what the service is told, *)
(* or misses, is what is stored.                                           *)
(***************************************************************************)
EXTENDS Application, WorkflowStoreProofs

TriggerRow == [id : Triggers, data : Nat]

StoreTypes ==
    /\ ver \in [Triggers -> Nat]
    /\ rows \in Seq(TriggerRow)
    /\ msg \in [Clients -> (Triggers \X Nat) \union {Nothing}]
    /\ got \in [Triggers -> Nat]
    /\ created \in [Triggers -> SUBSET Nat]
    /\ missed \subseteq Triggers /\ tangled \subseteq Triggers

\* Nothing is newer than the newest write, and what an Add sends is an Add's.
Numbered ==
    /\ \A n \in DOMAIN rows : rows[n].data <= ver[rows[n].id]
    /\ \A t \in Triggers : got[t] <= ver[t]
    /\ \A c \in Clients : msg[c] # Nothing => msg[c][2] \in created[msg[c][1]] /\ msg[c][2] <= ver[msg[c][1]]

Untangled ==
    /\ \A m, n \in DOMAIN rows : rows[m].id = rows[n].id /\ rows[n].id \notin tangled => m = n
    /\ \A c \in Clients : msg[c] # Nothing /\ msg[c][1] \notin tangled =>
          /\ \A n \in DOMAIN rows : rows[n].id = msg[c][1] => rows[n].data = msg[c][2]
          /\ \A d \in Clients : msg[d][1] = msg[c][1] => d = c

Current ==
    svc # "starting" =>
        \A n \in DOMAIN rows :
            \/ rows[n].id \in missed \union tangled
            \/ BeingAdded(rows[n].id)
            \/ rows[n].data = got[rows[n].id]

TriggerInv == StoreTypes /\ Numbered /\ Untangled /\ Current

----------------------------------------------------------------------------
LEMMA ConcatIs ==
    ASSUME NEW T, NEW a \in Seq(T), NEW b \in Seq(T)
    PROVE  a \o b \in Seq(T) /\ Len(a \o b) = Len(a) + Len(b)
  OBVIOUS

LEMMA RemoveAtIs ==
    ASSUME NEW T, NEW s \in Seq(T), NEW i \in 1..Len(s)
    PROVE  /\ RemoveAt(s, i) \in Seq(T) /\ Len(RemoveAt(s, i)) = Len(s) - 1
           /\ \A m \in 1..(Len(s) - 1) : RemoveAt(s, i)[m] = IF m < i THEN s[m] ELSE s[m + 1]
<1> DEFINE a == SubSeq(s, 1, i - 1)
           b == SubSeq(s, i + 1, Len(s))
<1>1. a \in Seq(T) /\ Len(a) = i - 1 /\ \A m \in 1..(i - 1) : a[m] = s[m]
  OBVIOUS
<1>2. b \in Seq(T) /\ Len(b) = Len(s) - i /\ \A m \in 1..(Len(s) - i) : b[m] = s[i + m]
  OBVIOUS
<1>3. RemoveAt(s, i) = a \o b
  BY DEF RemoveAt
<1> HIDE DEF a, b
<1>4. a \o b \in Seq(T) /\ Len(a \o b) = Len(s) - 1
  <2>1. a \o b \in Seq(T) /\ Len(a \o b) = Len(a) + Len(b)
    BY <1>1, <1>2, ConcatIs
  <2>2. Len(s) \in Nat /\ i \in Nat
    OBVIOUS
  <2>3. QED
    BY <1>1, <1>2, <2>1, <2>2
<1>5. ASSUME NEW m \in 1..(Len(s) - 1) PROVE (a \o b)[m] = IF m < i THEN s[m] ELSE s[m + 1]
  <2>1. CASE m < i
    BY <1>1, <1>2, <2>1
  <2>2. CASE ~(m < i)
    <3>1. (a \o b)[m] = b[m - (i - 1)]
      BY <1>1, <1>2, <2>2
    <3>2. m - (i - 1) \in 1..(Len(s) - i) /\ i + (m - (i - 1)) = m + 1
      BY <2>2
    <3>3. QED
      BY <1>2, <2>2, <3>1, <3>2
  <2>3. QED
    BY <2>1, <2>2
<1>6. QED
  BY <1>3, <1>4, <1>5

\* What the invariant says of the elements, without sequences and products.
LEMMA Parts ==
    ASSUME StoreTypes
    PROVE  /\ \A n \in DOMAIN rows : n \in Nat /\ rows[n].id \in Triggers /\ rows[n].data \in Nat
           /\ \A c \in Clients : msg[c] # Nothing => msg[c][1] \in Triggers /\ msg[c][2] \in Nat
           /\ \A c \in Clients : msg[c] = Nothing => msg[c][1] \notin Triggers
           /\ \A t \in Triggers : ver[t] \in Nat /\ got[t] \in Nat
           /\ DOMAIN rows = 1..Len(rows) /\ Len(rows) \in Nat
<1>1. \A n \in DOMAIN rows : n \in Nat /\ rows[n] \in TriggerRow
  BY DEF StoreTypes
<1>2. \A c \in Clients : msg[c] \in (Triggers \X Nat) \union {Nothing}
  BY DEF StoreTypes
<1>3. Nothing[1] \notin Triggers
  BY TriggerAssumption DEF Nothing
<1>4. QED
  BY <1>1, <1>2, <1>3 DEF StoreTypes, TriggerRow

LEMMA TriggerInitInv == Init => TriggerInv
<1> SUFFICES ASSUME Init PROVE TriggerInv
  OBVIOUS
<1>1. StoreTypes
  BY DEF Init, StoreTypes
<1>2. Numbered /\ Untangled /\ Current
  BY DEF Init, Numbered, Untangled, Current
<1>3. QED
  BY <1>1, <1>2 DEF TriggerInv

\* The service takes the write, or misses it.
LEMMA OfferIs ==
    ASSUME StoreTypes, NEW t \in Triggers, NEW v \in Nat, Offer(t, v)
    PROVE  /\ got' \in [Triggers -> Nat] /\ missed' \subseteq Triggers
           /\ svc' = "starting" <=> svc = "starting"
           /\ \A u \in Triggers : u # t => got'[u] = got[u] /\ (u \in missed' <=> u \in missed)
           /\ (t \in missed' /\ got'[t] = got[t]) \/ got'[t] = v
  BY DEF Offer, StoreTypes

LEMMA AddBeginsStep ==
    ASSUME TriggerInv, NEW c \in Clients, NEW t \in Triggers, AddBegins(c, t)
    PROVE  TriggerInv'
<1> USE Parts DEF TriggerInv
<1> DEFINE v == ver[t] + 1
           row == [id |-> t, data |-> v]
<1>1. /\ msg[c] = Nothing
      /\ ver' = [ver EXCEPT ![t] = v] /\ rows' = Append(rows, row)
      /\ msg' = [msg EXCEPT ![c] = <<t, v>>]
      /\ created' = [created EXCEPT ![t] = @ \union {v}]
      /\ tangled' = IF RowsOf(t) # {} \/ BeingAdded(t) THEN tangled \union {t} ELSE tangled
      /\ UNCHANGED <<svc, got, missed>>
  BY DEF AddBegins
<1>2. v \in Nat /\ row \in TriggerRow /\ row.id = t /\ row.data = v
  BY DEF TriggerRow
<1>3. StoreTypes'
  <2>1. rows' \in Seq(TriggerRow)
    BY <1>1, <1>2 DEF StoreTypes
  <2>2. msg' \in [Clients -> (Triggers \X Nat) \union {Nothing}]
    BY <1>1, <1>2, Zenon DEF StoreTypes
  <2>3. QED
    BY <1>1, <1>2, <2>1, <2>2 DEF StoreTypes
<1>4. /\ DOMAIN rows' = DOMAIN rows \union {Len(rows) + 1} /\ rows'[Len(rows) + 1] = row
      /\ \A n \in DOMAIN rows : n # Len(rows) + 1 /\ rows'[n] = rows[n]
  BY <1>1, <1>2 DEF StoreTypes
<1>5. /\ msg'[c] = <<t, v>> /\ msg'[c][1] = t /\ msg'[c][2] = v /\ msg'[c] # Nothing
      /\ \A d \in Clients : d # c => msg'[d] = msg[d]
  BY <1>1, TriggerAssumption DEF StoreTypes, Nothing
<1>6. /\ ver'[t] = v /\ \A u \in Triggers : u # t => ver'[u] = ver[u]
      /\ v \in created'[t] /\ \A u \in Triggers : created[u] \subseteq created'[u]
  BY <1>1 DEF StoreTypes
<1> HIDE DEF v, row
<1>7. v = ver[t] + 1
  BY DEF v
<1>8. Numbered'
  <2>1. \A u \in Triggers : ver[u] <= ver'[u]
    BY <1>6, <1>7
  <2>2. \A n \in DOMAIN rows' : rows'[n].data <= ver'[rows'[n].id]
    BY <1>2, <1>4, <1>6, <2>1, <1>7 DEF Numbered
  <2>3. ASSUME NEW d \in Clients, msg'[d] # Nothing
        PROVE  msg'[d][2] \in created'[msg'[d][1]] /\ msg'[d][2] <= ver'[msg'[d][1]]
    <3>1. CASE d = c
      BY <1>2, <1>5, <1>6, <3>1
    <3>2. CASE d # c
      <4>1. /\ msg'[d] = msg[d] /\ msg[d][1] \in Triggers /\ msg[d][2] \in Nat
            /\ msg[d][2] \in created[msg[d][1]] /\ msg[d][2] <= ver[msg[d][1]]
        BY <1>5, <2>3, <3>2 DEF Numbered
      <4>2. created[msg[d][1]] \subseteq created'[msg[d][1]] /\ ver[msg[d][1]] <= ver'[msg[d][1]]
        BY <1>6, <2>1, <4>1
      <4>3. ver[msg[d][1]] \in Nat /\ ver'[msg[d][1]] \in Nat
        BY <1>2, <1>6, <4>1
      <4>4. QED
        BY <4>1, <4>2, <4>3
    <3>3. QED
      BY <3>1, <3>2
  <2>4. QED
    BY <1>1, <2>1, <2>2, <2>3, <1>7, <1>6 DEF Numbered
<1>9. Untangled'
  <2>1. tangled \subseteq tangled'
    BY <1>1
  <2>2. t \notin tangled' => (\A n \in DOMAIN rows : rows[n].id # t) /\ \A d \in Clients : msg[d][1] # t
    BY <1>1 DEF RowsOf, BeingAdded
  <2>3. \A m, n \in DOMAIN rows' : rows'[m].id = rows'[n].id /\ rows'[n].id \notin tangled' => m = n
    BY <1>2, <1>4, <2>1, <2>2 DEF Untangled
  <2>4. ASSUME NEW d \in Clients, msg'[d] # Nothing, msg'[d][1] \notin tangled'
        PROVE  /\ \A n \in DOMAIN rows' : rows'[n].id = msg'[d][1] => rows'[n].data = msg'[d][2]
               /\ \A e \in Clients : msg'[e][1] = msg'[d][1] => e = d
    <3>1. CASE d = c
      BY <1>2, <1>4, <1>5, <2>2, <2>4, <3>1
    <3>2. CASE d # c
      <4>1. msg'[d] = msg[d] /\ msg[d] # Nothing /\ msg[d][1] \notin tangled
        BY <1>5, <2>1, <2>4, <3>2
      <4>2. msg[d][1] # t
        BY <2>2, <2>4, <4>1
      <4>3. QED
        BY <1>2, <1>4, <1>5, <4>1, <4>2 DEF Untangled
    <3>3. QED
      BY <3>1, <3>2
  <2>5. QED
    BY <2>3, <2>4 DEF Untangled
<1>10. Current'
  <2>1. \A u \in Triggers : BeingAdded(u) => BeingAdded(u)'
    BY <1>1, <1>5 DEF BeingAdded
  <2>2. BeingAdded(t)'
    BY <1>5 DEF BeingAdded
  <2>3. ASSUME svc # "starting", NEW n \in DOMAIN rows'
        PROVE  \/ rows'[n].id \in missed' \union tangled'
               \/ \E d \in Clients : msg'[d][1] = rows'[n].id
               \/ rows'[n].data = got'[rows'[n].id]
    <3>1. CASE n = Len(rows) + 1
      BY <1>2, <1>4, <1>5, <3>1
    <3>2. CASE n \in DOMAIN rows
      BY <1>1, <1>4, <1>5, <2>3, <3>2 DEF Current, BeingAdded
    <3>3. QED
      BY <1>4, <2>3, <3>1, <3>2
  <2>4. QED
    BY <1>1, <2>3 DEF Current, BeingAdded
<1>11. QED
  BY <1>3, <1>8, <1>9, <1>10
LEMMA AddEndsStep == ASSUME TriggerInv, NEW c \in Clients, AddEnds(c) PROVE TriggerInv'
<1> USE Parts DEF TriggerInv
<1> DEFINE t == msg[c][1]
           v == msg[c][2]
<1>1. /\ msg[c] # Nothing /\ msg' = [msg EXCEPT ![c] = Nothing] /\ Offer(t, v)
      /\ UNCHANGED <<ver, rows, created, tangled>>
  BY DEF AddEnds, store
<1>2. t \in Triggers /\ v \in Nat /\ v \in created[t] /\ v <= ver[t]
  BY <1>1 DEF Numbered
<1>3. /\ t \notin tangled => \A n \in DOMAIN rows : rows[n].id = t => rows[n].data = v
      /\ msg[c][1] = t
  BY <1>1 DEF Untangled
<1> HIDE DEF t, v
<1>4. /\ got' \in [Triggers -> Nat] /\ missed' \subseteq Triggers
      /\ svc' = "starting" <=> svc = "starting"
      /\ \A u \in Triggers : u # t => got'[u] = got[u] /\ (u \in missed' <=> u \in missed)
      /\ (t \in missed' /\ got'[t] = got[t]) \/ got'[t] = v
  BY <1>1, <1>2, OfferIs
<1>5. msg'[c] = Nothing /\ \A d \in Clients : d # c => msg'[d] = msg[d]
  BY <1>1 DEF StoreTypes
<1>6. StoreTypes'
  <2>1. msg' \in [Clients -> (Triggers \X Nat) \union {Nothing}]
    BY <1>1, Zenon DEF StoreTypes
  <2>2. QED
    BY <1>1, <1>4, <2>1 DEF StoreTypes
<1>7. Numbered'
  BY <1>1, <1>2, <1>4, <1>5 DEF Numbered
<1>8. Untangled'
  <2>1. ASSUME NEW d \in Clients, msg'[d] # Nothing, msg'[d][1] \notin tangled
        PROVE  /\ msg'[d] = msg[d] /\ msg[d] # Nothing /\ msg[d][1] \in Triggers
               /\ \A e \in Clients : msg'[e][1] = msg'[d][1] => e = d
    <3>1. msg'[d] = msg[d] /\ msg[d] # Nothing /\ msg[d][1] \in Triggers
      BY <1>5, <2>1
    <3>2. Nothing[1] \notin Triggers
      BY TriggerAssumption DEF Nothing
    <3>3. QED
      BY <1>5, <2>1, <3>1, <3>2 DEF Untangled
  <2>2. QED
    BY <1>1, <2>1 DEF Untangled
<1>9. Current'
  <2> SUFFICES ASSUME svc # "starting", NEW n \in DOMAIN rows
               PROVE  \/ rows[n].id \in missed' \union tangled
                      \/ \E d \in Clients : msg'[d][1] = rows[n].id
                      \/ rows[n].data = got'[rows[n].id]
    BY <1>1, <1>4 DEF Current, BeingAdded
  <2>1. CASE rows[n].id = t
    BY <1>3, <1>4, <2>1
  <2>2. CASE rows[n].id # t
    <3>1. \/ rows[n].id \in missed \union tangled
          \/ \E d \in Clients : msg[d][1] = rows[n].id
          \/ rows[n].data = got[rows[n].id]
      BY DEF Current, BeingAdded
    <3>2. rows[n].id \in Triggers
      OBVIOUS
    <3>3. \A d \in Clients : msg[d][1] = rows[n].id => d # c
      BY <1>3, <2>2
    <3>4. QED
      BY <1>4, <1>5, <2>2, <3>1, <3>2, <3>3
  <2>3. QED
    BY <2>1, <2>2
<1>10. QED
  BY <1>6, <1>7, <1>8, <1>9

LEMMA UpdateStep == ASSUME TriggerInv, NEW c \in Clients, NEW t \in Triggers, Update(c, t) PROVE TriggerInv'
<1> USE Parts DEF TriggerInv
<1> DEFINE v == ver[t] + 1
<1>1. PICK n \in DOMAIN rows : FirstRow(n, t) /\ rows' = [rows EXCEPT ![n].data = v]
  BY DEF Update
<1>2. /\ ver' = [ver EXCEPT ![t] = v] /\ Offer(t, v)
      /\ tangled' = IF BeingAdded(t) THEN tangled \union {t} ELSE tangled
      /\ UNCHANGED <<msg, created>>
  BY DEF Update
<1>3. v \in Nat /\ v > ver[t] /\ rows[n].id = t
  BY <1>1 DEF FirstRow, RowsOf
<1>4. /\ ver'[t] = v /\ \A u \in Triggers : u # t => ver'[u] = ver[u]
      /\ ver' \in [Triggers -> Nat]
  BY <1>2, <1>3 DEF StoreTypes
<1> HIDE DEF v
<1>5. /\ got' \in [Triggers -> Nat] /\ missed' \subseteq Triggers
      /\ svc' = "starting" <=> svc = "starting"
      /\ \A u \in Triggers : u # t => got'[u] = got[u] /\ (u \in missed' <=> u \in missed)
      /\ (t \in missed' /\ got'[t] = got[t]) \/ got'[t] = v
  BY <1>2, <1>3, OfferIs
<1>6. /\ rows' \in Seq(TriggerRow) /\ DOMAIN rows' = DOMAIN rows
      /\ \A m \in DOMAIN rows : rows'[m].id = rows[m].id /\ (m # n => rows'[m] = rows[m])
      /\ rows'[n].data = v
  <2>1. rows[n] \in TriggerRow /\ \A m \in DOMAIN rows : rows[m] \in TriggerRow
    BY DEF StoreTypes
  <2>2. [rows[n] EXCEPT !.data = v] \in TriggerRow /\ [rows[n] EXCEPT !.data = v].id = rows[n].id
        /\ [rows[n] EXCEPT !.data = v].data = v
    BY <1>3, <2>1 DEF TriggerRow
  <2> DEFINE r == [rows[n] EXCEPT !.data = v]
  <2>3. rows' = [rows EXCEPT ![n] = r]
    BY <1>1
  <2> HIDE DEF r
  <2>4. rows' \in Seq(TriggerRow) /\ DOMAIN rows' = DOMAIN rows /\ rows'[n] = r
        /\ \A m \in DOMAIN rows : m # n => rows'[m] = rows[m]
    BY <2>2, <2>3 DEF StoreTypes, r
  <2>5. QED
    BY <2>2, <2>4 DEF r
<1>7. StoreTypes'
  BY <1>2, <1>4, <1>5, <1>6 DEF StoreTypes
<1>8. \A u \in Triggers : ver[u] <= ver'[u] /\ ver'[u] \in Nat
  BY <1>3, <1>4
<1>9. Numbered'
  <2>1. ASSUME NEW m \in DOMAIN rows PROVE rows'[m].data <= ver'[rows'[m].id]
    <3>1. CASE m = n
      BY <1>3, <1>4, <1>6, <3>1
    <3>2. CASE m # n
      <4>1. rows'[m] = rows[m] /\ rows[m].data <= ver[rows[m].id] /\ rows[m].id \in Triggers /\ rows[m].data \in Nat
        BY <1>6, <3>2 DEF Numbered
      <4>2. QED
        BY <1>8, <4>1
    <3>3. QED
      BY <3>1, <3>2
  <2>2. ASSUME NEW u \in Triggers PROVE got'[u] <= ver'[u]
    <3>1. got[u] <= ver[u] /\ ver[u] <= ver'[u] /\ got[u] \in Nat /\ ver[u] \in Nat /\ ver'[u] \in Nat
      BY <1>8 DEF Numbered
    <3>2. got'[u] = got[u] \/ (u = t /\ got'[u] = v)
      BY <1>5
    <3>3. QED
      BY <1>3, <1>4, <3>1, <3>2
  <2>3. ASSUME NEW d \in Clients, msg[d] # Nothing
        PROVE  msg[d][2] \in created[msg[d][1]] /\ msg[d][2] <= ver'[msg[d][1]]
    BY <1>8, <2>3 DEF Numbered
  <2>4. QED
    BY <1>2, <1>6, <2>1, <2>2, <2>3 DEF Numbered
<1>10. Untangled'
  <2>1. tangled \subseteq tangled' /\ (t \notin tangled' => \A d \in Clients : msg[d][1] # t)
    BY <1>2 DEF BeingAdded
  <2>2. \A m, k \in DOMAIN rows' : rows'[m].id = rows'[k].id /\ rows'[k].id \notin tangled' => m = k
    BY <1>6, <2>1 DEF Untangled
  <2>3. ASSUME NEW d \in Clients, msg[d] # Nothing, msg[d][1] \notin tangled'
        PROVE  /\ \A m \in DOMAIN rows' : rows'[m].id = msg[d][1] => rows'[m].data = msg[d][2]
               /\ \A e \in Clients : msg[e][1] = msg[d][1] => e = d
    <3>1. msg[d][1] # t /\ msg[d][1] \notin tangled
      BY <2>1, <2>3
    <3>2. \A m \in DOMAIN rows : rows[m].id = msg[d][1] => m # n /\ rows[m].data = msg[d][2]
      BY <1>3, <2>3, <3>1 DEF Untangled
    <3>3. \A e \in Clients : msg[e][1] = msg[d][1] => e = d
      BY <2>3, <3>1 DEF Untangled
    <3>4. QED
      BY <1>6, <3>2, <3>3
  <2>4. QED
    BY <1>2, <2>2, <2>3 DEF Untangled
<1>11. Current'
  <2> SUFFICES ASSUME svc # "starting", NEW m \in DOMAIN rows
               PROVE  \/ rows'[m].id \in missed' \union tangled'
                      \/ \E d \in Clients : msg[d][1] = rows'[m].id
                      \/ rows'[m].data = got'[rows'[m].id]
    BY <1>2, <1>5, <1>6 DEF Current, BeingAdded
  <2>1. CASE rows[m].id = t
    <3>1. t \in tangled' \/ m = n
      BY <1>2, <1>3, <2>1 DEF Untangled
    <3>2. QED
      BY <1>3, <1>5, <1>6, <2>1, <3>1
  <2>2. CASE rows[m].id # t
    <3>1. rows'[m] = rows[m] /\ rows[m].id \in Triggers /\ (rows[m].id \in tangled => rows[m].id \in tangled')
      BY <1>2, <1>3, <1>6, <2>2
    <3>2. QED
      BY <1>5, <2>2, <3>1 DEF Current, BeingAdded
  <2>3. QED
    BY <2>1, <2>2
<1>12. QED
  BY <1>7, <1>9, <1>10, <1>11

LEMMA DeleteStep == ASSUME TriggerInv, NEW c \in Clients, NEW t \in Triggers, Delete(c, t) PROVE TriggerInv'
<1> USE Parts DEF TriggerInv
<1>1. PICK n \in DOMAIN rows : rows' = RemoveAt(rows, n)
  BY DEF Delete
<1>2. tangled \subseteq tangled' /\ tangled' \subseteq Triggers /\ UNCHANGED <<ver, msg, svc, got, missed, created>>
  BY DEF Delete, StoreTypes
<1>3. /\ rows' \in Seq(TriggerRow) /\ DOMAIN rows' = 1..(Len(rows) - 1)
      /\ \A m \in 1..(Len(rows) - 1) : rows'[m] = IF m < n THEN rows[m] ELSE rows[m + 1]
  BY <1>1, RemoveAtIs, SMTT(30) DEF StoreTypes
<1> DEFINE old(m) == IF m < n THEN m ELSE m + 1
<1>4. \A m \in DOMAIN rows' : old(m) \in DOMAIN rows /\ rows'[m] = rows[old(m)]
  BY <1>3
<1>5. \A m, k \in DOMAIN rows' : old(m) = old(k) => m = k
  BY <1>3
<1> HIDE DEF old
<1>6. StoreTypes'
  BY <1>2, <1>3 DEF StoreTypes
<1>7. Numbered'
  BY <1>2, <1>4 DEF Numbered
<1>8. Untangled'
  <2>1. \A m, k \in DOMAIN rows' : rows'[m].id = rows'[k].id /\ rows'[k].id \notin tangled' => m = k
    BY <1>2, <1>4, <1>5 DEF Untangled
  <2>2. ASSUME NEW d \in Clients, msg[d] # Nothing, msg[d][1] \notin tangled'
        PROVE  /\ \A m \in DOMAIN rows' : rows'[m].id = msg[d][1] => rows'[m].data = msg[d][2]
               /\ \A e \in Clients : msg[e][1] = msg[d][1] => e = d
    <3>1. msg[d][1] \notin tangled
      BY <1>2, <2>2
    <3>2. \A m \in DOMAIN rows : rows[m].id = msg[d][1] => rows[m].data = msg[d][2]
      BY <2>2, <3>1 DEF Untangled
    <3>3. \A e \in Clients : msg[e][1] = msg[d][1] => e = d
      BY <2>2, <3>1 DEF Untangled
    <3>4. QED
      BY <1>4, <3>2, <3>3
  <2>3. QED
    BY <1>2, <2>1, <2>2 DEF Untangled
<1>9. Current'
  BY <1>2, <1>4 DEF Current, BeingAdded
<1>10. QED
  BY <1>6, <1>7, <1>8, <1>9
LEMMA LoadStep == ASSUME TriggerInv, LoadAll PROVE TriggerInv'
<1> USE Parts DEF TriggerInv
<1>1. PICK last \in [Triggers -> 0..Len(rows)] :
         /\ \A t \in Triggers : IF RowsOf(t) = {} THEN last[t] = 0 ELSE LastRow(last[t], t)
         /\ got' = [t \in Triggers |-> IF last[t] = 0 THEN 0 ELSE rows[last[t]].data]
  BY DEF LoadAll
<1>2. missed' = {} /\ UNCHANGED <<ver, rows, created, msg, tangled>>
  BY DEF LoadAll, store
<1>3. \A t \in Triggers : last[t] # 0 => last[t] \in DOMAIN rows /\ rows[last[t]].id = t
  BY <1>1 DEF LastRow, RowsOf
<1>4. \A t \in Triggers : got'[t] \in Nat /\ got'[t] <= ver[t]
  BY <1>1, <1>3 DEF Numbered
<1>5. StoreTypes'
  BY <1>1, <1>2, <1>4 DEF StoreTypes
<1>6. Numbered' /\ Untangled'
  BY <1>2, <1>4 DEF Numbered, Untangled
<1>7. \A n \in DOMAIN rows : rows[n].id \in tangled \/ rows[n].data = got'[rows[n].id]
  <2> SUFFICES ASSUME NEW n \in DOMAIN rows, rows[n].id \notin tangled PROVE rows[n].data = got'[rows[n].id]
    OBVIOUS
  <2>1. rows[n].id \in Triggers /\ LastRow(last[rows[n].id], rows[n].id)
    BY <1>1 DEF RowsOf
  <2>2. last[rows[n].id] \in DOMAIN rows /\ rows[last[rows[n].id]].id = rows[n].id
    BY <2>1 DEF LastRow, RowsOf
  <2>3. last[rows[n].id] = n
    BY <2>2 DEF Untangled
  <2>4. QED
    BY <1>1, <2>1, <2>3
<1>8. Current'
  BY <1>2, <1>7 DEF Current
<1>9. QED
  BY <1>5, <1>6, <1>8

LEMMA TriggerStepInv == TriggerInv /\ [Next]_vars => TriggerInv'
<1> SUFFICES ASSUME TriggerInv, [Next]_vars PROVE TriggerInv'
  OBVIOUS
<1>1. CASE Subscribe \/ Wait \/ ListenerStops \/ CancelCtx \/ Shutdown \/ UNCHANGED vars
  <2>1. UNCHANGED <<ver, rows, msg, got, missed, created, tangled>> /\ (svc' = "starting" <=> svc = "starting")
    BY <1>1 DEF Subscribe, Wait, ListenerStops, CancelCtx, Shutdown, vars, store
  <2>2. QED
    BY <2>1 DEF TriggerInv, StoreTypes, Numbered, Untangled, Current, BeingAdded
<1>2. QED
  BY <1>1, AddBeginsStep, AddEndsStep, UpdateStep, DeleteStep, LoadStep DEF Next, Handler

----------------------------------------------------------------------------
\* The store and the service take a step of theirs, or none.
LEMMA AppTriggers == [AppNext]_appVars => [Next]_vars
<1> SUFFICES ASSUME [AppNext]_appVars PROVE [Next]_vars
  OBVIOUS
<1>1. ASSUME NEW c \in Clients, TriggerRPC(c) PROVE Next
  BY <1>1 DEF TriggerRPC, CreateTrigger, UpdateTrigger, DeleteTrigger, Next, Handler
<1>2. ASSUME NEW c \in Clients, WorkflowRPC(c) PROVE UNCHANGED vars
  BY <1>2 DEF WorkflowRPC
<1>3. CASE ServiceStep
  BY <1>3 DEF ServiceStep, Next
<1>4. CASE Emit \/ Forward \/ (\E n \in 1..MaxEvents : Route(n)) \/ UNCHANGED appVars
  BY <1>4 DEF Emit, Forward, Route, appVars
<1>5. QED
  BY <1>1, <1>2, <1>3, <1>4 DEF AppNext

\* And so does the store of workflows.
LEMMA AppWorkflows == ASSUME WorkflowInv, [AppNext]_appVars PROVE WorkflowStep
<1>1. ASSUME NEW c \in Clients, TriggerRPC(c) PROVE UNCHANGED workflowVars
  BY <1>1 DEF TriggerRPC
<1>2. ASSUME NEW c \in Clients, WorkflowRPC(c) PROVE WorkflowNext
  BY <1>2, CallersAssumption DEF WorkflowRPC, WorkflowNext, ListCall
<1>3. ASSUME ServiceStep \/ Emit \/ Forward \/ UNCHANGED appVars PROVE UNCHANGED workflowVars
  BY <1>3 DEF ServiceStep, Emit, Forward, appVars
<1>4. ASSUME NEW n \in 1..MaxEvents, Route(n) PROVE StartByEvent \/ UNCHANGED workflowVars
  <2>1. PICK e \in routes : StartWorkflow(e[2]) \/ UNCHANGED begun
    BY <1>4 DEF Route
  <2>2. UNCHANGED <<rowVars, answer, listing>>
    BY <1>4 DEF Route
  <2>3. StartWorkflow(e[2]) => e[2] \in Workflows
    BY FoundSteps DEF StartWorkflow, WorkflowInv
  <2>4. QED
    BY <2>1, <2>2, <2>3 DEF StartByEvent, workflowVars
<1>5. QED
  BY <1>1, <1>2, <1>3, <1>4 DEF AppNext, WorkflowStep

LEMMA AppInductive == AppSpec => [](TriggerInv /\ WorkflowInv)
<1>1. AppInit => TriggerInv /\ WorkflowInv
  BY TriggerInitInv, WorkflowInitInv DEF AppInit
<1>2. TriggerInv /\ WorkflowInv /\ [AppNext]_appVars => TriggerInv' /\ WorkflowInv'
  BY TriggerStepInv, AppTriggers, WorkflowStepInv, AppWorkflows
<1>3. QED
  BY <1>1, <1>2, PTL DEF AppSpec

----------------------------------------------------------------------------
\* What the service knows of a stored trigger is what is stored, unless it
\* missed the last write, an Add has yet to send, or calls for that trigger
\* overlapped: with any number of handlers (store_mock.go Add, Update).
THEOREM KnowsWhatIsStored == AppSpec => []ServiceIsCurrent
<1>1. TriggerInv => ServiceIsCurrent
  BY DEF TriggerInv, Current, ServiceIsCurrent
<1>2. QED
  BY <1>1, AppInductive, PTL

\* Only an Add is overtaken: any other write the service takes is the newest.
THEOREM UpdatesKeepOrder == AppSpec => OnlyAddIsOvertaken
<1>1. ASSUME TriggerInv, [Next]_vars, svc # "starting", NEW t \in Triggers, got'[t] < got[t]
      PROVE  got'[t] \in created[t]
  <2>1. ver[t] \in Nat /\ got[t] \in Nat /\ got[t] <= ver[t]
    BY <1>1, Parts DEF TriggerInv, Numbered
  <2>2. ASSUME NEW c \in Clients, AddEnds(c) PROVE got'[t] \in created[t]
    <3>1. msg[c] # Nothing /\ Offer(msg[c][1], msg[c][2])
      BY <2>2 DEF AddEnds
    <3>2. msg[c][1] \in Triggers /\ msg[c][2] \in Nat /\ msg[c][2] \in created[msg[c][1]]
      BY <1>1, <3>1, Parts DEF TriggerInv, Numbered
    <3>3. got'[t] = got[t] \/ (t = msg[c][1] /\ got'[t] = msg[c][2])
      BY <1>1, <3>1, <3>2, OfferIs DEF TriggerInv
    <3>4. QED
      BY <1>1, <2>1, <3>2, <3>3
  <2>3. ASSUME NEW c \in Clients, NEW u \in Triggers, Update(c, u) PROVE FALSE
    <3>1. Offer(u, ver[u] + 1) /\ ver[u] + 1 \in Nat
      BY <1>1, <2>3, Parts DEF Update, TriggerInv
    <3>2. got'[t] = got[t] \/ (t = u /\ got'[t] = ver[u] + 1)
      BY <1>1, <3>1, OfferIs DEF TriggerInv
    <3>3. QED
      BY <1>1, <2>1, <3>2
  <2>4. ASSUME \/ \E c \in Clients, u \in Triggers : AddBegins(c, u) \/ Delete(c, u)
               \/ Subscribe \/ Wait \/ ListenerStops \/ CancelCtx \/ Shutdown \/ UNCHANGED vars
        PROVE  got'[t] = got[t]
    BY <2>4 DEF AddBegins, Delete, Subscribe, Wait, ListenerStops, CancelCtx, Shutdown, vars
  <2>5. ~LoadAll
    BY <1>1 DEF LoadAll
  <2>6. QED
    BY <1>1, <2>1, <2>2, <2>3, <2>4, <2>5 DEF Next, Handler
<1>2. TriggerInv /\ [AppNext]_appVars =>
         [svc # "starting" => \A t \in Triggers : got'[t] < got[t] => got'[t] \in created[t]]_vars
  BY <1>1, AppTriggers
<1>3. QED
  BY <1>2, AppInductive, PTL DEF AppSpec, OnlyAddIsOvertaken

\* The RPCs on workflows and the events that start them, all together, act on
\* the slice as calls that happen at once act on a map.
THEOREM Linearizable == AppSpec => ImplementsRegistry
<1>1. AppInit => Registry!RegInit
  BY RegistryInit DEF AppInit
<1>2. WorkflowInv /\ [AppNext]_appVars => [Registry!RegNext]_(Registry!regVars)
  BY AppWorkflows, RegistryStep DEF WorkflowInv
<1>3. QED
  BY <1>1, <1>2, AppInductive, PTL DEF AppSpec, ImplementsRegistry, Registry!RegSpec

\* A listing that no deletion overtook is sound, however many calls create and
\* update workflows while it reads the slice without the lock.
THEOREM ListsWhatWasStored == AppSpec => []ListingSound
<1>1. WorkflowInv => ListingSound
  BY ListingIsSound
<1>2. QED
  BY <1>1, AppInductive, PTL
==============================================================================
