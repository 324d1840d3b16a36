------------------------- MODULE WorkflowStoreProofs -------------------------
(***************************************************************************)
(* Proofs about WorkflowStore, for any number of workflows, handlers and   *)
(* calls: the slice behaves as a map, and what a List reads without the    *)
(* lock is sound as long as no deletion moves rows in its array.           *)
(***************************************************************************)
EXTENDS WorkflowStore, TLAPS

Row == [id : Workflows \union {NilId}, steps : Nat]

\* The steps of a row are some that a call stored for its id; o is the owners.
Own(row, o) == row.id \in Workflows /\ row.steps \in DOMAIN o /\ o[row.steps] = row.id

SliceTypes ==
    /\ arrays \in Seq(Seq(Row)) /\ arrays # <<>>
    /\ size \in Nat /\ size <= Len(Array)
    /\ owner \in Seq(Workflows) /\ Len(owner) <= MaxEdits

Window ==
    /\ \A n \in 1..size : Own(Array[n], owner)
    /\ \A m, n \in 1..size : Array[m].id = Array[n].id => m = n

\* A listing's array is the slice's, or one the slice has outgrown and nobody
\* writes any more; as, sz and o are the arrays, the length and the owners.
Listing == [array : Nat, length : Nat, half : Workflows \union {NilId}, out : Seq(Row),
            ids : Seq(Workflows), moved : BOOLEAN]

ListingOf(l, as, sz, o) ==
    \/ l = NoListing
    \/ /\ l \in Listing /\ l.array \in DOMAIN as
       /\ l.length <= Len(as[l.array]) /\ Len(l.out) <= l.length
       /\ l.half # NilId => Len(l.out) < l.length
       /\ ~l.moved =>
             /\ l.array = Len(as) => l.length <= sz
             /\ \A n \in 1..l.length : as[l.array][n].id = l.ids[n] /\ Own(as[l.array][n], o)
             /\ \A n \in DOMAIN l.out : l.out[n].id = l.ids[n] /\ Own(l.out[n], o)
             /\ l.half # NilId => l.half = l.ids[Len(l.out) + 1]

Listings ==
    /\ DOMAIN listing = Callers
    /\ \A c \in Callers : ListingOf(listing[c], arrays, size, owner)

SliceInv == SliceTypes /\ Window

----------------------------------------------------------------------------
(* What is found in the slice *)

LEMMA Slots ==
    ASSUME SliceTypes
    PROVE  /\ Len(arrays) \in Nat \ {0} /\ Array = arrays[Len(arrays)] /\ Array \in Seq(Row)
           /\ Len(Array) \in Nat /\ Len(owner) \in Nat
           /\ \A n \in 1..size : n \in 1..Len(Array) /\ Array[n] \in Row
           /\ DOMAIN Array = 1..Len(Array) /\ DOMAIN owner = 1..Len(owner) /\ DOMAIN arrays = 1..Len(arrays)
<1>1. Len(arrays) \in Nat \ {0} /\ Array = arrays[Len(arrays)] /\ DOMAIN arrays = 1..Len(arrays)
  BY DEF SliceTypes, Array, Last
<1>2. Array \in Seq(Row)
  BY <1>1 DEF SliceTypes
<1>3. Len(Array) \in Nat /\ DOMAIN Array = 1..Len(Array) /\ \A n \in 1..Len(Array) : Array[n] \in Row
  BY <1>2
<1>4. Len(owner) \in Nat /\ DOMAIN owner = 1..Len(owner)
  BY DEF SliceTypes
<1>5. \A n \in 1..size : n \in 1..Len(Array)
  BY <1>3 DEF SliceTypes
<1>6. QED
  BY <1>1, <1>2, <1>3, <1>4, <1>5

LEMMA FirstOfOne ==
    ASSUME NEW n \in Nat
    PROVE  (CHOOSE m \in {n} : \A k \in {n} : m <= k) = n
<1>1. \E m \in {n} : \A k \in {n} : m <= k
  OBVIOUS
<1>2. QED
  BY <1>1

\* A row of the window is the only one of its id, and its steps are what is found.
LEMMA Found ==
    ASSUME SliceInv, NEW n \in 1..size, NEW w, Array[n].id = w
    PROVE  Stored(w) /\ StepsOf(w) = Array[n].steps
<1>1. PlacesOf(w) = {n}
  BY DEF SliceInv, Window, PlacesOf
<1>2. QED
  BY <1>1, FirstOfOne DEF Stored, StepsOf

LEMMA FoundNext ==
    ASSUME SliceInv', NEW n \in 1..size', NEW w, Array'[n].id = w
    PROVE  Stored(w)' /\ StepsOf(w)' = Array'[n].steps
<1>1. PlacesOf(w)' = {n}
  BY DEF SliceInv, Window, PlacesOf
<1>2. QED
  BY <1>1, FirstOfOne DEF Stored, StepsOf

LEMMA FoundSteps ==
    ASSUME SliceInv
    PROVE  /\ \A w \in Workflows : Stored(w) => StepsOf(w) \in 1..Len(owner) /\ owner[StepsOf(w)] = w
           /\ \A w : ~Stored(w) => StepsOf(w) = 0
           /\ \A w : Stored(w) => w \in Workflows
<1>1. ASSUME NEW w, Stored(w) PROVE w \in Workflows /\ StepsOf(w) \in 1..Len(owner) /\ owner[StepsOf(w)] = w
  <2>1. PICK n \in 1..size : Array[n].id = w
    BY <1>1 DEF Stored, PlacesOf
  <2>2. StepsOf(w) = Array[n].steps
    BY <2>1, Found
  <2>3. Own(Array[n], owner)
    BY DEF SliceInv, Window
  <2>4. QED
    BY <2>1, <2>2, <2>3, Slots DEF Own, SliceInv
<1>2. QED
  BY <1>1, WorkflowAssumption DEF StepsOf

\* What is found of an id depends on its rows only.
LEMMA SameFound ==
    ASSUME SliceInv, SliceInv', NEW w,
           \A n \in 1..size : Array[n].id = w => \E m \in 1..size' : Array'[m] = Array[n],
           \A m \in 1..size' : Array'[m].id = w => \E n \in 1..size : Array[n] = Array'[m]
    PROVE  StepsOf(w)' = StepsOf(w) /\ (Stored(w)' <=> Stored(w))
<1>1. CASE Stored(w)
  <2>1. PICK n \in 1..size : Array[n].id = w
    BY <1>1 DEF Stored, PlacesOf
  <2>2. PICK m \in 1..size' : Array'[m] = Array[n]
    BY <2>1
  <2>3. StepsOf(w) = Array[n].steps
    BY <2>1, Found
  <2>4. Stored(w)' /\ StepsOf(w)' = Array'[m].steps
    BY <2>1, <2>2, FoundNext
  <2>5. QED
    BY <1>1, <2>2, <2>3, <2>4
<1>2. CASE ~Stored(w)
  <2>1. ~Stored(w)'
    BY <1>2 DEF Stored, PlacesOf
  <2>2. StepsOf(w) = 0 /\ StepsOf(w)' = 0
    BY <1>2, <2>1 DEF StepsOf
  <2>3. QED
    BY <1>2, <2>1, <2>2
<1>3. QED
  BY <1>1, <1>2
----------------------------------------------------------------------------
(* What the calls that write do to the arrays *)

\* The last array is replaced by another of its length.
LEMMA Replaced ==
    ASSUME SliceTypes, NEW f \in Seq(Row), Len(f) = Len(Array), arrays' = [arrays EXCEPT ![Len(arrays)] = f]
    PROVE  /\ arrays' \in Seq(Seq(Row)) /\ arrays' # <<>> /\ Array' = f
           /\ Len(arrays') = Len(arrays) /\ DOMAIN arrays' = DOMAIN arrays
           /\ arrays'[Len(arrays)] = f
           /\ \A k \in DOMAIN arrays : k # Len(arrays) => arrays'[k] = arrays[k]
<1>1. Len(arrays) \in DOMAIN arrays /\ Len(arrays) \in Nat
  BY Slots
<1>2. /\ arrays' \in Seq(Seq(Row)) /\ Len(arrays') = Len(arrays) /\ DOMAIN arrays' = DOMAIN arrays
      /\ arrays'[Len(arrays)] = f
      /\ \A k \in DOMAIN arrays : k # Len(arrays) => arrays'[k] = arrays[k]
  BY <1>1 DEF SliceTypes
<1>3. Array' = f /\ arrays' # <<>>
  BY <1>1, <1>2 DEF Array, Last
<1>4. QED
  BY <1>2, <1>3

\* An array is added behind the others.
LEMMA Added ==
    ASSUME SliceTypes, NEW f \in Seq(Row), arrays' = Append(arrays, f)
    PROVE  /\ arrays' \in Seq(Seq(Row)) /\ arrays' # <<>> /\ Array' = f
           /\ Len(arrays') = Len(arrays) + 1 /\ DOMAIN arrays' = 1..(Len(arrays) + 1)
           /\ \A k \in DOMAIN arrays : arrays'[k] = arrays[k]
<1>1. Len(arrays) \in Nat /\ DOMAIN arrays = 1..Len(arrays)
  BY Slots
<1>2. /\ arrays' \in Seq(Seq(Row)) /\ Len(arrays') = Len(arrays) + 1
      /\ arrays'[Len(arrays) + 1] = f
      /\ \A k \in DOMAIN arrays : arrays'[k] = arrays[k]
  BY <1>1 DEF SliceTypes
<1>3. Array' = f /\ arrays' # <<>> /\ DOMAIN arrays' = 1..(Len(arrays) + 1)
  BY <1>1, <1>2 DEF Array, Last
<1>4. QED
  BY <1>2, <1>3

\* One more call has stored steps.
LEMMA OneMore ==
    ASSUME SliceTypes, NEW w \in Workflows, owner' = Append(owner, w), Len(owner) < MaxEdits
    PROVE  /\ owner' \in Seq(Workflows) /\ Len(owner') = Len(owner) + 1 /\ Len(owner') <= MaxEdits
           /\ \A row \in Row : Own(row, owner) => Own(row, owner')
           /\ Len(owner) + 1 \in DOMAIN owner' /\ owner'[Len(owner) + 1] = w
<1>1. /\ owner' \in Seq(Workflows) /\ Len(owner') = Len(owner) + 1 /\ Len(owner) \in Nat
      /\ owner'[Len(owner) + 1] = w /\ DOMAIN owner' = 1..(Len(owner) + 1)
      /\ \A k \in DOMAIN owner : k \in DOMAIN owner' /\ owner'[k] = owner[k]
  BY DEF SliceTypes
<1>2. \A row \in Row : Own(row, owner) => Own(row, owner')
  BY <1>1 DEF Own
<1>3. QED
  BY <1>1, <1>2, WorkflowAssumption

\* What stays of the arrays: they keep their lengths, and none but the slots of
\* the last one behind the window changes, or only its steps do.
KeepsIds ==
    /\ Len(arrays) <= Len(arrays')
    /\ \A k \in DOMAIN arrays :
          /\ k \in DOMAIN arrays' /\ Len(arrays'[k]) = Len(arrays[k])
          /\ \A j \in 1..Len(arrays[k]) :
                (k = Len(arrays) => j <= size) =>
                    /\ arrays'[k][j].id = arrays[k][j].id
                    /\ Own(arrays[k][j], owner) => Own(arrays'[k][j], owner')
    /\ size <= size'
    /\ \A row \in Row : Own(row, owner) => Own(row, owner')

LEMMA CreateKeeps ==
    ASSUME SliceInv, NEW c \in Callers, NEW w \in Workflows, CreateWorkflow(c, w)
    PROVE  /\ SliceInv' /\ KeepsIds
           /\ size' = size + 1 /\ \A n \in 1..size : Array'[n] = Array[n]
           /\ Array'[size + 1] = [id |-> w, steps |-> Len(owner) + 1]
<1> DEFINE row == [id |-> w, steps |-> Len(owner) + 1]
<1>1. /\ owner' = Append(owner, w) /\ size' = size + 1 /\ Len(owner) < MaxEdits
      /\ Appended(row) /\ ~Stored(w)
  BY DEF CreateWorkflow
<1>2. /\ owner' \in Seq(Workflows) /\ Len(owner') <= MaxEdits
      /\ \A r \in Row : Own(r, owner) => Own(r, owner')
      /\ Len(owner) + 1 \in DOMAIN owner' /\ owner'[Len(owner) + 1] = w
  BY <1>1, OneMore DEF SliceInv
<1>3. SliceTypes /\ size \in Nat /\ size <= Len(Array)
  BY DEF SliceInv, SliceTypes
<1>4. row \in Row /\ row.id = w /\ Own(row, owner')
  BY <1>2, <1>3, Slots DEF Row, Own
<1> HIDE DEF row
<1>5. /\ arrays' \in Seq(Seq(Row)) /\ arrays' # <<>> /\ size + 1 <= Len(Array')
      /\ Len(arrays) <= Len(arrays')
      /\ \A n \in 1..size : Array'[n] = Array[n]
      /\ Array'[size + 1] = row
      /\ \A k \in DOMAIN arrays :
            /\ k \in DOMAIN arrays' /\ Len(arrays'[k]) = Len(arrays[k])
            /\ \A j \in 1..Len(arrays[k]) :
                  (k = Len(arrays) => j <= size) => arrays'[k][j] = arrays[k][j]
  <2>1. CASE size < Len(Array)
    <3> DEFINE f == [Array EXCEPT ![size + 1] = row]
    <3>1. arrays' = [arrays EXCEPT ![Len(arrays)] = f]
      BY <1>1, <1>3, <2>1, Slots DEF Appended
    <3>2. /\ f \in Seq(Row) /\ Len(f) = Len(Array) /\ f[size + 1] = row
          /\ \A n \in 1..Len(Array) : n # size + 1 => f[n] = Array[n]
      BY <1>3, <1>4, <2>1, Slots
    <3> HIDE DEF f
    <3>3. /\ arrays' \in Seq(Seq(Row)) /\ arrays' # <<>> /\ Array' = f
          /\ Len(arrays') = Len(arrays) /\ DOMAIN arrays' = DOMAIN arrays
          /\ arrays'[Len(arrays)] = f /\ arrays[Len(arrays)] = Array
          /\ \A k \in DOMAIN arrays : k # Len(arrays) => arrays'[k] = arrays[k]
      BY <1>3, <3>1, <3>2, Replaced, Slots
    <3>4. Len(arrays) \in Nat /\ Len(Array) \in Nat
      BY <1>3, Slots
    <3>5. QED
      BY <1>3, <2>1, <3>2, <3>3, <3>4
  <2>2. CASE ~(size < Len(Array))
    <3> DEFINE room == IF size = 0 THEN 1 ELSE 2 * size
               f == [n \in 1..room |-> IF n <= size THEN Array[n] ELSE IF n = size + 1 THEN row ELSE Blank]
    <3>1. arrays' = Append(arrays, f)
      BY <1>1, <2>2 DEF Appended
    <3>2. room \in Nat /\ size + 1 <= room
      BY <1>3
    <3> HIDE DEF room
    <3>3. Blank \in Row
      BY DEF Blank, Row
    <3>4. \A n \in 1..room : f[n] \in Row
      BY <1>3, <1>4, <3>3, Slots
    <3>5. f \in Seq(Row) /\ Len(f) = room
      BY <3>2, <3>4
    <3>6. f[size + 1] = row /\ \A n \in 1..size : f[n] = Array[n]
      BY <1>3, <3>2
    <3> HIDE DEF f
    <3>7. QED
      BY <1>3, <3>1, <3>2, <3>5, <3>6, Added, Slots
  <2>3. QED
    BY <2>1, <2>2
<1>6. SliceTypes'
  BY <1>1, <1>2, <1>3, <1>5 DEF SliceTypes
<1>7. Window'
  <2>1. \A n \in 1..size : Own(Array[n], owner) /\ Array[n] \in Row /\ Array[n].id # w
    BY <1>1, <1>3, Slots DEF SliceInv, Window, Stored, PlacesOf
  <2>2. \A n \in 1..(size + 1) : n \in 1..size \/ n = size + 1
    BY <1>3
  <2>3. \A n \in 1..size' : Own(Array'[n], owner')
    BY <1>1, <1>2, <1>4, <1>5, <2>1, <2>2
  <2>4. \A m, n \in 1..size' : Array'[m].id = Array'[n].id => m = n
    BY <1>1, <1>4, <1>5, <2>1, <2>2, SMTT(30) DEF SliceInv, Window
  <2>5. QED
    BY <2>3, <2>4 DEF Window
<1>8. KeepsIds
  <2>1. \A k \in DOMAIN arrays : \A j \in 1..Len(arrays[k]) : arrays[k][j] \in Row
    BY <1>3 DEF SliceTypes
  <2>2. size <= size'
    BY <1>1, <1>3
  <2>3. QED
    BY <1>2, <1>5, <2>1, <2>2 DEF KeepsIds
<1>9. QED
  BY <1>1, <1>5, <1>6, <1>7, <1>8 DEF SliceInv, row
LEMMA UpdateKeeps ==
    ASSUME SliceInv, NEW c \in Callers, NEW w \in Workflows, UpdateWorkflow(c, w)
    PROVE  /\ SliceInv' /\ KeepsIds /\ size' = size
           /\ \A n \in 1..size : Array'[n] = IF Array[n].id = w THEN [Array[n] EXCEPT !.steps = Len(owner) + 1] ELSE Array[n]
<1> DEFINE f == [n \in DOMAIN Array |-> IF n \in PlacesOf(w) THEN [Array[n] EXCEPT !.steps = Len(owner) + 1] ELSE Array[n]]
<1>1. /\ owner' = Append(owner, w) /\ size' = size /\ Len(owner) < MaxEdits
      /\ arrays' = [arrays EXCEPT ![Len(arrays)] = f]
  BY DEF UpdateWorkflow
<1>2. /\ owner' \in Seq(Workflows) /\ Len(owner') <= MaxEdits
      /\ \A r \in Row : Own(r, owner) => Own(r, owner')
      /\ Len(owner) + 1 \in DOMAIN owner' /\ owner'[Len(owner) + 1] = w
  BY <1>1, OneMore DEF SliceInv
<1>3. SliceTypes /\ size \in Nat /\ size <= Len(Array) /\ Len(Array) \in Nat
  BY Slots DEF SliceInv, SliceTypes
<1>4. \A n \in 1..Len(Array) :
         /\ Array[n] \in Row
         /\ f[n] = IF n <= size /\ Array[n].id = w THEN [Array[n] EXCEPT !.steps = Len(owner) + 1] ELSE Array[n]
  BY <1>3, Slots DEF PlacesOf
<1>5. \A n \in 1..Len(Array) : f[n] \in Row /\ f[n].id = Array[n].id
  BY <1>3, <1>4, Slots, SMTT(30) DEF Row
<1>6. f \in Seq(Row) /\ Len(f) = Len(Array)
  BY <1>3, <1>5, Slots
<1> HIDE DEF f
<1>7. /\ arrays' \in Seq(Seq(Row)) /\ arrays' # <<>> /\ Array' = f
      /\ Len(arrays') = Len(arrays) /\ DOMAIN arrays' = DOMAIN arrays
      /\ arrays'[Len(arrays)] = f /\ arrays[Len(arrays)] = Array
      /\ \A k \in DOMAIN arrays : k # Len(arrays) => arrays'[k] = arrays[k]
  BY <1>1, <1>3, <1>6, Replaced, Slots
<1>8. \A n \in 1..size : Own(f[n], owner')
  <2> SUFFICES ASSUME NEW n \in 1..size PROVE Own(f[n], owner')
    OBVIOUS
  <2>1. n \in 1..Len(Array) /\ n <= size /\ Own(Array[n], owner)
    BY <1>3 DEF SliceInv, Window
  <2>2. CASE Array[n].id = w
    <3>1. f[n] = [Array[n] EXCEPT !.steps = Len(owner) + 1] /\ Array[n] \in Row
      BY <1>4, <2>1, <2>2
    <3>2. f[n].id = w /\ f[n].steps = Len(owner) + 1
      BY <2>2, <3>1 DEF Row
    <3>3. QED
      BY <1>2, <3>2 DEF Own
  <2>3. CASE Array[n].id # w
    BY <1>2, <1>4, <2>1, <2>3
  <2>4. QED
    BY <2>2, <2>3
<1>9. SliceInv'
  <2>1. SliceTypes'
    BY <1>1, <1>2, <1>3, <1>6, <1>7 DEF SliceTypes
  <2>2. \A n \in 1..size : n \in 1..Len(Array)
    BY <1>3
  <2>3. Window'
    BY <1>1, <1>5, <1>7, <1>8, <2>2 DEF SliceInv, Window
  <2>4. QED
    BY <2>1, <2>3 DEF SliceInv
<1>10. KeepsIds
  <2> SUFFICES ASSUME NEW k \in DOMAIN arrays
               PROVE  /\ k \in DOMAIN arrays' /\ Len(arrays'[k]) = Len(arrays[k])
                      /\ \A j \in 1..Len(arrays[k]) :
                            (k = Len(arrays) => j <= size) =>
                                /\ arrays'[k][j].id = arrays[k][j].id
                                /\ Own(arrays[k][j], owner) => Own(arrays'[k][j], owner')
    BY <1>1, <1>2, <1>3, <1>7, Slots DEF KeepsIds
  <2>1. CASE k = Len(arrays)
    <3>1. arrays'[k] = f /\ arrays[k] = Array /\ k \in DOMAIN arrays'
      BY <1>7, <2>1
    <3>2. \A j \in 1..Len(Array) : j <= size => j \in 1..size
      BY <1>3
    <3>3. QED
      BY <1>5, <1>6, <1>8, <2>1, <3>1, <3>2
  <2>2. CASE k # Len(arrays)
    <3>1. \A j \in 1..Len(arrays[k]) : arrays[k][j] \in Row
      BY <1>3 DEF SliceTypes
    <3>2. QED
      BY <1>2, <1>7, <2>2, <3>1
  <2>3. QED
    BY <2>1, <2>2
<1>11. \A n \in 1..size : Array'[n] = IF Array[n].id = w THEN [Array[n] EXCEPT !.steps = Len(owner) + 1] ELSE Array[n]
  <2> SUFFICES ASSUME NEW n \in 1..size
               PROVE  f[n] = IF Array[n].id = w THEN [Array[n] EXCEPT !.steps = Len(owner) + 1] ELSE Array[n]
    BY <1>7
  <2>1. n \in 1..Len(Array) /\ n <= size
    BY <1>3
  <2>2. QED
    BY <1>4, <2>1
<1>12. QED
  BY <1>1, <1>9, <1>10, <1>11

LEMMA DeleteKeeps ==
    ASSUME SliceInv, NEW c \in Callers, NEW w \in Workflows, DeleteWorkflow(c, w)
    PROVE  /\ SliceInv' /\ Len(arrays') = Len(arrays) /\ UNCHANGED owner
           /\ \A k \in DOMAIN arrays :
                 /\ k \in DOMAIN arrays' /\ Len(arrays'[k]) = Len(arrays[k])
                 /\ k # Len(arrays) => arrays'[k] = arrays[k]
           /\ \E n \in 1..size :
                 /\ Array[n].id = w /\ size' = size - 1
                 /\ \A m \in 1..size' : Array'[m] = IF m < n THEN Array[m] ELSE Array[m + 1]
<1>1. PICK n \in 1..size : /\ Array[n].id = w
                          /\ arrays' = [arrays EXCEPT ![Len(arrays)] = Without(n)]
  BY DEF DeleteWorkflow, PlacesOf
<1>2. size' = size - 1 /\ UNCHANGED owner
  BY DEF DeleteWorkflow
<1>3. SliceTypes /\ size \in Nat /\ size <= Len(Array) /\ Len(Array) \in Nat
  BY Slots DEF SliceInv, SliceTypes
<1> DEFINE f == Without(n)
<1>4. /\ \A k \in 1..Len(Array) : f[k] = IF k \in n..(size - 1) THEN Array[k + 1] ELSE Array[k]
      /\ DOMAIN f = 1..Len(Array)
  BY <1>3, Slots DEF Without
<1>5. \A k \in 1..Len(Array) : Array[k] \in Row
  BY <1>3, Slots
<1>6. f \in Seq(Row) /\ Len(f) = Len(Array)
  <2>1. \A k \in 1..Len(Array) : f[k] \in Row
    <3> SUFFICES ASSUME NEW k \in 1..Len(Array) PROVE f[k] \in Row
      OBVIOUS
    <3>1. CASE k \in n..(size - 1)
      <4>1. k + 1 \in 1..Len(Array)
        BY <1>3, <3>1
      <4>2. QED
        BY <1>4, <1>5, <3>1, <4>1
    <3>2. CASE k \notin n..(size - 1)
      BY <1>4, <1>5, <3>2
    <3>3. QED
      BY <3>1, <3>2
  <2>2. f = [k \in 1..Len(Array) |-> f[k]]
    BY <1>4 DEF Without
  <2>3. QED
    BY <1>3, <2>1, <2>2
<1> HIDE DEF f
<1>7. /\ arrays' \in Seq(Seq(Row)) /\ arrays' # <<>> /\ Array' = f
      /\ Len(arrays') = Len(arrays) /\ DOMAIN arrays' = DOMAIN arrays
      /\ arrays'[Len(arrays)] = f /\ arrays[Len(arrays)] = Array
      /\ \A k \in DOMAIN arrays : k # Len(arrays) => arrays'[k] = arrays[k]
  BY <1>1, <1>3, <1>6, Replaced, Slots DEF f
<1>8. \A m \in 1..size' : /\ f[m] = IF m < n THEN Array[m] ELSE Array[m + 1]
                          /\ m \in 1..size /\ m + 1 \in 1..size
  BY <1>2, <1>3, <1>4
<1>9. SliceTypes'
  BY <1>2, <1>3, <1>6, <1>7 DEF SliceTypes
<1>10. Window'
  <2>1. \A m \in 1..size' : Own(f[m], owner)
    BY <1>8 DEF SliceInv, Window
  <2>2. ASSUME NEW k \in 1..size', NEW m \in 1..size', f[k].id = f[m].id PROVE k = m
    <3>1. k \in Nat /\ m \in Nat /\ n \in Nat
      BY <1>2, <1>3
    <3>2. PICK a \in 1..size : f[k] = Array[a] /\ a = IF k < n THEN k ELSE k + 1
      BY <1>8
    <3>3. PICK b \in 1..size : f[m] = Array[b] /\ b = IF m < n THEN m ELSE m + 1
      BY <1>8
    <3>4. a = b
      BY <2>2, <3>2, <3>3 DEF SliceInv, Window
    <3>5. QED
      BY <3>1, <3>2, <3>3, <3>4
  <2>3. QED
    BY <1>2, <1>7, <2>1, <2>2 DEF Window
<1>11. QED
  BY <1>1, <1>2, <1>7, <1>6, <1>8, <1>9, <1>10 DEF SliceInv
----------------------------------------------------------------------------
(* Listings *)

\* A listing goes on as it was when a call stores steps.
LEMMA ListingKept ==
    ASSUME SliceInv, SliceInv', KeepsIds, NEW l, ListingOf(l, arrays, size, owner) PROVE ListingOf(l, arrays', size', owner')
<1>1. CASE l = NoListing
  BY <1>1 DEF ListingOf
<1>2. CASE l # NoListing
  <2> DEFINE a == l.array
  <2>1. /\ l \in Listing /\ a \in DOMAIN arrays
        /\ l.length <= Len(arrays[a]) /\ Len(l.out) <= l.length
        /\ l.half # NilId => Len(l.out) < l.length
    BY <1>2 DEF ListingOf
  <2>2. /\ Len(arrays) \in Nat /\ a \in 1..Len(arrays) /\ size \in Nat /\ l.length \in Nat /\ l.out \in Seq(Row)
        /\ Len(arrays[a]) \in Nat
    BY <2>1, Slots DEF SliceInv, SliceTypes, Listing
  <2>3. a \in DOMAIN arrays' /\ Len(arrays'[a]) = Len(arrays[a])
    BY <2>1 DEF KeepsIds
  <2>4. ASSUME ~l.moved
        PROVE  /\ a = Len(arrays') => l.length <= size'
               /\ \A n \in 1..l.length : arrays'[a][n].id = l.ids[n] /\ Own(arrays'[a][n], owner')
               /\ \A n \in DOMAIN l.out : l.out[n].id = l.ids[n] /\ Own(l.out[n], owner')
               /\ l.half # NilId => l.half = l.ids[Len(l.out) + 1]
    <3>1. /\ a = Len(arrays) => l.length <= size
          /\ \A n \in 1..l.length : arrays[a][n].id = l.ids[n] /\ Own(arrays[a][n], owner)
          /\ \A n \in DOMAIN l.out : l.out[n].id = l.ids[n] /\ Own(l.out[n], owner)
          /\ l.half # NilId => l.half = l.ids[Len(l.out) + 1]
      BY <1>2, <2>4 DEF ListingOf
    <3>2. a = Len(arrays') => l.length <= size'
      <4>1. Len(arrays') \in Nat /\ size' \in Nat
        BY DEF SliceInv, SliceTypes
      <4>2. Len(arrays) <= Len(arrays') /\ size <= size'
        BY DEF KeepsIds
      <4>3. QED
        BY <2>2, <3>1, <4>1, <4>2
    <3>3. \A n \in 1..l.length : n \in 1..Len(arrays[a]) /\ (a = Len(arrays) => n <= size)
      BY <2>1, <2>2, <3>1
    <3>4. \A n \in 1..l.length : arrays'[a][n].id = l.ids[n] /\ Own(arrays'[a][n], owner')
      BY <2>1, <3>1, <3>3 DEF KeepsIds
    <3>5. \A n \in DOMAIN l.out : Own(l.out[n], owner')
      BY <2>2, <3>1 DEF KeepsIds
    <3>6. QED
      BY <3>1, <3>2, <3>4, <3>5
  <2>5. QED
    BY <2>1, <2>3, <2>4 DEF ListingOf
<1>3. QED
  BY <1>1, <1>2

\* What a deletion does to the listings.
LEMMA ListingAfterDelete ==
    ASSUME SliceInv, Listings, NEW c \in Callers, NEW w \in Workflows, DeleteWorkflow(c, w)
    PROVE  Listings'
<1>1. listing' = [d \in Callers |->
           IF listing[d].array = Len(arrays) THEN [listing[d] EXCEPT !.moved = TRUE] ELSE listing[d]]
  BY DEF DeleteWorkflow
<1>2. /\ Len(arrays') = Len(arrays) /\ UNCHANGED owner
      /\ \A k \in DOMAIN arrays :
            /\ k \in DOMAIN arrays' /\ Len(arrays'[k]) = Len(arrays[k])
            /\ k # Len(arrays) => arrays'[k] = arrays[k]
  BY DeleteKeeps
<1>3. ASSUME NEW d \in Callers PROVE ListingOf(listing'[d], arrays', size', owner')
  <2> DEFINE l == listing[d]
  <2>1. ListingOf(l, arrays, size, owner)
    BY DEF Listings
  <2>2. Len(arrays) \in Nat /\ Len(arrays) # 0
    BY Slots DEF SliceInv
  <2>3. CASE l = NoListing
    <3>1. listing'[d] = NoListing
      BY <1>1, <2>2, <2>3 DEF NoListing
    <3>2. QED
      BY <3>1 DEF ListingOf
  <2>4. CASE l # NoListing /\ l.array = Len(arrays)
    <3>1. listing'[d] = [l EXCEPT !.moved = TRUE] /\ l \in Listing
      BY <1>1, <2>1, <2>4 DEF ListingOf
    <3> HIDE DEF l
    <3>2. /\ listing'[d] \in Listing /\ listing'[d].moved
          /\ listing'[d].array = l.array /\ listing'[d].length = l.length
          /\ listing'[d].out = l.out /\ listing'[d].half = l.half
      BY <3>1 DEF Listing
    <3>3. QED
      BY <1>2, <2>1, <2>4, <3>2 DEF ListingOf
  <2>5. CASE l # NoListing /\ l.array # Len(arrays)
    <3>1. listing'[d] = l
      BY <1>1, <2>5
    <3>2. l.array \in DOMAIN arrays => arrays'[l.array] = arrays[l.array]
      BY <1>2, <2>5
    <3> HIDE DEF l
    <3>3. QED
      BY <1>2, <2>1, <2>5, <3>1, <3>2 DEF ListingOf
  <2>6. QED
    BY <2>3, <2>4, <2>5
<1>4. QED
  BY <1>1, <1>3 DEF Listings

LEMMA ListingRead ==
    ASSUME SliceInv, Listings, NEW c \in Callers, ListCall(c) PROVE Listings'
<1>1. UNCHANGED <<arrays, size, owner>>
  BY DEF ListCall, ListBegins, ListReadsId, ListReadsSteps, ListEnds, rowVars
<1> DEFINE l == listing[c]
<1>2. ListingOf(l, arrays, size, owner) /\ DOMAIN listing = Callers
  BY DEF Listings
<1>a. /\ Len(arrays) \in DOMAIN arrays /\ Array = arrays[Len(arrays)] /\ size \in Nat /\ size <= Len(Array)
      /\ Len(arrays) \in Nat /\ Len(Array) \in Nat
      /\ arrays \in Seq(Seq(Row))
  BY Slots DEF SliceInv, SliceTypes
<1>3. ASSUME NEW m, listing' = [listing EXCEPT ![c] = m], ListingOf(m, arrays, size, owner)
      PROVE  Listings'
  BY <1>1, <1>2, <1>3 DEF Listings
<1>4. CASE ListBegins(c)
  <2> DEFINE m == [NoListing EXCEPT !.array = Len(arrays), !.length = size,
                             !.ids = [n \in 1..size |-> Array[n].id]]
  <2>1. listing' = [listing EXCEPT ![c] = m]
    BY <1>4 DEF ListBegins
  <2>2. /\ m.array = Len(arrays) /\ m.length = size /\ m.half = NilId /\ m.out = <<>> /\ ~m.moved
        /\ \A n \in 1..size : m.ids[n] = Array[n].id
    BY DEF NoListing
  <2>3. m \in Listing
    <3>1. \A n \in 1..size : Array[n].id \in Workflows
      BY DEF SliceInv, Window, Own
    <3>2. [n \in 1..size |-> Array[n].id] \in Seq(Workflows)
      BY <1>a, <3>1, SMTT(30)
    <3>3. <<>> \in Seq(Row) /\ <<>> \in Seq(Workflows)
      OBVIOUS
    <3>4. NoListing \in Listing
      BY <3>3 DEF Listing, NoListing
    <3>5. QED
      BY <1>a, <3>2, <3>4 DEF Listing
  <2> HIDE DEF m
  <2>4. ListingOf(m, arrays, size, owner)
    BY <1>a, <2>2, <2>3 DEF ListingOf, SliceInv, Window
  <2>5. QED
    BY <1>3, <2>1, <2>4
<1>5. CASE ListEnds(c)
  <2>1. ListingOf(NoListing, arrays, size, owner)
    BY DEF ListingOf
  <2>2. QED
    BY <1>3, <1>5, <2>1 DEF ListEnds
<1>6. CASE ListReadsId(c) \/ ListReadsSteps(c)
  <2>1. l # NoListing /\ l \in Listing
    <3>1. l # NoListing
      BY <1>6, WorkflowAssumption DEF ListReadsId, ListReadsSteps, NoListing
    <3>2. QED
      BY <1>2, <3>1 DEF ListingOf
  <2>2. /\ l.array \in DOMAIN arrays /\ l.length \in Nat /\ l.out \in Seq(Row) /\ Len(l.out) \in Nat
        /\ l.half \in Workflows \union {NilId}
        /\ l.length <= Len(arrays[l.array]) /\ Len(l.out) <= l.length /\ Len(arrays[l.array]) \in Nat
        /\ l.half # NilId => Len(l.out) < l.length
    BY <1>2, <1>a, <2>1 DEF ListingOf, Listing
  <2>3. Len(l.out) < l.length
    BY <1>6, <2>2 DEF ListReadsId, ListReadsSteps
  <2> DEFINE k == Len(l.out) + 1
  <2>4. k \in 1..l.length /\ k \in 1..Len(arrays[l.array]) /\ Slot(l) = arrays[l.array][k] /\ Slot(l) \in Row
    <3>1. arrays[l.array] \in Seq(Row) /\ k \in Nat /\ k \in 1..Len(arrays[l.array]) /\ k \in 1..l.length
      BY <1>a, <2>2, <2>3, SMTT(30)
    <3>2. arrays[l.array][k] \in Row
      BY <3>1
    <3>3. QED
      BY <3>1, <3>2 DEF Slot
  <2>5. ~l.moved => /\ l.array = Len(arrays) => l.length <= size
                    /\ \A n \in 1..l.length : arrays[l.array][n].id = l.ids[n] /\ Own(arrays[l.array][n], owner)
                    /\ \A n \in DOMAIN l.out : l.out[n].id = l.ids[n] /\ Own(l.out[n], owner)
                    /\ l.half # NilId => l.half = l.ids[k]
    BY <1>2, <2>1 DEF ListingOf
  <2> HIDE DEF k, l
  <2>6. CASE ListReadsId(c)
    <3> DEFINE m == [l EXCEPT !.half = Slot(l).id]
    <3>1. listing' = [listing EXCEPT ![c] = m]
      BY <2>6 DEF ListReadsId, l
    <3>2. /\ m \in Listing /\ m.half = Slot(l).id
          /\ m.array = l.array /\ m.length = l.length /\ m.out = l.out /\ m.ids = l.ids /\ m.moved = l.moved
      BY <2>1, <2>4 DEF Listing, Row
    <3> HIDE DEF m
    <3>3. ListingOf(m, arrays, size, owner)
      BY <2>2, <2>3, <2>4, <2>5, <3>2 DEF ListingOf, k
    <3>4. QED
      BY <1>3, <3>1, <3>3
  <2>7. CASE ListReadsSteps(c)
    <3> DEFINE row == [id |-> l.half, steps |-> Slot(l).steps]
               m == [l EXCEPT !.out = Append(l.out, row), !.half = NilId]
    <3>1. listing' = [listing EXCEPT ![c] = m] /\ l.half # NilId
      BY <1>2, <2>7 DEF ListReadsSteps, l
    <3>2. row \in Row /\ row.id = l.half /\ row.steps = Slot(l).steps
      BY <2>2, <2>4 DEF Row
    <3> HIDE DEF row
    <3>3. /\ Append(l.out, row) \in Seq(Row) /\ Len(Append(l.out, row)) = k
          /\ DOMAIN Append(l.out, row) = DOMAIN l.out \union {k}
          /\ Append(l.out, row)[k] = row /\ \A n \in DOMAIN l.out : Append(l.out, row)[n] = l.out[n]
      BY <2>2, <3>2 DEF k
    <3>4. /\ m \in Listing /\ m.half = NilId /\ m.out = Append(l.out, row)
          /\ m.array = l.array /\ m.length = l.length /\ m.ids = l.ids /\ m.moved = l.moved
      BY <2>1, <3>3 DEF Listing
    <3> HIDE DEF m
    <3>5. ~l.moved => row.id = l.ids[k] /\ Own(row, owner)
      BY <2>4, <2>5, <3>1, <3>2 DEF Own
    <3>6. k <= l.length
      BY <2>2, <2>4
    <3>7. ListingOf(m, arrays, size, owner)
      BY <2>2, <2>5, <3>3, <3>4, <3>5, <3>6 DEF ListingOf
    <3>8. QED
      BY <1>3, <3>1, <3>7
  <2>8. QED
    BY <1>6, <2>6, <2>7
<1>7. QED
  BY <1>4, <1>5, <1>6 DEF ListCall
----------------------------------------------------------------------------
(* The steps of the store, as steps of the registry *)

WorkflowInv == SliceInv /\ Listings

\* A run that an event asks for is started without an RPC (application.go:87).
StartByEvent == /\ \E w \in Workflows : StartWorkflow(w)
                /\ UNCHANGED <<rowVars, answer, listing>>

WorkflowStep == WorkflowNext \/ StartByEvent \/ UNCHANGED workflowVars

LEMMA WorkflowInitInv == WorkflowInit => WorkflowInv
<1> SUFFICES ASSUME WorkflowInit PROVE WorkflowInv
  OBVIOUS
<1>1. arrays = <<<<>>>> /\ size = 0 /\ owner = <<>> /\ listing = [c \in Callers |-> NoListing]
  BY DEF WorkflowInit
<1>2. <<>> \in Seq(Row) /\ <<<<>>>> \in Seq(Seq(Row)) /\ <<<<>>>> # <<>> /\ Len(<<<<>>>>) = 1 /\ <<<<>>>>[1] = <<>>
  OBVIOUS
<1>3. Array = <<>>
  BY <1>1, <1>2 DEF Array, Last
<1>4. SliceTypes
  BY <1>1, <1>2, <1>3, WorkflowAssumption DEF SliceTypes
<1>5. Window
  BY <1>1 DEF Window
<1>6. Listings
  BY <1>1 DEF Listings, ListingOf
<1>7. QED
  BY <1>4, <1>5, <1>6 DEF WorkflowInv, SliceInv

LEMMA WorkflowSteps ==
    ASSUME WorkflowStep
    PROVE  \/ \E c \in Callers, w \in Workflows : CreateWorkflow(c, w) \/ UpdateWorkflow(c, w) \/ DeleteWorkflow(c, w)
           \/ \E c \in Callers : ListCall(c)
           \/ UNCHANGED <<rowVars, listing>>
  BY DEF WorkflowStep, WorkflowNext, WorkflowCall, CreateRefused, GetWorkflow, NoSuchWorkflow,
     StartByCall, StartFails, StartByEvent, workflowVars

LEMMA WorkflowStepInv == ASSUME WorkflowInv, WorkflowStep PROVE WorkflowInv'
<1> USE DEF WorkflowInv
<1>1. ASSUME NEW c \in Callers, NEW w \in Workflows, CreateWorkflow(c, w) \/ UpdateWorkflow(c, w)
      PROVE  SliceInv' /\ Listings'
  <2>1. SliceInv' /\ KeepsIds
    BY <1>1, CreateKeeps, UpdateKeeps
  <2>2. UNCHANGED listing
    BY <1>1 DEF CreateWorkflow, UpdateWorkflow
  <2>3. QED
    BY <2>1, <2>2, ListingKept DEF Listings
<1>2. ASSUME NEW c \in Callers, NEW w \in Workflows, DeleteWorkflow(c, w) PROVE SliceInv' /\ Listings'
  BY <1>2, DeleteKeeps, ListingAfterDelete
<1>3. UNCHANGED rowVars => SliceInv'
  BY DEF rowVars, SliceInv, SliceTypes, Window, Array
<1>4. ASSUME NEW c \in Callers, ListCall(c) PROVE SliceInv' /\ Listings'
  <2>1. UNCHANGED rowVars
    BY <1>4 DEF ListCall, ListBegins, ListReadsId, ListReadsSteps, ListEnds
  <2>2. QED
    BY <1>3, <1>4, <2>1, ListingRead
<1>5. CASE UNCHANGED <<rowVars, listing>>
  BY <1>3, <1>5 DEF rowVars, Listings
<1>6. QED
  BY <1>1, <1>2, <1>4, <1>5, WorkflowSteps

LEMMA RegisteredIs == ASSUME SliceInv PROVE \A w : w \in Registry!Registered <=> w \in Workflows /\ Stored(w)
<1>1. \A w \in Workflows : StepsOf(w) # 0 <=> Stored(w)
  BY FoundSteps, Slots DEF SliceInv
<1>2. QED
  BY <1>1 DEF Registry!Registered

LEMMA CreateIsRegCreate ==
    ASSUME SliceInv, NEW c \in Callers, NEW w \in Workflows, CreateWorkflow(c, w)
    PROVE  \E n \in 1..MaxEdits : Registry!RegCreate(w, n)
<1> DEFINE n == Len(owner) + 1
<1>1. /\ SliceInv' /\ size' = size + 1 /\ \A k \in 1..size : Array'[k] = Array[k]
      /\ Array'[size + 1] = [id |-> w, steps |-> n]
  BY CreateKeeps
<1>2. ~Stored(w) /\ n \in 1..MaxEdits /\ Answer("ok", w, 0) /\ UNCHANGED begun
  BY Slots, WorkflowAssumption DEF CreateWorkflow, SliceInv
<1>3. size \in Nat
  BY DEF SliceInv, SliceTypes
<1> HIDE DEF n
<1>4. StepsOf(w)' = n
  <2>1. size + 1 \in 1..size' /\ Array'[size + 1].id = w /\ Array'[size + 1].steps = n
    BY <1>1, <1>3
  <2>2. QED
    BY <1>1, <2>1, FoundNext
<1>5. \A v \in Workflows : v # w => StepsOf(v)' = StepsOf(v)
  <2> SUFFICES ASSUME NEW v \in Workflows, v # w PROVE StepsOf(v)' = StepsOf(v)
    OBVIOUS
  <2>1. \A k \in 1..size : k \in 1..size'
    BY <1>1, <1>3
  <2>2. \A m \in 1..size' : m \in 1..size \/ m = size + 1
    BY <1>1, <1>3
  <2>3. \A m \in 1..size' : Array'[m].id = v => m \in 1..size
    BY <1>1, <2>2
  <2>4. QED
    BY <1>1, <2>1, <2>3, SameFound
<1>6. w \notin Registry!Registered
  BY <1>2, RegisteredIs
<1>7. Registry!RegCreate(w, n)
  BY <1>2, <1>4, <1>5, <1>6 DEF Registry!RegCreate, Registry!Answer, Answer
<1>8. QED
  BY <1>2, <1>7
LEMMA UpdateIsRegUpdate ==
    ASSUME SliceInv, NEW c \in Callers, NEW w \in Workflows, UpdateWorkflow(c, w)
    PROVE  \E n \in 1..MaxEdits : Registry!RegUpdate(w, n)
<1> DEFINE n == Len(owner) + 1
<1>1. /\ SliceInv' /\ size' = size
      /\ \A k \in 1..size : Array'[k] = IF Array[k].id = w THEN [Array[k] EXCEPT !.steps = n] ELSE Array[k]
  BY UpdateKeeps
<1>2. Stored(w) /\ n \in 1..MaxEdits /\ Answer("ok", w, 0) /\ UNCHANGED begun
  BY Slots, WorkflowAssumption DEF UpdateWorkflow, SliceInv
<1>3. StepsOf(w) \in 1..Len(owner) /\ Len(owner) \in Nat
  BY <1>2, FoundSteps, Slots DEF SliceInv
<1>4. StepsOf(w) # n
  BY <1>3
<1> HIDE DEF n
<1>5. \A k \in 1..size : Array[k] \in Row
  BY Slots DEF SliceInv
<1>6. StepsOf(w)' = n
  <2>1. PICK k \in 1..size : Array[k].id = w
    BY <1>2 DEF Stored, PlacesOf
  <2>2. Array'[k] = [Array[k] EXCEPT !.steps = n] /\ Array[k] \in Row
    BY <1>1, <1>5, <2>1
  <2>3. Array'[k].id = w /\ Array'[k].steps = n
    BY <2>1, <2>2 DEF Row
  <2>4. QED
    BY <1>1, <2>3, FoundNext
<1>7. \A v \in Workflows : v # w => StepsOf(v)' = StepsOf(v)
  <2> SUFFICES ASSUME NEW v \in Workflows, v # w PROVE StepsOf(v)' = StepsOf(v)
    OBVIOUS
  <2>1. \A k \in 1..size : Array'[k].id = Array[k].id
    BY <1>1, <1>5 DEF Row
  <2>2. \A k \in 1..size : Array[k].id = v => Array'[k] = Array[k]
    BY <1>1
  <2>3. QED
    BY <1>1, <2>1, <2>2, SameFound
<1>8. w \in Registry!Registered
  BY <1>2, RegisteredIs
<1>9. Registry!RegUpdate(w, n)
  BY <1>2, <1>4, <1>6, <1>7, <1>8 DEF Registry!RegUpdate, Registry!Answer, Answer
<1>10. QED
  BY <1>2, <1>9

LEMMA DeleteIsRegDelete ==
    ASSUME SliceInv, NEW c \in Callers, NEW w \in Workflows, DeleteWorkflow(c, w)
    PROVE  Registry!RegDelete(w)
<1>1. SliceInv'
  BY DeleteKeeps
<1>2. PICK n \in 1..size :
         /\ Array[n].id = w /\ size' = size - 1
         /\ \A m \in 1..size' : Array'[m] = IF m < n THEN Array[m] ELSE Array[m + 1]
  BY DeleteKeeps
<1>3. Stored(w) /\ (Answer("ok", w, 0) \/ Answer("aborted", w, 0)) /\ UNCHANGED begun
  BY DEF DeleteWorkflow
<1>4. size \in Nat /\ n \in Nat
  BY DEF SliceInv, SliceTypes
<1>5. \A m \in 1..size' : \E k \in 1..size : k # n /\ Array[k] = Array'[m]
  <2> SUFFICES ASSUME NEW m \in 1..size' PROVE \E k \in 1..size : k # n /\ Array[k] = Array'[m]
    OBVIOUS
  <2>1. CASE m < n
    <3>1. m \in 1..size /\ m # n /\ Array[m] = Array'[m]
      BY <1>2, <1>4, <2>1
    <3>2. QED
      BY <3>1
  <2>2. CASE ~(m < n)
    <3>1. m + 1 \in 1..size /\ m + 1 # n /\ Array[m + 1] = Array'[m]
      BY <1>2, <1>4, <2>2
    <3>2. QED
      BY <3>1
  <2>3. QED
    BY <2>1, <2>2
<1>6. \A k \in 1..size : k # n => \E m \in 1..size' : Array'[m] = Array[k]
  <2> SUFFICES ASSUME NEW k \in 1..size, k # n PROVE \E m \in 1..size' : Array'[m] = Array[k]
    OBVIOUS
  <2>1. CASE k < n
    <3>1. k \in 1..size' /\ Array'[k] = Array[k]
      BY <1>2, <1>4, <2>1
    <3>2. QED
      BY <3>1
  <2>2. CASE ~(k < n)
    <3>1. k - 1 \in 1..size' /\ ~(k - 1 < n) /\ (k - 1) + 1 = k
      BY <1>2, <1>4, <2>2
    <3>2. Array'[k - 1] = Array[k]
      BY <1>2, <3>1
    <3>3. QED
      BY <3>1, <3>2
  <2>3. QED
    BY <2>1, <2>2
<1>7. StepsOf(w)' = 0
  <2>1. \A m \in 1..size' : Array'[m].id # w
    BY <1>2, <1>5 DEF SliceInv, Window
  <2>2. ~Stored(w)'
    BY <2>1 DEF Stored, PlacesOf
  <2>3. QED
    BY <2>2 DEF StepsOf
<1>8. \A v \in Workflows : v # w => StepsOf(v)' = StepsOf(v)
  <2> SUFFICES ASSUME NEW v \in Workflows, v # w PROVE StepsOf(v)' = StepsOf(v)
    OBVIOUS
  <2>1. \A k \in 1..size : Array[k].id = v => k # n
    BY <1>2
  <2>2. QED
    BY <1>1, <1>5, <1>6, <2>1, SameFound
<1>9. w \in Registry!Registered
  BY <1>3, RegisteredIs
<1>10. QED
  BY <1>3, <1>7, <1>8, <1>9 DEF Registry!RegDelete, Registry!Answer, Answer

\* The calls and starts that leave the slice alone.
LEMMA RestIsReg ==
    ASSUME SliceInv, NEW c \in Callers, NEW w \in Workflows \union {NilId},
           \/ GetWorkflow(c, w) \/ StartFails(c, w) \/ NoSuchWorkflow(c, w)
           \/ w # NilId /\ (CreateRefused(c, w) \/ StartByCall(c, w))
    PROVE  Registry!RegNext
<1>1. UNCHANGED <<arrays, size>>
  BY DEF GetWorkflow, StartFails, NoSuchWorkflow, CreateRefused, StartByCall, rowVars
<1>2. \A v : StepsOf(v)' = StepsOf(v)
  BY <1>1 DEF StepsOf, Stored, PlacesOf, Array
<1>3. w # NilId => w \in Workflows /\ (w \in Registry!Registered <=> Stored(w))
  BY RegisteredIs
<1>4. ~Stored(NilId) /\ NilId \notin Registry!Registered
  BY FoundSteps, RegisteredIs, WorkflowAssumption
<1>5. CASE CreateRefused(c, w) \/ StartFails(c, w) \/ NoSuchWorkflow(c, w) \/ (GetWorkflow(c, w) /\ (w = NilId \/ ~Stored(w)))
  <2>1. Registry!RegRefuses(w)
    BY <1>2, <1>3, <1>4, <1>5 DEF CreateRefused, StartFails, NoSuchWorkflow, GetWorkflow,
       Registry!RegRefuses, Registry!Answer, Answer
  <2>2. QED
    BY <2>1 DEF Registry!RegNext
<1>6. CASE GetWorkflow(c, w) /\ w # NilId /\ Stored(w)
  <2>1. Registry!RegGet(w)
    BY <1>2, <1>3, <1>6 DEF GetWorkflow, Registry!RegGet, Registry!Answer, Answer
  <2>2. QED
    BY <1>6, <2>1 DEF Registry!RegNext
<1>7. CASE w # NilId /\ StartByCall(c, w)
  <2>1. Registry!RegStart(w)
    BY <1>2, <1>3, <1>7 DEF StartByCall, StartWorkflow, Registry!RegStart, Registry!Answer, Answer
  <2>2. QED
    BY <1>7, <2>1 DEF Registry!RegNext
<1>8. QED
  BY <1>5, <1>6, <1>7
LEMMA RegistryStep == ASSUME SliceInv, WorkflowStep PROVE [Registry!RegNext]_(Registry!regVars)
<1>1. ASSUME NEW c \in Callers, NEW w \in Workflows, CreateWorkflow(c, w) \/ UpdateWorkflow(c, w) \/ DeleteWorkflow(c, w)
      PROVE  Registry!RegNext
  <2>1. w # NilId /\ w \in Workflows \union {NilId}
    BY WorkflowAssumption
  <2>2. \/ \E n \in 1..MaxEdits : Registry!RegCreate(w, n) \/ Registry!RegUpdate(w, n)
        \/ Registry!RegDelete(w)
    BY <1>1, CreateIsRegCreate, UpdateIsRegUpdate, DeleteIsRegDelete
  <2>3. QED
    BY <2>1, <2>2 DEF Registry!RegNext
<1>2. ASSUME NEW c \in Callers, NEW w \in Workflows \union {NilId},
             \/ GetWorkflow(c, w) \/ StartFails(c, w) \/ NoSuchWorkflow(c, w)
             \/ w # NilId /\ (CreateRefused(c, w) \/ StartByCall(c, w))
      PROVE  Registry!RegNext
  BY <1>2, RestIsReg
<1>3. CASE StartByEvent
  <2>1. PICK w \in Workflows : StartWorkflow(w)
    BY <1>3 DEF StartByEvent
  <2>2. UNCHANGED <<arrays, size, answer>>
    BY <1>3 DEF StartByEvent, rowVars
  <2>3. \A v : StepsOf(v)' = StepsOf(v)
    BY <2>2 DEF StepsOf, Stored, PlacesOf, Array
  <2>4. Registry!RegStart(w)
    BY <2>1, <2>2, <2>3, RegisteredIs DEF StartWorkflow, Registry!RegStart
  <2>5. QED
    BY <2>1, <2>4, WorkflowAssumption DEF Registry!RegNext
<1>4. ASSUME UNCHANGED <<rowVars, answer, begun>> PROVE UNCHANGED Registry!regVars
  <2>1. \A v : StepsOf(v)' = StepsOf(v)
    BY <1>4 DEF rowVars, StepsOf, Stored, PlacesOf, Array
  <2>2. QED
    BY <1>4, <2>1 DEF Registry!regVars
<1>5. ASSUME NEW c \in Callers, ListCall(c) PROVE UNCHANGED <<rowVars, answer, begun>>
  BY <1>5 DEF ListCall, ListBegins, ListReadsId, ListReadsSteps, ListEnds
<1>6. CASE UNCHANGED workflowVars
  BY <1>4, <1>6 DEF workflowVars
<1>7. ASSUME NEW c \in Callers, WorkflowCall(c) PROVE Registry!RegNext
  <2>1. \A w \in Workflows : w # NilId /\ w \in Workflows \union {NilId}
    BY WorkflowAssumption
  <2>2. QED
    BY <1>1, <1>2, <1>7, <2>1 DEF WorkflowCall
<1>8. QED
  BY <1>3, <1>4, <1>5, <1>6, <1>7 DEF WorkflowStep, WorkflowNext

LEMMA RegistryInit == ASSUME WorkflowInit PROVE Registry!RegInit
<1>1. size = 0 /\ answer = <<"none", NilId, 0>> /\ begun = <<NilId, 0>>
  BY DEF WorkflowInit
<1>2. \A w : StepsOf(w) = 0
  BY <1>1 DEF StepsOf, Stored, PlacesOf
<1>3. QED
  BY <1>1, <1>2 DEF Registry!RegInit

LEMMA ListingIsSound == ASSUME WorkflowInv PROVE ListingSound
<1>1. ASSUME NEW c \in Callers, ~listing[c].moved, NEW n \in DOMAIN listing[c].out
      PROVE  listing[c].out[n].id = listing[c].ids[n] /\ Own(listing[c].out[n], owner)
  <2>1. ListingOf(listing[c], arrays, size, owner) /\ listing[c] # NoListing
    BY <1>1 DEF WorkflowInv, Listings, NoListing
  <2>2. QED
    BY <1>1, <2>1 DEF ListingOf
<1>2. QED
  BY <1>1 DEF ListingSound, Own

LEMMA WorkflowInductive == WorkflowInv /\ [WorkflowNext]_workflowVars => WorkflowInv'
  BY WorkflowStepInv DEF WorkflowStep

\* The store alone, under any interleaving of its RPCs, is a registry: a map
\* whose calls happen at once (store.go, server/workflow.go).
THEOREM StoreIsRegistry == WorkflowSpec => ImplementsRegistry
<1>1. WorkflowInit => WorkflowInv /\ Registry!RegInit
  BY WorkflowInitInv, RegistryInit
<1>2. WorkflowInv /\ [WorkflowNext]_workflowVars => [Registry!RegNext]_(Registry!regVars)
  BY RegistryStep DEF WorkflowStep, WorkflowInv
<1>3. QED
  BY <1>1, <1>2, WorkflowInductive, PTL DEF WorkflowSpec, ImplementsRegistry, Registry!RegSpec
==============================================================================
