--------------------------- MODULE MCTriggerService ---------------------------
(* Small instances of TriggerService for TLC. *)
EXTENDS TriggerService, TLC

CONSTANTS i1, i2, t1, t2, s1, s2

TwoSlots   == {i1, i2} \X {s1, s2}
\* One instance can restart its worker, the other only start it.
UnevenSlots == {<<i1, s1>>, <<i1, s2>>, <<i2, s1>>}
OneInstanceTwoSlots == {i1} \X {s1, s2}

HomeOfSlot == [w \in Workers |-> w[1]]

\* The primary key of the row.
PrimaryKey == [t \in Triggers |-> t]
\* The in-memory store never sets InternalID.
AlwaysZero == [t \in Triggers |-> 0]
===============================================================================
