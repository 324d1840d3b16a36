----------------------------- MODULE MCApplication -----------------------------
(* Small instances of Application for TLC. *)
EXTENDS Application

CONSTANTS t1, t2, c1, c2, w1, w2

TestsAndServer ==
    {[c \in {c1, c2} |-> "direct"],
     [c \in {c1, c2} |-> IF c = c1 THEN "workflows" ELSE "lists"],
     [c \in {c1, c2} |-> IF c = c1 THEN "triggers" ELSE "workflows"]}

CallBound == [r \in TestsAndServer |-> IF r[c2] = "lists" THEN 6 ELSE 4]
===============================================================================
