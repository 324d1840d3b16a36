----------------------------- MODULE MCWorkflowRun -----------------------------
(* Small instances of WorkflowRun for TLC. *)
EXTENDS WorkflowRun, TLC

CONSTANTS a, b, c

Text == <<"text", "v">>
Uses(n) == <<"braces", n>>

\* What the steps' own structs have: templates, plain fields, an isolation behind
\* a pointer, and volumes, whose templates are in a slice.
OfText == <<Leaf("string", "template", <<Text>>)>>
OfA == <<Leaf("string", "template", <<Text, Uses(a)>>),
         Nested("pointer", "", <<Leaf("string", "", <<Text>>)>>)>>
OfAVolume == <<Leaf("string", "template", <<Text>>),
               Nested("slice", "", <<Leaf("string", "template", <<Uses(a)>>)>>)>>
OfC == <<Leaf("string", "template", <<Text>>), Leaf("string", "template", <<Uses(c)>>)>>
StepSpecs == {OfText, OfA, OfAVolume, OfC}

As(u, g) == [user |-> u, group |-> g]
S(n, k, s, i, t) == [name |-> n, kind |-> k, spec |-> s, isolation |-> i, timeout |-> t]
P(n, k) == S(n, k, OfText, As("", ""), "set")
With(n, k, s) == S(n, k, s, As("", ""), "set")

\* Every kind of step, answers that are read and read again, names that clash, are
\* missing or not there yet, peers without a time limit.
SmallPlans == {
    <<P(a, "plain"), With(b, "container", OfA), P(c, "plain")>>,
    <<S(a, "exec", OfText, As("name", ""), "set"), With(b, "container", OfAVolume)>>,
    <<P(a, "container"), S(b, "exec", OfA, As("", "number"), "set"), P(c, "plain")>>,
    <<P(a, "plain"), S(b, "exec", OfA, As("stray number", "name"), "set"), P(a, "container")>>,
    <<P(a, "plain"), P(NoName, "plain")>>}

RequestPlans == {
    <<P(a, "http"), S(b, "exec", OfA, As("stray name", ""), "set")>>,
    <<P(a, "exec"), With(b, "http", OfA), P(c, "plain")>>,
    <<P(a, "plain"), With(b, "openai", OfA), P(c, "plain")>>,
    <<With(b, "anthropic", OfC), P(c, "plain")>>,
    <<S(a, "http", OfText, As("", ""), "negative"), With(b, "exec", OfA)>>,
    <<P(a, "mock"), S(b, "exec", OfA, As("number", "stray number"), "set")>>,
    <<P(a, "mock"), With(b, "container", OfC)>>}

\* Two steps of a kind: the second one's container, command or peer takes the first one's place.
TwicePlans == {
    <<P(a, "container"), With(b, "container", OfA)>>,
    <<P(a, "exec"), With(b, "exec", OfA)>>,
    <<P(a, "http"), With(b, "anthropic", OfA)>>}

AllPlans == SmallPlans \union RequestPlans \union TwicePlans

----------------------------------------------------------------------------
\* Every kind of field and tag, alone, nested and beside another.
Texts == {<<>>, <<Text>>, << <<"name", a>> >>, <<Uses(a)>>, <<Text, Uses(b)>>, <<Uses(a), Uses(b)>>}
LeavesOf(K, T) == {Leaf(k, t, x) : k \in K, t \in T, x \in Texts}
Leaves == LeavesOf({"string", "map", "interface"}, {"", "template", "default"})
          \union LeavesOf({"int"}, {"", "template"}) \union LeavesOf({"string"}, {"unknown"})
Inner == LeavesOf({"string"}, {"", "template"})
Nests == {Nested(k, "", <<f, g>>) : k \in {"pointer", "struct", "slice"}, f \in Inner, g \in Inner}

SmallStructs ==
    {<<f>> : f \in Leaves \union Nests}
    \union {<<f, g>> : f \in Leaves \union {n \in Nests : n.kind = "pointer"}, g \in Leaves}

SmallEnvs == {[n \in {} |-> "x"], [n \in {a} |-> "map"], [n \in {a, b} |-> IF n = a THEN "y" ELSE "map"]}
================================================================================
