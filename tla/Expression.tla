------------------------------- MODULE Expression -------------------------------
(***************************************************************************)
(* Expressions in the fields of a step (internal/expression).              *)
(*                                                                         *)
(* A struct is a sequence of fields; one of kind struct, pointer or slice  *)
(* holds fields of its own, of the other kinds.  A text is a sequence of   *)
(* pieces: <<"text", v>>, the bare <<"name", n>>, or <<"braces", n>> for   *)
(* {{n}}.  An environment maps names to values.  expr-lang, which compiles *)
(* and runs an expression, is external: names stand for expressions.       *)
(***************************************************************************)
EXTENDS Naturals, Sequences

CONSTANTS
    Maps,     \* the values that can be set in a map field
    Structs,  \* the structs and the environments that Parse is checked on
    Envs

NoValue == "<nil>"

Leaf(kind, tag, text) == [kind |-> kind, tag |-> tag, text |-> text, inner |-> <<>>]
Nested(kind, tag, inner) == [kind |-> kind, tag |-> tag, text |-> <<>>, inner |-> inner]

\* Structs within a struct have none of their own.
IsField(f) == f = [kind |-> f.kind, tag |-> f.tag, text |-> f.text, inner |-> f.inner]

AreFields(fields) ==
    fields \in Seq({fields[k] : k \in DOMAIN fields}) /\ \A k \in DOMAIN fields : IsField(fields[k])

isFieldTypeSupported(f) == f.kind \in {"string", "interface", "map"}

\* Without a tag, structs and what pointers point to are gone through; the
\* elements of a slice are not.
GoneThrough(f) == f.kind \in {"struct", "pointer"} /\ f.tag = ""

IsStruct(fields) ==
    /\ AreFields(fields)
    /\ \A k \in DOMAIN fields :
          /\ AreFields(fields[k].inner)
          /\ \A j \in DOMAIN fields[k].inner : ~GoneThrough(fields[k].inner[j])

ASSUME StructAssumption == \A fields \in Structs : IsStruct(fields)

----------------------------------------------------------------------------
(* evaluateTemplate, evaluateExpression, setFieldValue *)

TemplateFails(text, data) == \E k \in DOMAIN text : text[k][1] = "braces" /\ text[k][2] \notin DOMAIN data

\* Once: what a value looks like is not evaluated again.
Filled(text, data) ==
    [k \in DOMAIN text |->
        IF text[k][1] = "braces" /\ text[k][2] \in DOMAIN data THEN <<"text", data[text[k][2]]>> ELSE text[k]]

ExpressionFails(text, data) == text # <<>> /\ \A n \in DOMAIN data : text # << <<"name", n>> >>

Output(text, data) == IF text = <<>> THEN << <<"text", NoValue>> >> ELSE << <<"text", data[text[1][2]]>> >>

\* A string cannot be set in a map, nor a value that is none.
UnfitForMap(f, data) ==
    f.kind = "map" /\ (f.tag = "default" => f.text # <<>> /\ data[f.text[1][2]] \notin Maps)

\* Mutant: a template with an error is kept as it is.
FailsUnlessTemplate(f, data) ==
    \/ ~isFieldTypeSupported(f) \/ f.tag \notin {"template", "default"}
    \/ f.tag = "default" /\ ExpressionFails(f.text, data)
    \/ UnfitForMap(f, data)

Fails(f, data) ==
    \/ ~isFieldTypeSupported(f) \/ f.tag \notin {"template", "default"}
    \/ f.tag = "template" /\ TemplateFails(f.text, data)
    \/ f.tag = "default" /\ ExpressionFails(f.text, data)
    \/ UnfitForMap(f, data)

evaluateField(f, data) ==
    IF f.tag = "" THEN f
    ELSE [f EXCEPT !.text = IF f.tag = "template" THEN Filled(@, data) ELSE Output(@, data)]

----------------------------------------------------------------------------
(* processStruct and Parse *)

TaggedFails(f, data) == f.tag # "" /\ Fails(f, data)

FieldFails(f, data) ==
    IF GoneThrough(f) THEN \E k \in DOMAIN f.inner : TaggedFails(f.inner[k], data) ELSE TaggedFails(f, data)

\* The first field that fails, or one past the last.
Stop(fields, failing) ==
    CHOOSE n \in failing \union {Len(fields) + 1} : \A k \in failing : n <= k

ProcessedInner(fields, data) ==
    LET stop == Stop(fields, {k \in DOMAIN fields : TaggedFails(fields[k], data)})
    IN [k \in DOMAIN fields |-> IF k < stop THEN evaluateField(fields[k], data) ELSE fields[k]]

Processed(f, data) ==
    IF GoneThrough(f) THEN [f EXCEPT !.inner = ProcessedInner(@, data)] ELSE evaluateField(f, data)

\* The copy shares with the input what pointers point to: it is changed in both,
\* also in what was done before an error.  With an error the input is returned.
Parse(fields, data) ==
    LET stop == Stop(fields, {k \in DOMAIN fields : FieldFails(fields[k], data)})
        input == [k \in DOMAIN fields |->
                     IF k <= stop /\ fields[k].kind = "pointer" /\ fields[k].tag = ""
                     THEN Processed(fields[k], data) ELSE fields[k]]
        ok == stop > Len(fields)
    IN [ok |-> ok,
        input |-> input,
        result |-> IF ok THEN [k \in DOMAIN fields |-> Processed(fields[k], data)] ELSE input]

----------------------------------------------------------------------------
\* The fields Parse gets to, by their place and their place in a struct's or pointer's.
Places(fields) ==
    {<<k, 0>> : k \in {m \in DOMAIN fields : ~GoneThrough(fields[m])}} \union
    UNION {{<<k, j>> : j \in DOMAIN fields[k].inner} : k \in {m \in DOMAIN fields : GoneThrough(fields[m])}}

FieldAt(fields, p) == IF p[2] = 0 THEN fields[p[1]] ELSE fields[p[1]].inner[p[2]]

NamesIn(f) == {f.text[k][2] : k \in {m \in DOMAIN f.text : f.text[m][1] # "text"}}

\* What became of a template or an expression: itself, with values for names.
Evaluated(f, g, data) ==
    /\ isFieldTypeSupported(f) /\ f.tag \in {"template", "default"}
    /\ f.tag = "template" =>
          /\ DOMAIN g.text = DOMAIN f.text
          /\ \A k \in DOMAIN f.text :
                IF f.text[k][1] = "braces" THEN f.text[k][2] \in DOMAIN data /\ g.text[k] = <<"text", data[f.text[k][2]]>>
                ELSE g.text[k] = f.text[k]
    /\ f.tag = "default" /\ f.text # <<>> =>
          \E n \in DOMAIN data : f.text = << <<"name", n>> >> /\ g.text = << <<"text", data[n]>> >>

\* Every tagged field that Parse gets to is evaluated, or none: with an error, which
\* some field gives cause for, the copy is dropped.  A field without a tag stays,
\* and the input is changed behind pointers only.
Exact(fields, data, r) ==
    LET Causes == {p \in Places(fields) :
            LET f == FieldAt(fields, p) IN
            f.tag # "" /\ (f.tag # "template" \/ f.kind # "string" \/ ~(NamesIn(f) \subseteq DOMAIN data))}
    IN  /\ ~r.ok => r.result = r.input /\ Causes # {}
        /\ \A p \in Places(fields) :
              LET f == FieldAt(fields, p) IN
              /\ f.tag = "" => FieldAt(r.result, p) = f
              /\ r.ok /\ f.tag # "" => Evaluated(f, FieldAt(r.result, p), data)
              /\ FieldAt(r.input, p) # f => fields[p[1]].kind = "pointer"

ExactOnAll == \A fields \in Structs, data \in Envs : Exact(fields, data, Parse(fields, data))
===============================================================================
