---------------------------- MODULE MCDocuments ----------------------------
(* The schemas and the values of the small instance of JsonSchema.            *)
EXTENDS Integers, Sequences

Null == [type |-> "null"]
True == [type |-> "boolean", truth |-> TRUE]
Whole(n) == [type |-> "integer", number |-> 2 * n]
Half == [type |-> "number", number |-> 3]                          \* 1.5
Str(s) == [type |-> "string", text |-> s]
Arr(items) == [type |-> "array", items |-> items]
Obj(members) == [type |-> "object", members |-> members]
Member(k, v) == [key |-> k, value |-> v]

Scalars == {Null, True, Whole(1), Whole(2), Half, Str(<<>>), Str(<<"x">>), Str(<<"x", "y">>)}
Few == {Null, Whole(1), Whole(2), Str(<<"x">>)}

\* Items with the hash of another one: "ab" and "bA", and a number whose low bits
\* are those of 1.
MCHashRange == 1024
MCCode == [c \in {"a", "b", "A", "x", "y"} |->
               CASE c = "a" -> 97 [] c = "b" -> 98 [] c = "A" -> 65 [] c = "x" -> 120 [] OTHER -> 121]
Twins == {Arr(<<Str(<<"a", "b">>), Str(<<"b", "A">>)>>), Arr(<<Whole(1), Whole(1 + MCHashRange)>>),
          Arr(<<Half, Whole(1)>>), Arr(<<Str(<<"x">>), Str(<<"y">>)>>)}

Arrays == {Arr(<<>>)} \cup {Arr(<<u>>) : u \in Few} \cup {Arr(<<u, v>>) : u, v \in Few} \cup {Arr(<<Arr(<<>>), Arr(<<>>)>>)}
Objects(values) ==
    {Obj(<<>>)} \cup {Obj(<<Member(k, u)>>) : k \in {"a", "b", "c"}, u \in values}
    \cup {Obj(<<Member("b", u), Member("a", v)>>) : u, v \in values}
    \cup {Obj(<<Member("a", u), Member("c", u)>>) : u \in values}

MCValues == Scalars \cup Arrays \cup Twins \cup Objects(Few)
            \cup {Obj(<<Member("a", o)>>) : o \in Objects({Whole(1), Str(<<"x">>)})}

Integers == [type |-> {"integer"}, minimum |-> 4]
Numbers == [type |-> {"number"}, maximum |-> 4, exclusiveMaximum |-> [boolean |-> TRUE]]
Strings == [type |-> {"string"}, maxLength |-> 1]
Anything == [title |-> "any"]

A(s) == [a |-> s]
NeedsA(s) == [type |-> {"object"}, required |-> {"a"}, properties |-> A(s)]
NeedsB == [type |-> {"object"}, required |-> {"b"}, properties |-> [b |-> Integers]]
ByPattern == [patternProperties |-> <<[keys |-> {"b", "c"}, spec |-> Integers]>>]
Base == [ref |-> "base"]

Leaves == {
    Integers, Numbers, Strings, Anything,
    [type |-> {"string", "null"}, pattern |-> {<<"x">>, <<"x", "y">>}],
    [type |-> {"string"}, enum |-> {Str(<<"x">>), Str(<<>>)}],
    [const |-> Whole(1)],
    [type |-> {"integer"}, exclusiveMinimum |-> [boolean |-> TRUE], minimum |-> 2],
    [enum |-> {Arr(<<>>), Whole(2)}] }

Containers == {
    NeedsA(Strings), NeedsB, ByPattern,
    [properties |-> A(Integers), additionalProperties |-> FALSE],
    [type |-> {"object"}, minProperties |-> 1, maxProperties |-> 1],
    [type |-> {"object"}, maxProperties |-> 1],
    [type |-> {"array"}, items |-> [type |-> {"string", "integer"}], uniqueItems |-> TRUE, minItems |-> 1],
    [type |-> {"array"}, items |-> Integers, maxItems |-> 1],
    [properties |-> A(NeedsB)] }

Branches == {Integers, Strings, NeedsA(Strings), NeedsA(Anything), NeedsB, ByPattern, Base}

Composites ==
    {[allOf |-> <<s, t>>] : s, t \in Branches}
    \cup {[anyOf |-> <<s, t>>] : s, t \in Branches}
    \cup {[oneOf |-> <<s, t>>] : s, t \in Branches}
    \cup {[oneOf |-> <<s, t, s>>] : s, t \in Branches}
    \cup {[not |-> s, anyOf |-> <<t, Base>>] : s, t \in Branches}

\* Sub-classes, as in tests/schemadata/subClassSchema.json: a base, something of
\* their own, and nothing else.
SubClass(s, own) ==
    [allOf |-> <<Base, s>>, type |-> {"object"}, unevaluatedProperties |-> FALSE, properties |-> own]
SubClasses == {SubClass(s, own) : s \in Branches, own \in {A(Anything), [c |-> Integers]}}
OneSubClass == {[oneOf |-> <<s, t>>] : s \in SubClasses, t \in {SubClass(NeedsB, [c |-> Strings])}}
Nested == {[allOf |-> <<[allOf |-> <<s>>], Base>>, unevaluatedProperties |-> FALSE] : s \in Branches}
          \cup {[properties |-> A(s)] : s \in SubClasses}
          \cup {[unevaluatedProperties |-> FALSE, anyOf |-> <<s, t>>] : s, t \in Branches}

\* Schemas that the code does not read as they are meant.
Irregular == {
    Base,
    [type |-> {"integer"}, minimum |-> 3],                                  \* 1.5
    [properties |-> A(Integers), patternProperties |-> <<[keys |-> {"a"}, spec |-> Strings]>>],
    [type |-> {"string"}, const |-> Whole(1)],
    [const |-> Arr(<<>>)],
    [type |-> {"object"}, minProperties |-> 0, maxProperties |-> 1],
    [type |-> {"object"}, minProperties |-> 1],
    [type |-> {"number"}, exclusiveMaximum |-> [number |-> 4]],
    [type |-> {"array"}, uniqueItems |-> TRUE],
    [enum |-> {Arr(<<>>)}, const |-> Null] }

MCSchemas ==
    [top : Irregular \cup Leaves \cup Containers \cup Composites \cup SubClasses \cup OneSubClass \cup Nested,
     defs : {[base |-> NeedsA([type |-> {"string", "integer"}])]}]
=============================================================================
