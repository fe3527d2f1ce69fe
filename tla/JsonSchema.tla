----------------------------- MODULE JsonSchema -----------------------------
(* The JSON Schema builder and validator of jsonschema.c. A schema is a record *)
(* of the keywords it gives; a value is a record with its type. Numbers are    *)
(* counted in halves, so that limits with a fraction exist: an integer is even.*)
(* Strings are sequences, patterns are the sets of what they match.            *)
EXTENDS Integers, Sequences, FiniteSets, SequencesExt

CONSTANTS
    Documents,    \* schemas as they are read: [top |-> schema, defs |-> [names -> schemas]]
    Values,       \* what is validated
    Code,         \* the code of a character
    HashRange     \* bound: 2^56 in the code, what an item's hash keeps beside its type

VARIABLES
    document,     \* the schema to build
    value,        \* the value to validate with it
    outcome       \* "none", "refused" by the builder, "invalid", "valid" or "crashed"

vars == <<document, value, outcome>>

Types == {"null", "boolean", "object", "array", "number", "string", "integer"}

Given(spec, keyword) == keyword \in DOMAIN spec

Keys(object) == {object.members[i].key : i \in DOMAIN object.members}

-----------------------------------------------------------------------------
(* The builder. *)

\* A schema that names no type has all of them; numbers may be integers.
TypeMask(spec) ==
    LET named == IF Given(spec, "type") THEN spec.type ELSE Types
    IN named \cup (IF "number" \in named THEN {"integer"} ELSE {})

\* Keywords of a type count only where the schema has that type.
Has(spec, type, keyword) == type \in TypeMask(spec) /\ Given(spec, keyword)

Composite(spec, keyword) == IF Given(spec, keyword) THEN spec[keyword] ELSE <<>>

SubSpecs(spec) ==
    UNION {Range(Composite(spec, k)) : k \in {"allOf", "anyOf", "oneOf"}}
    \cup (IF Given(spec, "not") THEN {spec.not} ELSE {})
    \cup (IF Given(spec, "patternProperties") THEN {p.spec : p \in Range(spec.patternProperties)} ELSE {})
    \cup (IF Has(spec, "object", "properties") THEN {spec.properties[k] : k \in DOMAIN spec.properties} ELSE {})
    \cup (IF Has(spec, "array", "items") THEN {spec.items} ELSE {})

\* getBooleanValue: of the exclusive limits only the boolean form is known, with
\* a number, the form of the draft 2019-09, the schema is refused.
BooleanLimits(spec) ==
    \A k \in {"exclusiveMaximum", "exclusiveMinimum"} :
        Has(spec, "integer", k) => "boolean" \in DOMAIN spec[k]

NonNegative(spec, type, keyword) == Has(spec, type, keyword) => spec[keyword] >= 0

\* The presence of maxProperties is what asks for both limits, and an absent
\* minProperties is a negative number.
LimitsOfProperties(spec) ==
    Has(spec, "object", "maxProperties") =>
        /\ spec.maxProperties >= 0
        /\ Given(spec, "minProperties") /\ spec.minProperties >= 0

RECURSIVE Builds(_)
Builds(spec) ==
    \/ Given(spec, "ref")
    \/ /\ ~(Given(spec, "const") /\ Given(spec, "enum"))
       /\ LimitsOfProperties(spec)
       /\ BooleanLimits(spec)
       /\ \A k \in {"maxItems", "minItems"} : NonNegative(spec, "array", k)
       /\ \A k \in {"maxLength", "minLength"} : NonNegative(spec, "string", k)
       /\ \A sub \in SubSpecs(spec) : Builds(sub)

-----------------------------------------------------------------------------
(* The validator. A result says whether the value is valid, which properties of *)
(* which objects have been evaluated on the way (an object is known by its      *)
(* place), and whether a message was made of an index in place of a string.     *)

Result(valid, noted, misprint) == [valid |-> valid, noted |-> noted, misprint |-> misprint]
Clean(valid) == Result(valid, {}, FALSE)
Misprints(results) == \E r \in results : r.misprint
EmptyString == [type |-> "string", text |-> <<>>]
Unresolved == [unresolved |-> TRUE]

\* References between the definitions of one document; these have no cycle.
RECURSIVE ResolveRef(_, _)
ResolveRef(spec, defs) ==
    IF ~Given(spec, "ref") THEN spec
    ELSE IF spec.ref \in DOMAIN defs THEN ResolveRef(defs[spec.ref], defs)
    ELSE Unresolved

\* Arrays and objects equal nothing.
JsonEquals(a, b) ==
    /\ a.type \notin {"array", "object"}
    /\ a.type = b.type
    /\ a = b

\* (int64_t) of a double.
Whole(halves) == IF halves >= 0 THEN 2 * (halves \div 2) ELSE -2 * (-halves \div 2)

Flag(spec, keyword) == Given(spec, keyword) /\ spec[keyword]
Exclusive(spec, keyword) == Given(spec, keyword) /\ spec[keyword].boolean

\* The limits of an integer are integers.
Limit(spec, keyword, type) == IF type = "integer" THEN Whole(spec[keyword]) ELSE spec[keyword]

ValidateNumber(v, spec) ==
    LET n == v.number
        maximum == Limit(spec, "maximum", v.type)
        minimum == Limit(spec, "minimum", v.type)
    IN /\ Given(spec, "maximum") => IF Exclusive(spec, "exclusiveMaximum") THEN n < maximum ELSE n <= maximum
       /\ Given(spec, "minimum") => IF Exclusive(spec, "exclusiveMinimum") THEN n > minimum ELSE n >= minimum

ValidateString(s, spec) ==
    /\ Given(spec, "maxLength") => Len(s) <= spec.maxLength
    /\ Given(spec, "minLength") => Len(s) >= spec.minLength
    /\ Given(spec, "pattern") => s \in spec.pattern

\* What uniqueItems compares: the type and a hash of the item, for an object or
\* an array its address.  Characters add up by 33s, numbers lose their high bits.
LongHash(v, place) ==
    [type |-> v.type,
     bits |-> CASE v.type \in {"object", "array"} -> place
                [] v.type \in {"number", "integer"} -> (Whole(v.number) \div 2) % HashRange
                [] v.type = "string" ->
                       FoldLeft(LAMBDA hash, c : (33 * hash + Code[c]) % HashRange, 5381, v.text)
                [] OTHER -> v]

\* The schema of a property: by its name, else by the first pattern it matches.
PropertySpecs(spec, key) ==
    LET patterns == IF Given(spec, "patternProperties") THEN spec.patternProperties ELSE <<>>
        matching == SelectSeq(patterns, LAMBDA p : key \in p.keys)
    IN IF Has(spec, "object", "properties") /\ key \in DOMAIN spec.properties THEN {spec.properties[key]}
       ELSE IF matching # <<>> THEN {matching[1].spec}
       ELSE {}

RECURSIVE Validate(_, _, _, _)

ValidCount(results) == Cardinality({i \in DOMAIN results : results[i].valid})

\* allOf stops at a failure, anyOf at a success, oneOf at the second success.
Stops(quantifier, results) ==
    CASE quantifier = "allOf" -> ValidCount(results) < Len(results)
      [] quantifier = "anyOf" -> ValidCount(results) > 0
      [] quantifier = "oneOf" -> ValidCount(results) > 1

\* The sub-schemas that are tried.
Tried(results, quantifier) ==
    LET stopping == {i \in DOMAIN results : Stops(quantifier, SubSeq(results, 1, i))}
    IN IF stopping = {} THEN results ELSE SubSeq(results, 1, Min(stopping))

\* Faulty: what nested schemas have evaluated is forgotten.
NotedByNone(results) == {}

Noted(results) == UNION {r.noted : r \in Range(results)}

ValidateQuantifiedSpecs(v, place, specs, quantifier, defs) ==
    LET results == [i \in DOMAIN specs |-> Validate(v, place, specs[i], defs)]
        tried == Tried(results, quantifier)
        valid == CASE quantifier = "allOf" -> ValidCount(tried) = Len(tried)
                   [] quantifier = "anyOf" -> ValidCount(tried) > 0
                   [] quantifier = "oneOf" -> ValidCount(tried) = 1
    \* The message of a second success takes the index of the first for a string.
    IN Result(valid, Noted(tried),
              (quantifier = "oneOf" /\ ValidCount(tried) > 1) \/ Misprints(Range(tried)))

ValidateObject(object, place, spec, defs, noted) ==
    LET Key(i) == object.members[i].key
        results == [i \in DOMAIN object.members |->
                       {Validate(object.members[i].value, Append(place, Key(i)), sub, defs) :
                            sub \in PropertySpecs(spec, Key(i))}]
        Known(i) == results[i] # {}
        AllowedUnknown(i) ==
            IF Given(spec, "additionalProperties") /\ ~spec.additionalProperties THEN FALSE
            ELSE (Given(spec, "unevaluatedProperties") /\ ~spec.unevaluatedProperties) =>
                     <<place, Key(i)>> \in noted
        count == Len(object.members)
    IN Result(
        /\ Given(spec, "required") => spec.required \subseteq Keys(object)
        /\ \A i \in DOMAIN object.members :
              IF Known(i) THEN \A r \in results[i] : r.valid ELSE AllowedUnknown(i)
        /\ Given(spec, "maxProperties") => count <= spec.minProperties /\ count >= spec.minProperties,
        UNION {UNION {r.noted : r \in results[i]} \cup {<<place, Key(i)>>} :
                   i \in {j \in DOMAIN object.members : Known(j)}},
        Misprints(UNION Range(results)))

ValidateArray(array, place, spec, defs) ==
    LET items == array.items
        results == IF ~Given(spec, "items") THEN <<>>
                   ELSE [i \in DOMAIN items |-> Validate(items[i], Append(place, ToString(i)), spec.items, defs)]
    IN Result(
        /\ Given(spec, "maxItems") => Len(items) <= spec.maxItems
        /\ Given(spec, "minItems") => Len(items) >= spec.minItems
        /\ \A i \in DOMAIN results : results[i].valid
        /\ Flag(spec, "uniqueItems") =>
              \A i, j \in DOMAIN items :
                  i < j => LongHash(items[i], Append(place, ToString(i))) # LongHash(items[j], Append(place, ToString(j))),
        Noted(results), Misprints(Range(results)))

\* A null is taken for an empty string where only the string is allowed.
NullAsString(v, spec) ==
    v.type = "null" /\ "null" \notin TypeMask(spec) /\ "string" \in TypeMask(spec)

ValidateSimple(v, place, spec, defs, noted) ==
    IF NullAsString(v, spec) THEN Clean(ValidateString(<<>>, spec))
    ELSE IF v.type \notin TypeMask(spec) THEN Clean(FALSE)
    ELSE CASE v.type = "object" -> ValidateObject(v, place, spec, defs, noted)
           [] v.type = "array" -> ValidateArray(v, place, spec, defs)
           [] v.type = "string" -> Clean(ValidateString(v.text, spec))
           [] v.type \in {"number", "integer"} -> Clean(ValidateNumber(v, spec))
           [] OTHER -> Clean(TRUE)

\* What the quantified sub-schemas have noted is there when the schema's own
\* keywords are looked at.
ValidateAll(v, place, spec, defs) ==
    LET quantified == {ValidateQuantifiedSpecs(v, place, spec[k], k, defs) :
                           k \in {"allOf", "anyOf", "oneOf"} \cap DOMAIN spec}
        negated == IF Given(spec, "not") THEN {Validate(v, place, spec.not, defs)} ELSE {}
        before == UNION {r.noted : r \in quantified \cup negated}
        simple == ValidateSimple(v, place, spec, defs, before)
    IN Result(
        /\ \A r \in quantified : r.valid
        /\ \A r \in negated : ~r.valid
        /\ simple.valid,
        before \cup simple.noted,
        Misprints(quantified \cup negated \cup {simple}))

\* A constant, or an enumeration, is all that is looked at.
Validate(v, place, spec0, defs) ==
    LET spec == ResolveRef(spec0, defs)
        compared == IF NullAsString(v, spec) THEN EmptyString ELSE v
    IN IF spec = Unresolved THEN Clean(FALSE)
       ELSE IF Given(spec, "const") THEN Clean(JsonEquals(v, spec.const))
       ELSE IF Given(spec, "enum") THEN Clean(\E e \in spec.enum : JsonEquals(compared, e))
       ELSE ValidateAll(v, place, spec, defs)

\* Nothing is read beside a reference, the definitions included.
Definitions == IF Given(document.top, "ref") THEN <<>> ELSE document.defs

\* An index taken for the address of a string may be followed or not.
BuildAndValidate ==
    /\ outcome = "none"
    /\ IF \E spec \in {document.top} \cup Range(Definitions) : ~Builds(spec) THEN outcome' = "refused"
       ELSE LET result == Validate(value, <<>>, document.top, Definitions)
            IN outcome' \in {IF result.valid THEN "valid" ELSE "invalid"}
                            \cup (IF result.misprint THEN {"crashed"} ELSE {})
    /\ UNCHANGED <<document, value>>

InitWith(d, v) == document = d /\ value = v /\ outcome = "none"
Init == \E d \in Documents, v \in Values : InitWith(d, v)
Next == BuildAndValidate
Spec == Init /\ [][Next]_vars

-----------------------------------------------------------------------------
(* What a schema means, by the rules of JSON Schema: each keyword adds a       *)
(* condition, and a property is evaluated by the schemas that name it and that *)
(* hold. A null conforms where an empty string would.                          *)

HasType(v, spec) ==
    Given(spec, "type") =>
        \/ v.type \in spec.type
        \/ v.type = "integer" /\ "number" \in spec.type

Names(spec, key) ==
    (IF Given(spec, "properties") /\ key \in DOMAIN spec.properties THEN {spec.properties[key]} ELSE {})
    \cup (IF Given(spec, "patternProperties")
          THEN {p.spec : p \in {q \in Range(spec.patternProperties) : key \in q.keys}} ELSE {})

RECURSIVE Conforms(_, _, _)

RECURSIVE Evaluated(_, _, _)
Evaluated(object, spec0, defs) ==
    LET spec == ResolveRef(spec0, defs)
    IN IF ~Conforms(object, spec0, defs) THEN {}
       ELSE {key \in Keys(object) : Names(spec, key) # {}}
            \cup UNION {UNION {Evaluated(object, sub, defs) : sub \in Range(Composite(spec, k))} :
                           k \in {"allOf", "anyOf", "oneOf"}}

ConformsNumber(n, spec) ==
    /\ Given(spec, "maximum") => n <= spec.maximum /\ (n = spec.maximum => ~Exclusive(spec, "exclusiveMaximum"))
    /\ Given(spec, "minimum") => n >= spec.minimum /\ (n = spec.minimum => ~Exclusive(spec, "exclusiveMinimum"))

ConformsObject(object, spec, defs) ==
    LET n == Len(object.members)
    IN /\ Given(spec, "required") => spec.required \subseteq Keys(object)
       /\ Given(spec, "maxProperties") => n <= spec.maxProperties
       /\ Given(spec, "minProperties") => n >= spec.minProperties
       /\ \A m \in Range(object.members) : \A sub \in Names(spec, m.key) : Conforms(m.value, sub, defs)
       /\ (Given(spec, "additionalProperties") /\ ~spec.additionalProperties) =>
              \A key \in Keys(object) : Names(spec, key) # {}
       /\ (Given(spec, "unevaluatedProperties") /\ ~spec.unevaluatedProperties) =>
              \A key \in Keys(object) :
                  \/ Names(spec, key) # {}
                  \/ \E k \in {"allOf", "anyOf", "oneOf"} : \E sub \in Range(Composite(spec, k)) :
                         key \in Evaluated(object, sub, defs)

ConformsArray(items, spec, defs) ==
    /\ Given(spec, "maxItems") => Len(items) <= spec.maxItems
    /\ Given(spec, "minItems") => Len(items) >= spec.minItems
    /\ Given(spec, "items") => \A item \in Range(items) : Conforms(item, spec.items, defs)
    /\ Flag(spec, "uniqueItems") => \A i, j \in DOMAIN items : i # j => items[i] # items[j]

Conforms(v0, spec0, defs) ==
    LET spec == ResolveRef(spec0, defs)
        v == IF spec # Unresolved /\ NullAsString(v0, spec) THEN EmptyString ELSE v0
    IN /\ spec # Unresolved
       /\ HasType(v, spec)
       /\ Given(spec, "const") => v = spec.const
       /\ Given(spec, "enum") => v \in spec.enum
       /\ \A sub \in Range(Composite(spec, "allOf")) : Conforms(v0, sub, defs)
       /\ Given(spec, "anyOf") => \E sub \in Range(spec.anyOf) : Conforms(v0, sub, defs)
       /\ Given(spec, "oneOf") =>
              Cardinality({i \in DOMAIN spec.oneOf : Conforms(v0, spec.oneOf[i], defs)}) = 1
       /\ Given(spec, "not") => ~Conforms(v0, spec.not, defs)
       /\ CASE v.type = "object" -> ConformsObject(v, spec, defs)
            [] v.type = "array" -> ConformsArray(v.items, spec, defs)
            [] v.type = "string" -> ValidateString(v.text, spec)
            [] v.type \in {"number", "integer"} -> ConformsNumber(v.number, spec)
            [] OTHER -> TRUE

(* The schemas that the code reads as they are meant: it compares the number of *)
(* properties with minProperties only, cuts the fraction off the limits of an   *)
(* integer, refuses exclusive limits that are numbers, tries a property's own   *)
(* schema or one pattern, looks at nothing                                      *)
(* beside a constant, an enumeration or a reference, knows only scalars as      *)
(* equal, and takes what was visited for evaluated, in branches that fail, and  *)
(* what was not visited for not evaluated, in branches that were not tried.     *)
IsScalar(v) == v.type \notin {"object", "array"}

\* No alternative is tried, for the same object, on behalf of this schema.
RECURSIVE WithoutAlternatives(_, _)
WithoutAlternatives(spec0, defs) ==
    LET spec == ResolveRef(spec0, defs)
    IN /\ \A k \in {"anyOf", "oneOf", "not"} : ~Given(spec, k)
       /\ \A sub \in Range(Composite(spec, "allOf")) : WithoutAlternatives(sub, defs)

Plain(keyword, values, spec) ==
    Given(spec, keyword) =>
        /\ DOMAIN spec \subseteq {keyword, "type"}
        /\ \A v \in values : IsScalar(v) /\ HasType(v, spec)

RECURSIVE Regular(_, _)
Regular(spec, defs) ==
    /\ Given(spec, "const") => Plain("const", {spec.const}, spec)
    /\ Given(spec, "enum") => Plain("enum", spec.enum, spec)
    /\ (Given(spec, "maxProperties") \/ Given(spec, "minProperties")) =>
           /\ Given(spec, "maxProperties") /\ Given(spec, "minProperties")
           /\ spec.maxProperties = spec.minProperties
    /\ \A k \in {"maximum", "minimum"} \cap DOMAIN spec : Whole(spec[k]) = spec[k]
    /\ \A k \in {"exclusiveMaximum", "exclusiveMinimum"} \cap DOMAIN spec : "boolean" \in DOMAIN spec[k]
    /\ \A p \in IF Given(spec, "patternProperties") THEN Range(spec.patternProperties) ELSE {} :
           \A key \in p.keys : Names(spec, key) = {p.spec}
    /\ (Given(spec, "unevaluatedProperties") /\ ~spec.unevaluatedProperties) => WithoutAlternatives(spec, defs)
    /\ Flag(spec, "uniqueItems") =>
           Given(spec, "items") /\ Given(spec.items, "type") /\ spec.items.type \subseteq {"string", "integer"}
    /\ \A sub \in SubSpecs(spec) : Regular(sub, defs)

\* The value and all that it contains.
RECURSIVE Parts(_)
Parts(v) ==
    {v} \cup (CASE v.type = "array" -> UNION {Parts(item) : item \in Range(v.items)}
                [] v.type = "object" -> UNION {Parts(m.value) : m \in Range(v.members)}
                [] OTHER -> {})

\* In no array of the value do items that differ have one hash.
NoCollision ==
    \A array \in {v \in Parts(value) : v.type = "array"} : \A i, j \in DOMAIN array.items :
        LongHash(array.items[i], i) = LongHash(array.items[j], j) => array.items[i] = array.items[j]

\* The verdict on a value, when there is one, is the one its schema means: the
\* short cuts of allOf, anyOf and oneOf, the bits of the combined status, and what
\* nested and referred schemas have evaluated for unevaluatedProperties add up to
\* the conditions, each by itself, of the keywords (validateJSON,
\* jsonschema.c:1287-1460).  Arrays whose items differ with one hash are left out:
\* the code compares nothing but hashes, although jsonschema.c:743-744 speaks of
\* equals().  A oneOf that two schemas accept may end in a crash (1227-1229).
VerdictAsMeant ==
    /\ ~Given(document.top, "ref") /\ Regular(document.top, document.defs)
    /\ \A d \in DOMAIN document.defs : Regular(document.defs[d], document.defs)
    /\ NoCollision
    => outcome \in {"none", "crashed",
                    IF Conforms(value, document.top, document.defs) THEN "valid" ELSE "invalid"}
=============================================================================
