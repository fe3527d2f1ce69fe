---------------------------- MODULE Configuration ----------------------------
(* How the configuration manager loads a configuration (configmgr.c): the       *)
(* sources of its path are read from left to right, merged from right to left   *)
(* (json.c), and then the templates in the result are evaluated in place, one   *)
(* after another (embeddedjs.c). A template reads a value of the configuration. *)
EXTENDS Integers, Sequences, FiniteSets, SequencesExt

CONSTANTS
    Paths,        \* configuration paths with what their sources hold when first loaded
    Edits,        \* ... and later
    Policies,     \* \subseteq {"concatenate", "in place", "base", "overrides"}
    MaxLoads      \* bound on the number of loads

VARIABLES
    path,         \* [expanded |-> one of the PARMLIBs of this system, json |-> a value or NoJson]
    data,         \* config->configData
    globals,      \* the global object of the JavaScript engine
    load,         \* the call of cfgLoadConfiguration2
    loads

vars == <<path, data, globals, load, loads>>

NoJson == [type |-> "none"]
Object(members) == [type |-> "object", members |-> members]
Array(items) == [type |-> "array", items |-> items]
Member(key, v) == [key |-> key, value |-> v]

IsObject(v) == v.type = "object"
IsArray(v) == v.type = "array"
Keys(object) == {m.key : m \in Range(object.members)}
HasKey(object, key) == key \in Keys(object)
PropertyValue(object, key) == SelectSeq(object.members, LAMBDA m : m.key = key)[1].value

\* A template, as yaml2json.c makes it of ${{ expression }}.
IsUnevaluated(v) ==
    IsObject(v) /\ HasKey(v, "__zowe_internal_type__")

-----------------------------------------------------------------------------
(* Merging. *)

RECURSIVE Merge(_, _, _)

MergeObjects(overrides, base, policy) ==
    Object([i \in DOMAIN base.members |->
               LET m == base.members[i]
               IN IF HasKey(overrides, m.key)
                  THEN Member(m.key, Merge(PropertyValue(overrides, m.key), m.value, policy))
                  ELSE m]
           \o SelectSeq(overrides.members, LAMBDA m : ~HasKey(base, m.key)))

MergeInPlace(o, b, policy) ==
    [i \in 1..(IF Len(o) > Len(b) THEN Len(o) ELSE Len(b)) |->
        IF i > Len(o) THEN b[i] ELSE IF i > Len(b) THEN o[i] ELSE Merge(o[i], b[i], policy)]

MergeArrays(o, b, policy) ==
    Array(CASE policy = "concatenate" -> b \o o
            [] policy = "in place" -> MergeInPlace(o, b, policy)
            [] policy = "base" -> b
            [] policy = "overrides" -> o)

Merge(overrides, base, policy) ==
    IF IsObject(overrides) /\ IsObject(base) THEN MergeObjects(overrides, base, policy)
    ELSE IF IsArray(overrides) /\ IsArray(base) THEN MergeArrays(overrides.items, base.items, policy)
    ELSE overrides

-----------------------------------------------------------------------------
(* Templates. *)

\* The templates and where they are, in the order in which they are visited.
RECURSIVE TemplatesOf(_)
TemplatesOf(v) ==
    LET Under(step, child) ==
            IF IsUnevaluated(child)
            THEN <<[place |-> <<step>>, expression |-> PropertyValue(child, "source").expression]>>
            ELSE LET below == TemplatesOf(child)
                 IN [i \in DOMAIN below |-> [below[i] EXCEPT !.place = <<step>> \o @]]
    IN IF IsObject(v) THEN FlattenSeq([i \in DOMAIN v.members |-> Under(v.members[i].key, v.members[i].value)])
       ELSE IF IsArray(v) THEN FlattenSeq([i \in DOMAIN v.items |-> Under(ToString(i), v.items[i])])
       ELSE <<>>

Children(v) ==
    IF IsObject(v) THEN [k \in Keys(v) |-> PropertyValue(v, k)]
    ELSE IF IsArray(v) THEN [k \in {ToString(i) : i \in DOMAIN v.items} |->
                                v.items[CHOOSE i \in DOMAIN v.items : ToString(i) = k]]
    ELSE <<>>

\* The value at a place, NoJson where there is none.
RECURSIVE At(_, _)
At(v, place) ==
    IF place = <<>> THEN v
    ELSE IF (IsObject(v) \/ IsArray(v)) /\ Head(place) \in DOMAIN Children(v)
         THEN At(Children(v)[Head(place)], Tail(place))
         ELSE NoJson

RECURSIVE Replace(_, _, _)
Replace(v, place, new) ==
    IF place = <<>> THEN new
    ELSE IF IsObject(v)
         THEN Object([i \in DOMAIN v.members |->
                  LET m == v.members[i]
                  IN IF m.key = Head(place) THEN Member(m.key, Replace(m.value, Tail(place), new)) ELSE m])
         ELSE Array([i \in DOMAIN v.items |->
                  IF ToString(i) = Head(place) THEN Replace(v.items[i], Tail(place), new) ELSE v.items[i]])

\* The value of an expression that names a global, and then properties of it.
Evaluate(expression, global) ==
    IF Head(expression) \in DOMAIN global THEN At(global[Head(expression)], Tail(expression)) ELSE NoJson

\* Faulty: a global that is there already is kept.
WithGlobalsKept(global, object) ==
    [k \in DOMAIN global \cup Keys(object) |->
        IF k \in DOMAIN global THEN global[k] ELSE PropertyValue(object, k)]

WithGlobals(global, object) ==
    [k \in DOMAIN global \cup Keys(object) |->
        IF HasKey(object, k) THEN PropertyValue(object, k) ELSE global[k]]

-----------------------------------------------------------------------------
Idle == [step |-> "idle", outcome |-> "none"]

Init ==
    /\ path \in Paths
    /\ data = NoJson
    /\ globals = [k \in {} |-> NoJson]
    /\ load = Idle
    /\ loads = 0

\* For the instances that have no configuration.
InitWith(p) == path = p /\ data = NoJson /\ globals = [k \in {} |-> NoJson] /\ load = Idle /\ loads = 0

Finish(outcome) == load' = [load EXCEPT !.step = "idle", !.outcome = outcome]

Load ==
    /\ load.step = "idle"
    /\ loads < MaxLoads
    /\ \E policy \in Policies :
          load' = [step |-> "read", outcome |-> "none", policy |-> policy, overlays |-> <<>>,
                   before |-> data, templates |-> <<>>, evaluated |-> 0]
    /\ loads' = loads + 1
    /\ UNCHANGED <<path, data, globals>>

Missing(element) == element.json = NoJson

ReadOverlay ==
    LET element == path[Len(load.overlays) + 1]
    IN /\ load.step = "read" /\ Len(load.overlays) + 1 < Len(path)
       /\ IF Missing(element) /\ ~element.expanded
          THEN Finish("missing")
          ELSE load' = [load EXCEPT !.overlays = Append(@, element.json)]
       /\ UNCHANGED <<path, data, globals, loads>>

ReadBase ==
    LET element == Last(path)
    IN /\ load.step = "read" /\ Len(load.overlays) + 1 = Len(path)
       /\ data' = element.json
       /\ IF Missing(element) /\ ~element.expanded
          THEN Finish("missing")
          ELSE load' = [load EXCEPT !.step = "merge"]
       /\ UNCHANGED <<path, globals, loads>>

\* Faulty: an overlay is merged only with something that is there.
MergeOverlayWithBase ==
    LET overlay == Last(load.overlays)
    IN /\ load.step = "merge" /\ load.overlays # <<>>
       /\ data' = IF overlay = NoJson \/ data = NoJson THEN data ELSE Merge(overlay, data, load.policy)
       /\ load' = [load EXCEPT !.overlays = Front(@)]
       /\ UNCHANGED <<path, globals, loads>>

\* An overlay whose library has no such member is passed over. The base may be
\* none for the same reason: there are libraries on z/OS only, where the type
\* that is read at location 0 is neither of an object nor of an array.
MergeOverlay ==
    LET overlay == Last(load.overlays)
    IN /\ load.step = "merge" /\ load.overlays # <<>>
       /\ data' = IF overlay = NoJson THEN data ELSE Merge(overlay, data, load.policy)
       /\ load' = [load EXCEPT !.overlays = Front(@)]
       /\ UNCHANGED <<path, globals, loads>>

\* Nothing at all is not an object either.
BeginEvaluation ==
    /\ load.step = "merge" /\ load.overlays = <<>>
    /\ IF IsObject(data)
       THEN load' = [load EXCEPT !.step = "evaluate", !.templates = TemplatesOf(data)]
       ELSE Finish("evaluation failure")
    /\ UNCHANGED <<path, data, globals, loads>>

\* Every member of the configuration, as it is now, becomes a global. What
\* cannot be evaluated is left as it is.
EvaluateTemplate ==
    /\ load.step = "evaluate" /\ load.evaluated < Len(load.templates)
    /\ LET template == load.templates[load.evaluated + 1]
           result == Evaluate(template.expression, WithGlobals(globals, data))
       IN /\ globals' = WithGlobals(globals, data)
          /\ data' = IF result = NoJson THEN data ELSE Replace(data, template.place, result)
    /\ load' = [load EXCEPT !.evaluated = @ + 1]
    /\ UNCHANGED <<path, loads>>

Succeed ==
    /\ load.step = "evaluate" /\ load.evaluated = Len(load.templates)
    /\ Finish("success")
    /\ UNCHANGED <<path, data, globals, loads>>

\* The sources are edited before they are loaded again.
Edit ==
    /\ load.step = "idle" /\ load.outcome # "none" /\ loads < MaxLoads
    /\ path' \in Edits
    /\ load' = Idle
    /\ UNCHANGED <<data, globals, loads>>

Next ==
    \/ Load \/ ReadOverlay \/ ReadBase \/ MergeOverlay
    \/ BeginEvaluation \/ EvaluateTemplate \/ Succeed
    \/ Edit

Spec == Init /\ [][Next]_vars

-----------------------------------------------------------------------------
(* What a list of sources means, leftmost first: a value hides what is to its  *)
(* right, except that objects go on to show what is below them, and arrays     *)
(* combine by the policy, up to the first value of another kind. A template is *)
(* a value; in the end it is replaced by what it reads.                        *)

Kind(v) == IF IsUnevaluated(v) THEN "template" ELSE v.type

Shown(values) ==
    LET n == CHOOSE n \in DOMAIN values :
                /\ \A i \in 1..n : Kind(values[i]) = Kind(values[1])
                /\ n < Len(values) => Kind(values[n + 1]) # Kind(values[1])
    IN SubSeq(values, 1, n)

RECURSIVE Meaning(_, _)
Meaning(values, policy) ==
    LET shown == Shown(values)
        Single(v) == Meaning(<<v>>, policy)
        Item(i) == Meaning([j \in DOMAIN SelectSeq(shown, LAMBDA v : i \in DOMAIN v.items) |->
                              SelectSeq(shown, LAMBDA v : i \in DOMAIN v.items)[j].items[i]], policy)
        OfKey(k) == LET having == SelectSeq(shown, LAMBDA v : HasKey(v, k))
                    IN Meaning([j \in DOMAIN having |-> PropertyValue(having[j], k)], policy)
        All(v) == [i \in DOMAIN v.items |-> Single(v.items[i])]
    IN CASE Kind(values[1]) = "object" ->
              [type |-> "object", of |-> [k \in UNION {Keys(v) : v \in Range(shown)} |-> OfKey(k)]]
         [] Kind(values[1]) = "array" ->
              [type |-> "array",
               all |-> CASE policy = "concatenate" -> FlattenSeq([j \in DOMAIN shown |-> All(Reverse(shown)[j])])
                         [] policy = "in place" -> [i \in UNION {DOMAIN v.items : v \in Range(shown)} |-> Item(i)]
                         [] policy = "base" -> All(Last(shown))
                         [] policy = "overrides" -> All(shown[1])]
         [] OTHER -> values[1]

IsTemplate(meaning) == "members" \in DOMAIN meaning

\* The value that a meaning has at a sequence of keys, through the templates on
\* the way. A template that reads nothing stays one.
RECURSIVE MeantAt(_, _, _)
MeantAt(meaning, keys, top) ==
    IF IsTemplate(meaning)
    THEN LET read == MeantAt(top, PropertyValue(meaning, "source").expression, top)
         IN IF keys = <<>> /\ read = NoJson THEN meaning ELSE MeantAt(read, keys, top)
    ELSE IF keys = <<>> THEN meaning
    ELSE IF meaning.type = "object" /\ Head(keys) \in DOMAIN meaning.of
         THEN MeantAt(meaning.of[Head(keys)], Tail(keys), top)
    ELSE NoJson

RECURSIVE Resolved(_, _)
Resolved(meaning, top) ==
    IF IsTemplate(meaning)
    THEN LET read == MeantAt(meaning, <<>>, top)
         IN IF read = meaning THEN meaning ELSE Resolved(read, top)
    ELSE CASE meaning.type = "array" -> [meaning EXCEPT !.all = [i \in DOMAIN @ |-> Resolved(@[i], top)]]
           [] meaning.type = "object" -> [meaning EXCEPT !.of = [k \in DOMAIN @ |-> Resolved(@[k], top)]]
           [] OTHER -> meaning

Sources == LET present == SelectSeq(path, LAMBDA e : ~Missing(e))
           IN [i \in DOMAIN present |-> present[i].json]

\* A template is an object as far as the merge can tell: it merges with the
\* members of an object at its place, whichever of the two is to the left.
PlacesOf(v, kind) ==
    LET RECURSIVE Below(_, _)
        Below(u, place) ==
            (IF Kind(u) = kind THEN {place} ELSE {})
            \cup IF Kind(u) \notin {"object", "array"} THEN {}
                 ELSE UNION {Below(Children(u)[k], Append(place, k)) : k \in DOMAIN Children(u)}
    IN Below(v, <<>>)

NoTemplateMeetsObject ==
    \A i, j \in DOMAIN Sources : PlacesOf(Sources[i], "template") \cap PlacesOf(Sources[j], "object") = {}

\* Each template reads what this configuration has, or what none had, and what
\* was evaluated before it.
TemplatesInOrder(merged) ==
    \A i \in DOMAIN load.templates :
        LET expression == load.templates[i].expression
        IN /\ Head(expression) \in DOMAIN merged.of \/ Head(expression) \notin DOMAIN globals
           /\ \A j \in i..Len(load.templates) :
                 ~IsPrefix(load.templates[j].place, expression) /\ ~IsPrefix(expression, load.templates[j].place)

ExpectedOutcome ==
    IF \E i \in DOMAIN path : Missing(path[i]) /\ ~path[i].expanded THEN "missing"
    ELSE IF Sources # <<>> /\ IsObject(Sources[1]) THEN "success"
    ELSE "evaluation failure"

\* A load ends as its sources call for: a library without the member is no
\* failure, wherever it is in the path ("dontCare", "let it ride"); when a source
\* is missing, the configuration is the one there was, or none, and never some of
\* the sources;
\* when it succeeds, each value is the leftmost one, with nothing below it that a
\* value of another kind hides (overloadConfiguration, configmgr.c:821-860, and
\* mergeJson1, json.c:2635-2735), and each template is replaced by what the
\* configuration finally has where it reads (evaluationVisitor, embeddedjs.c:1823).
LoadedAsMeant ==
    load.outcome # "none" =>
        /\ load.outcome = ExpectedOutcome
        /\ load.outcome = "missing" => data \in {load.before, NoJson}
        /\ LET meaning == Meaning(Sources, load.policy)
           IN (load.outcome = "success" /\ NoTemplateMeetsObject /\ TemplatesInOrder(meaning)) =>
                  Meaning(<<data>>, load.policy) = Resolved(meaning, meaning)
=============================================================================
