------------------------------ MODULE LruList ------------------------------
(***************************************************************************)
(* What callers of the LRU cache can rely on: it holds things, newest      *)
(* first, of which a store that needs room gives back the one stored or    *)
(* stored again longest ago.  It is less than the comments of the code     *)
(* promise: see StoreAgain and Get.                                        *)
(***************************************************************************)
EXTENDS Integers, Sequences, SequencesExt

CONSTANTS Digests, Things, None
VARIABLES
    size,       \* how many things the cache holds
    list,       \* the digests and their things, newest first
    result      \* what the last call has returned

Init == size \in Nat /\ list = <<>> /\ result = None

Holds(digest) == digest \in {entry.digest : entry \in Range(list)}

\* A digest that was looked up is no newer for it ("can change recency",
\* collections.c:841).
Get(digest) ==
    /\ result' = IF Holds(digest)
                 THEN (CHOOSE entry \in Range(list) : entry.digest = digest).thing
                 ELSE None
    /\ UNCHANGED <<size, list>>

\* A digest that is there becomes the newest and keeps its thing; the one given
\* now is dropped ("thing poitner is stored", collections.c:869).
StoreAgain(digest) ==
    /\ \E i \in 1..Len(list) :
          /\ list[i].digest = digest
          /\ list' = <<list[i]>> \o RemoveAt(list, i)
    /\ result' = None
    /\ UNCHANGED size

StoreNew(digest, thing) ==
    /\ result' = None
    /\ ~Holds(digest) /\ Len(list) < size
    /\ list' = <<[digest |-> digest, thing |-> thing]>> \o list
    /\ UNCHANGED size

StoreFull(digest, thing) ==
    /\ ~Holds(digest) /\ Len(list) = size /\ size > 0
    /\ list' = <<[digest |-> digest, thing |-> thing]>> \o Front(list)
    /\ result' = Last(list).thing
    /\ UNCHANGED size

\* A cache for nothing keeps nothing.
StoreNowhere == size = 0 /\ result' = None /\ UNCHANGED <<size, list>>

Next ==
    \/ \E digest \in Digests : Get(digest) \/ StoreAgain(digest)
    \/ \E digest \in Digests, thing \in Things : StoreNew(digest, thing) \/ StoreFull(digest, thing)
    \/ StoreNowhere

Spec == Init /\ [][Next]_<<size, list, result>>
=============================================================================
