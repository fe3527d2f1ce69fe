------------------------------ MODULE LruCache ------------------------------
(***************************************************************************)
(* The LRU cache of c/collections.c: a list of elements linked both ways   *)
(* by recency and a hash table from digests to the same elements.  The     *)
(* keys of the table are not copies: an entry's key is the digest inside   *)
(* the element, which the cache overwrites when it recycles the element.   *)
(***************************************************************************)
EXTENDS Integers, Sequences, SequencesExt, FiniteSets

CONSTANTS
    Sizes,      \* the sizes caches are made with
    Digests,
    Things,
    Place(_),   \* digestHash, modulo the size of the backbone
    None        \* the null pointer

ASSUME CacheAssumption == Sizes \subseteq Nat /\ None \notin Nat

VARIABLES
    cache,      \* size, count, oldest and newest
    element,    \* the elements: digest, data, newer and older
    backbone,   \* the hash table: for each place the elements of its entries
    result      \* what the last call has returned

cacheVars == <<cache, element, backbone, result>>

PlaceSet == {Place(d) : d \in Digests}
Elements == 1..cache.count

\* makeLRUCache.
CacheInitWith(size) ==
    /\ cache = [size |-> size, count |-> 0, oldest |-> None, newest |-> None]
    /\ element = <<>>
    /\ backbone = [p \in PlaceSet |-> <<>>]
    /\ result = None

CacheInit == \E size \in Sizes : CacheInitWith(size)

-----------------------------------------------------------------------------
(* The hash table.  What it compares is the digest each element has now.   *)

\* The entries with a key in the chain of its place, and the first of them.
Same(els, table, digest) ==
    {i \in 1..Len(table[Place(digest)]) : els[table[Place(digest)][i]].digest = digest}

First(indices) == CHOOSE i \in indices : \A j \in indices : i <= j

\* htGet.
HtGet(els, table, digest) ==
    LET same == Same(els, table, digest)
    IN IF same = {} THEN None ELSE table[Place(digest)][First(same)]

\* htPut2: the entry of an equal key is replaced, or a new one comes first.
HtPut(els, table, e) ==
    LET same == Same(els, table, els[e].digest)
    IN [table EXCEPT ![Place(els[e].digest)] =
            IF same = {} THEN <<e>> \o @ ELSE [@ EXCEPT ![First(same)] = e]]

\* htRemove: htDequeue of the first entry with the key.
HtRemove(els, table, digest) ==
    LET same == Same(els, table, digest)
    IN IF same = {} THEN table
       ELSE [table EXCEPT ![Place(digest)] = RemoveAt(@, First(same))]

-----------------------------------------------------------------------------
(* lruGet and the cases of lruStore, in the order of the code.             *)

LruGet(digest) ==
    LET e == HtGet(element, backbone, digest)
    IN /\ result' = IF e = None THEN None ELSE element[e].data
       /\ UNCHANGED <<cache, element, backbone>>

Existing(digest) == HtGet(element, backbone, digest)

RecacheNewest(digest) ==
    /\ Existing(digest) # None /\ Existing(digest) = cache.newest
    /\ result' = None
    /\ UNCHANGED <<cache, element, backbone>>

\* With two elements the next oldest is the newest.
RecacheOldest(digest) ==
    LET e == Existing(digest)
        newOldest == element[e].newer
    IN /\ e # None /\ e # cache.newest /\ e = cache.oldest
       /\ element' = [element EXCEPT ![e].newer = None,
                                     ![e].older = cache.newest,
                                     ![cache.newest].newer = e,
                                     ![newOldest].older = None]
       /\ cache' = [cache EXCEPT !.oldest = newOldest, !.newest = e]
       /\ result' = None
       /\ UNCHANGED backbone

\* Faulty: the neighbour on the older side is not joined.
RecacheMiddleHalf(digest) ==
    LET e == Existing(digest)
        next == element[e].newer
    IN /\ e # None /\ e # cache.newest /\ e # cache.oldest
       /\ element' = [element EXCEPT ![e].newer = None,
                                     ![e].older = cache.newest,
                                     ![cache.newest].newer = e,
                                     ![next].older = element[e].older]
       /\ cache' = [cache EXCEPT !.newest = e]
       /\ result' = None
       /\ UNCHANGED backbone

RecacheMiddle(digest) ==
    LET e == Existing(digest)
        prev == element[e].older
        next == element[e].newer
    IN /\ e # None /\ e # cache.newest /\ e # cache.oldest
       /\ element' = [element EXCEPT ![e].newer = None,
                                     ![e].older = cache.newest,
                                     ![cache.newest].newer = e,
                                     ![prev].newer = next,
                                     ![next].older = prev]
       /\ cache' = [cache EXCEPT !.newest = e]
       /\ result' = None
       /\ UNCHANGED backbone

\* allocLRUElement, and the new element becomes the newest.
StoreNew(digest, thing) ==
    LET e == cache.count + 1
        new == [digest |-> digest, data |-> thing, newer |-> None,
                older |-> IF cache.oldest # None THEN cache.newest ELSE None]
        linked == Append(element, new)
    IN /\ Existing(digest) = None /\ cache.count < cache.size
       /\ element' = IF cache.oldest = None THEN linked
                     ELSE [linked EXCEPT ![cache.newest].newer = e]
       /\ cache' = [cache EXCEPT !.count = e, !.newest = e,
                                 !.oldest = IF @ = None THEN e ELSE @]
       /\ backbone' = HtPut(element', backbone, e)
       /\ result' = None

\* Faulty: the entry is removed when the element has its new digest.
RecycleOldestLate(digest, thing) ==
    LET e == HtGet(element, backbone, element[cache.oldest].digest)
        second == element[cache.oldest].newer
    IN /\ Existing(digest) = None /\ cache.count = cache.size /\ cache.size >= 2
       /\ element' = [element EXCEPT ![e].digest = digest, ![e].data = thing,
                                     ![e].newer = None, ![e].older = cache.newest,
                                     ![cache.newest].newer = e, ![second].older = None]
       /\ cache' = [cache EXCEPT !.newest = e, !.oldest = second]
       /\ backbone' = HtPut(element', HtRemove(element', backbone, element[e].digest), e)
       /\ result' = element[e].data

\* The oldest element, found through the table, gets the new digest and thing.
RecycleOldest(digest, thing) ==
    LET e == HtGet(element, backbone, element[cache.oldest].digest)
        second == element[cache.oldest].newer
    IN /\ Existing(digest) = None /\ cache.count = cache.size /\ cache.size >= 2
       /\ element' = [element EXCEPT ![e].digest = digest, ![e].data = thing,
                                     ![e].newer = None, ![e].older = cache.newest,
                                     ![cache.newest].newer = e, ![second].older = None]
       /\ cache' = [cache EXCEPT !.newest = e, !.oldest = second]
       /\ backbone' = HtPut(element', HtRemove(element, backbone, element[e].digest), e)
       /\ result' = element[e].data

RecycleOnly(digest, thing) ==
    LET e == cache.oldest
    IN /\ Existing(digest) = None /\ cache.count = cache.size /\ cache.size = 1
       /\ element' = [element EXCEPT ![e].digest = digest, ![e].data = thing]
       /\ backbone' = HtPut(element', HtRemove(element, backbone, element[e].digest), e)
       /\ result' = element[e].data
       /\ UNCHANGED cache

StoreNowhere ==
    /\ cache.size = 0
    /\ result' = None
    /\ UNCHANGED <<cache, element, backbone>>

CacheNext ==
    \/ \E digest \in Digests :
           \/ LruGet(digest)
           \/ RecacheNewest(digest) \/ RecacheOldest(digest) \/ RecacheMiddle(digest)
    \/ \E digest \in Digests, thing \in Things :
           StoreNew(digest, thing) \/ RecycleOldest(digest, thing) \/ RecycleOnly(digest, thing)
    \/ StoreNowhere

CacheSpec == CacheInit /\ [][CacheNext]_cacheVars

-----------------------------------------------------------------------------

\* The n elements on the way from one along a link.
Walk(els, n, from, link) ==
    LET w[i \in 1..n] ==
            IF i = 1 THEN from ELSE IF w[i - 1] = None THEN None ELSE els[w[i - 1]][link]
    IN [i \in 1..n |-> w[i]]

NewestToOldest == Walk(element, cache.count, cache.newest, "older")
OldestToNewest == Walk(element, cache.count, cache.oldest, "newer")

\* The list and the table describe one cache: both links visit every element
\* once, in opposite orders, and every element is found, once, at the place of
\* the digest it has (lruStore, htPut2, htRemove).
ListAndTableAgree ==
    /\ ToSet(NewestToOldest) = Elements
    /\ OldestToNewest = Reverse(NewestToOldest)
    /\ \A p \in PlaceSet : ToSet(backbone[p]) = {e \in Elements : Place(element[e].digest) = p}
    /\ \A p \in PlaceSet : IsInjective(backbone[p])

Entry(e) == IF e = None THEN None ELSE [digest |-> element[e].digest, thing |-> element[e].data]

Recency == LET order == NewestToOldest IN [i \in 1..cache.count |-> Entry(order[i])]

List == INSTANCE LruList WITH size <- cache.size, list <- Recency

\* The cache is a list by recency of storing: lruGet gives the thing first stored
\* with a digest, and lruStore gives back the thing whose digest was stored, or
\* stored again, longest ago, and only when it needs the room (lruGet, lruStore).
\* This is what the code does.  Its comments say that the pointer given is stored
\* (869: LastGivenIsKept of MCLruCache) and that lruGet "can change recency" (841).
EvictsOldest == List!Spec
=============================================================================
