----------------------------- MODULE MCLruCache -----------------------------
(* A small cache whose caller remembers what it gave to the cache last.        *)
EXTENDS LruCache

VARIABLE
    given       \* the thing last given to lruStore for each digest

vars == <<cacheVars, given>>

MCPlace(digest) == digest % 2

Init == CacheInit /\ given = [d \in Digests |-> None]

Store(digest, thing) ==
    /\ \/ RecacheNewest(digest) \/ RecacheOldest(digest) \/ RecacheMiddle(digest)
       \/ StoreNew(digest, thing) \/ RecycleOldest(digest, thing) \/ RecycleOnly(digest, thing)
       \/ StoreNowhere
    /\ given' = [given EXCEPT ![digest] = thing]

Next ==
    \E digest \in Digests :
        \/ LruGet(digest) /\ UNCHANGED given
        \/ \E thing \in Things : Store(digest, thing)

Spec == Init /\ [][Next]_vars

\* A digest in the cache has the thing that was last stored for it: "thing poitner
\* is stored and will be returned if de-cached" (lruStore, collections.c:869).
\* Of a digest that is there lruStore drops the thing.
LastGivenIsKept == \A e \in Elements : element[e].data = given[element[e].digest]
=============================================================================
