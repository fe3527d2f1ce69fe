--------------------------- MODULE LruCacheProofs ---------------------------
(***************************************************************************)
(* What holds of LruCache for caches of any size and any way the digests   *)
(* fall into the places of the table: the list and the table agree, and    *)
(* the cache implements LruList.                                           *)
(*                                                                         *)
(* The invariant says that some order of the elements is the one both      *)
(* links follow, and that the table files every element under the digest   *)
(* it has.  It is stated of values (the elements els, the header c, the    *)
(* table), so that a lemma speaks of them before and after a step alike.   *)
(***************************************************************************)
EXTENDS LruCache, SequenceTheorems, FiniteSetTheorems, TLAPS

NatOrNone == Nat \cup {None}
Element == [digest : Digests, data : Things, newer : NatOrNone, older : NatOrNone]
Header == [size : Nat, count : Nat, oldest : NatOrNone, newest : NatOrNone]

-----------------------------------------------------------------------------
(* The table.  It files the elements of the set S.                         *)

In(chain, e) == \E i \in 1..Len(chain) : chain[i] = e

Files(els, S, table) ==
    /\ table \in [PlaceSet -> Seq(Nat)]
    /\ \A q \in PlaceSet : \A i, j \in 1..Len(table[q]) : table[q][i] = table[q][j] => i = j
    /\ \A q \in PlaceSet : \A e \in Nat :
           In(table[q], e) <=> e \in S /\ Place(els[e].digest) = q

Distinct(els, S) ==
    /\ S \subseteq Nat
    /\ \A e \in S : els[e].digest \in Digests
    /\ \A e, f \in S : els[e].digest = els[f].digest => e = f

LEMMA PlaceIn == ASSUME NEW d \in Digests PROVE Place(d) \in PlaceSet
BY DEF PlaceSet

LEMMA FirstOfOne == ASSUME NEW i \in Nat PROVE First({i}) = i
BY DEF First

\* The chain of a place has one entry with a digest that is there, or none.
LEMMA SameFacts ==
    ASSUME NEW els, NEW S, NEW table, Files(els, S, table), Distinct(els, S), NEW d \in Digests
    PROVE  /\ \A e \in S : els[e].digest = d =>
                 \E i \in 1..Len(table[Place(d)]) :
                    Same(els, table, d) = {i} /\ table[Place(d)][i] = e
           /\ (\A e \in S : els[e].digest # d) => Same(els, table, d) = {}
<1> DEFINE chain == table[Place(d)]
<1>1. Place(d) \in PlaceSet /\ chain \in Seq(Nat)
  BY PlaceIn DEF Files
<1>2. \A i \in 1..Len(chain) : chain[i] \in S
  BY <1>1 DEF Files, In
<1>3. ASSUME NEW e \in S, els[e].digest = d
      PROVE  \E i \in 1..Len(chain) : Same(els, table, d) = {i} /\ chain[i] = e
  <2>1. PICK i \in 1..Len(chain) : chain[i] = e
    BY <1>1, <1>3 DEF Files, In, Distinct
  <2>2. \A j \in 1..Len(chain) : els[chain[j]].digest = d => j = i
    BY <1>1, <1>2, <1>3, <2>1 DEF Files, Distinct
  <2>3. Same(els, table, d) = {i}
    BY <1>3, <2>1, <2>2 DEF Same
  <2> QED BY <2>1, <2>3
<1>4. ASSUME \A e \in S : els[e].digest # d PROVE Same(els, table, d) = {}
  BY <1>2, <1>4 DEF Same
<1> QED BY <1>3, <1>4

\* htGet finds the element that has the digest.
LEMMA GetFacts ==
    ASSUME NEW els, NEW S, NEW table, Files(els, S, table), Distinct(els, S), NEW d \in Digests
    PROVE  /\ \A e \in S : els[e].digest = d => HtGet(els, table, d) = e
           /\ (\A e \in S : els[e].digest # d) => HtGet(els, table, d) = None
<1>1. ASSUME NEW e \in S, els[e].digest = d PROVE HtGet(els, table, d) = e
  <2>1. PICK i \in 1..Len(table[Place(d)]) :
            Same(els, table, d) = {i} /\ table[Place(d)][i] = e
    BY <1>1, SameFacts
  <2>2. First(Same(els, table, d)) = i
    BY <2>1, FirstOfOne
  <2> QED BY <2>1, <2>2 DEF HtGet
<1>2. ASSUME \A e \in S : els[e].digest # d PROVE HtGet(els, table, d) = None
  BY <1>2, SameFacts DEF HtGet
<1> QED BY <1>1, <1>2

\* htPut2 of an element whose digest no other has.
LEMMA PutFacts ==
    ASSUME NEW els, NEW S, NEW table, Files(els, S, table), Distinct(els, S),
           NEW e \in Nat \ S, els[e].digest \in Digests,
           \A f \in S : els[f].digest # els[e].digest
    PROVE  Files(els, S \cup {e}, HtPut(els, table, e))
<1> DEFINE q == Place(els[e].digest)
           chain == table[q]
           new == <<e>> \o chain
<1>1. q \in PlaceSet /\ chain \in Seq(Nat) /\ table \in [PlaceSet -> Seq(Nat)]
  BY PlaceIn DEF Files
<1>2. HtPut(els, table, e) = [table EXCEPT ![q] = new]
  <2>1. Same(els, table, els[e].digest) = {}
    BY SameFacts
  <2> QED BY <2>1 DEF HtPut
<1>3. /\ new \in Seq(Nat) /\ Len(new) = Len(chain) + 1 /\ Len(chain) \in Nat
      /\ new[1] = e /\ \A i \in 2..Len(new) : new[i] = chain[i - 1] /\ i - 1 \in 1..Len(chain)
      /\ \A i \in 1..Len(chain) : new[i + 1] = chain[i] /\ i + 1 \in 1..Len(new)
  <2>1. <<e>> \in Seq(Nat) /\ Len(<<e>>) = 1 /\ <<e>>[1] = e
    OBVIOUS
  <2> HIDE DEF chain
  <2> QED BY <1>1, <2>1, ConcatProperties
<1>4. ~In(chain, e)
  BY <1>1 DEF Files
<1>5. \A f \in Nat : In(new, f) <=> f = e \/ In(chain, f)
  <2>1. ASSUME NEW f \in Nat, In(new, f) PROVE f = e \/ In(chain, f)
    BY <1>3, <2>1 DEF In
  <2>2. ASSUME NEW f \in Nat, In(chain, f) PROVE In(new, f)
    BY <1>3, <2>2 DEF In
  <2>3. In(new, e)
    BY <1>3 DEF In
  <2> QED BY <2>1, <2>2, <2>3
<1>6. \A i, j \in 1..Len(new) : new[i] = new[j] => i = j
  BY <1>1, <1>3, <1>4 DEF Files, In
<1> HIDE DEF q, chain, new
<1>7. ASSUME NEW r \in PlaceSet
      PROVE  /\ \A i, j \in 1..Len([table EXCEPT ![q] = new][r]) :
                   [table EXCEPT ![q] = new][r][i] = [table EXCEPT ![q] = new][r][j] => i = j
             /\ \A f \in Nat : In([table EXCEPT ![q] = new][r], f)
                                 <=> f \in S \cup {e} /\ Place(els[f].digest) = r
  <2>1. CASE r = q
    <3>1. [table EXCEPT ![q] = new][r] = new
      BY <1>1, <2>1
    <3>2. \A f \in Nat : In(chain, f) <=> f \in S /\ Place(els[f].digest) = q
      BY <1>1 DEF Files, chain
    <3>3. Place(els[e].digest) = q
      BY DEF q
    <3> QED BY <1>5, <1>6, <2>1, <3>1, <3>2, <3>3
  <2>2. CASE r # q
    <3>1. [table EXCEPT ![q] = new][r] = table[r]
      BY <1>1, <2>2
    <3>2. Place(els[e].digest) # r
      BY <2>2 DEF q
    <3> QED BY <3>1, <3>2 DEF Files
  <2> QED BY <2>1, <2>2
<1>8. [table EXCEPT ![q] = new] \in [PlaceSet -> Seq(Nat)]
  BY <1>1, <1>3
<1> QED BY <1>2, <1>7, <1>8 DEF Files

LEMMA RemoveAtFacts ==
    ASSUME NEW S, NEW s \in Seq(S), NEW k \in 1..Len(s)
    PROVE  /\ RemoveAt(s, k) \in Seq(S) /\ Len(RemoveAt(s, k)) = Len(s) - 1
           /\ Len(s) \in Nat
           /\ \A i \in 1..Len(RemoveAt(s, k)) :
                 RemoveAt(s, k)[i] = IF i < k THEN s[i] ELSE s[i + 1]
<1> DEFINE l == SubSeq(s, 1, k - 1)
           r == SubSeq(s, k + 1, Len(s))
<1>1. /\ l \in Seq(S) /\ Len(l) = k - 1 /\ \A i \in 1..(k - 1) : l[i] = s[i]
      /\ Len(s) \in Nat
  OBVIOUS
<1>2. r \in Seq(S) /\ Len(r) = Len(s) - k /\ \A i \in 1..(Len(s) - k) : r[i] = s[k + i]
  OBVIOUS
<1>3. RemoveAt(s, k) = l \o r
  BY DEF RemoveAt
<1> HIDE DEF l, r
<1>6. /\ l \o r \in Seq(S) /\ Len(l \o r) = Len(l) + Len(r)
      /\ \A i \in 1..Len(l) + Len(r) : (l \o r)[i] = IF i <= Len(l) THEN l[i] ELSE r[i - Len(l)]
  <2>1. l \in Seq(S) /\ r \in Seq(S)
    BY <1>1, <1>2
  <2> QED BY <2>1, ConcatProperties
<1>4. /\ l \o r \in Seq(S) /\ Len(l \o r) = (k - 1) + (Len(s) - k)
      /\ \A i \in 1..Len(l \o r) :
            (l \o r)[i] = IF i <= k - 1 THEN l[i] ELSE r[i - (k - 1)]
  BY <1>1, <1>2, <1>6
<1>5. ASSUME NEW i \in 1..Len(l \o r) PROVE (l \o r)[i] = IF i < k THEN s[i] ELSE s[i + 1]
  <2>1. CASE i < k
    BY <1>1, <1>4, <2>1
  <2>2. CASE ~(i < k)
    <3>1. i - (k - 1) \in 1..(Len(s) - k) /\ k + (i - (k - 1)) = i + 1
      BY <1>1, <1>4, <2>2
    <3> QED BY <1>1, <1>2, <1>4, <2>2, <3>1
  <2> QED BY <2>1, <2>2
<1> QED BY <1>1, <1>3, <1>4, <1>5

\* htRemove of the digest of an element.
LEMMA RemoveFacts ==
    ASSUME NEW els, NEW S, NEW table, Files(els, S, table), Distinct(els, S), NEW e \in S
    PROVE  Files(els, S \ {e}, HtRemove(els, table, els[e].digest))
<1> DEFINE d == els[e].digest
           q == Place(d)
           chain == table[q]
<1>1. e \in Nat /\ d \in Digests /\ q \in PlaceSet /\ chain \in Seq(Nat)
  BY PlaceIn DEF Files, Distinct
<1>2. PICK k \in 1..Len(chain) : Same(els, table, d) = {k} /\ chain[k] = e
  BY <1>1, SameFacts
<1> DEFINE new == RemoveAt(chain, k)
<1>3. First(Same(els, table, d)) = k
  BY <1>2, FirstOfOne
<1>4. HtRemove(els, table, d) = [table EXCEPT ![q] = new]
  BY <1>2, <1>3 DEF HtRemove
<1>5. /\ new \in Seq(Nat) /\ Len(new) = Len(chain) - 1 /\ Len(chain) \in Nat
      /\ \A i \in 1..Len(new) : new[i] = IF i < k THEN chain[i] ELSE chain[i + 1]
  <2> HIDE DEF chain
  <2> QED BY <1>1, RemoveAtFacts
<1>6. \A i, j \in 1..Len(chain) : chain[i] = chain[j] => i = j
  BY <1>1 DEF Files
<1> HIDE DEF d, q, chain, new
<1>7. \A f \in Nat : In(new, f) <=> In(chain, f) /\ f # e
  <2>1. ASSUME NEW f \in Nat, In(new, f) PROVE In(chain, f) /\ f # e
    <3>1. PICK i \in 1..Len(new) : new[i] = f
      BY <2>1 DEF In
    <3>2. CASE i < k
      BY <1>2, <1>5, <1>6, <3>1, <3>2 DEF In
    <3>3. CASE ~(i < k)
      <4>1. i + 1 \in 1..Len(chain) /\ chain[i + 1] = f
        BY <1>5, <3>1, <3>3
      <4> QED BY <1>2, <1>6, <3>3, <4>1 DEF In
    <3> QED BY <3>2, <3>3
  <2>2. ASSUME NEW f \in Nat, In(chain, f), f # e PROVE In(new, f)
    <3>1. PICK j \in 1..Len(chain) : chain[j] = f
      BY <2>2 DEF In
    <3>2. CASE j < k
      <4>1. j \in 1..Len(new) /\ new[j] = f
        BY <1>2, <1>5, <3>1, <3>2
      <4> QED BY <4>1 DEF In
    <3>3. CASE j > k
      <4>1. j - 1 \in 1..Len(new) /\ new[j - 1] = f
        BY <1>2, <1>5, <3>1, <3>3
      <4> QED BY <4>1 DEF In
    <3> QED BY <1>2, <1>5, <2>2, <3>1, <3>2, <3>3
  <2> QED BY <2>1, <2>2
<1>10. \A i, j \in 1..Len(new) : new[i] = new[j] => i = j
  <2> DEFINE at(i) == IF i < k THEN i ELSE i + 1
  <2>1. \A i \in 1..Len(new) : at(i) \in 1..Len(chain) /\ new[i] = chain[at(i)]
    BY <1>5
  <2>2. \A i, j \in 1..Len(new) : at(i) = at(j) => i = j
    BY <1>5
  <2> HIDE DEF at
  <2> QED BY <1>6, <2>1, <2>2
<1>8. ASSUME NEW r \in PlaceSet
      PROVE  /\ \A i, j \in 1..Len([table EXCEPT ![q] = new][r]) :
                   [table EXCEPT ![q] = new][r][i] = [table EXCEPT ![q] = new][r][j] => i = j
             /\ \A f \in Nat : In([table EXCEPT ![q] = new][r], f)
                                 <=> f \in S \ {e} /\ Place(els[f].digest) = r
  <2>0. table \in [PlaceSet -> Seq(Nat)] /\ Place(els[e].digest) = q
    BY DEF Files, q, d
  <2>1. CASE r = q
    <3>1. [table EXCEPT ![q] = new][r] = new
      BY <1>1, <2>0, <2>1
    <3>2. \A f \in Nat : In(chain, f) <=> f \in S /\ Place(els[f].digest) = q
      BY <1>1 DEF Files, chain
    <3> QED BY <1>7, <1>10, <2>1, <3>1, <3>2
  <2>2. CASE r # q
    <3>1. [table EXCEPT ![q] = new][r] = table[r]
      BY <2>0, <2>2
    <3> QED BY <2>0, <2>2, <3>1 DEF Files
  <2> QED BY <2>1, <2>2
<1>9. [table EXCEPT ![q] = new] \in [PlaceSet -> Seq(Nat)]
  BY <1>1, <1>5 DEF Files
<1> QED BY <1>4, <1>8, <1>9 DEF Files, d

\* The digests of other elements may change.
LEMMA FilesFrame ==
    ASSUME NEW els, NEW new, NEW S, NEW table, Files(els, S, table),
           \A e \in S : new[e].digest = els[e].digest
    PROVE  Files(new, S, table)
BY DEF Files

-----------------------------------------------------------------------------
(* The list.  In order, newest first, stand the elements of the cache.     *)

Ordering(order, n) ==
    /\ order \in [1..n -> 1..n]
    /\ \A i, j \in 1..n : order[i] = order[j] => i = j
    /\ \A e \in 1..n : \E i \in 1..n : order[i] = e

Linked(els, order, n) ==
    \A i \in 1..n : /\ els[order[i]].older = IF i = n THEN None ELSE order[i + 1]
                    /\ els[order[i]].newer = IF i = 1 THEN None ELSE order[i - 1]

Links(els, c, order) ==
    /\ Ordering(order, c.count)
    /\ Linked(els, order, c.count)
    /\ c.newest = IF c.count = 0 THEN None ELSE order[1]
    /\ c.oldest = IF c.count = 0 THEN None ELSE order[c.count]

LEMMA OrderOnce ==
    ASSUME NEW n \in Nat, NEW order, Ordering(order, n), NEW i \in 1..n, NEW j \in 1..n
    PROVE  /\ order[i] \in 1..n
           /\ i # j => order[i] # order[j]
BY DEF Ordering

LEMMA LinksEnds ==
    ASSUME NEW els, NEW c, NEW order, Links(els, c, order), NEW n \in Nat, n = c.count
    PROVE  /\ n # 0 => c.newest = order[1] /\ c.oldest = order[n]
           /\ n = 0 => c.newest = None /\ c.oldest = None
           /\ Ordering(order, n) /\ Linked(els, order, n)
BY DEF Links

\* The order when the one at k has become the newest, and with a new element.
From(k, i) == IF i = 1 THEN k ELSE IF i <= k THEN i - 1 ELSE i
ToFront(order, n, k) == [i \in 1..n |-> order[From(k, i)]]
WithNew(order, n) == [i \in 1..(n + 1) |-> IF i = 1 THEN n + 1 ELSE order[i - 1]]

\* What lruStore writes into the links when the element at k goes to the front.
Relinked(els, new, order, n, k) ==
    \A e \in 1..n :
        /\ new[e].newer = IF e = order[k] THEN None
                          ELSE IF e = order[1] THEN order[k]
                          ELSE IF k < n /\ e = order[k + 1] THEN order[k - 1]
                          ELSE els[e].newer
        /\ new[e].older = IF e = order[k] THEN order[1]
                          ELSE IF e = order[k - 1] THEN IF k = n THEN None ELSE order[k + 1]
                          ELSE els[e].older

LEMMA FromFacts ==
    ASSUME NEW n \in Nat, NEW k \in 1..n
    PROVE  /\ \A i \in 1..n : From(k, i) \in 1..n
           /\ \A i, j \in 1..n : From(k, i) = From(k, j) => i = j
           /\ \A i \in 1..n : \E j \in 1..n : From(k, j) = i
<1>1. \A i \in 1..n : From(k, i) \in 1..n
  BY DEF From
<1>2. \A i, j \in 1..n : From(k, i) = From(k, j) => i = j
  BY DEF From
<1>3. ASSUME NEW i \in 1..n PROVE \E j \in 1..n : From(k, j) = i
  <2>1. CASE i = k
    <3>1. 1 \in 1..n /\ From(k, 1) = i
      BY <2>1 DEF From
    <3> QED BY <3>1
  <2>2. CASE i < k
    <3>1. i + 1 \in 1..n /\ From(k, i + 1) = i
      BY <2>2 DEF From
    <3> QED BY <3>1
  <2>3. CASE i > k
    <3>1. From(k, i) = i
      BY <2>3 DEF From
    <3> QED BY <3>1
  <2> QED BY <2>1, <2>2, <2>3
<1> QED BY <1>1, <1>2, <1>3

LEMMA ToFrontFacts ==
    ASSUME NEW n \in Nat, NEW order, Ordering(order, n), NEW k \in 1..n
    PROVE  Ordering(ToFront(order, n, k), n)
<1>1. /\ \A i \in 1..n : From(k, i) \in 1..n
      /\ \A i, j \in 1..n : From(k, i) = From(k, j) => i = j
      /\ \A i \in 1..n : \E j \in 1..n : From(k, j) = i
  BY FromFacts
<1>2. ToFront(order, n, k) \in [1..n -> 1..n]
  BY <1>1 DEF ToFront, Ordering
<1>3. \A i \in 1..n : ToFront(order, n, k)[i] = order[From(k, i)]
  BY DEF ToFront
<1>4. ASSUME NEW i \in 1..n, NEW j \in 1..n, ToFront(order, n, k)[i] = ToFront(order, n, k)[j]
      PROVE  i = j
  <2>1. From(k, i) \in 1..n /\ From(k, j) \in 1..n /\ order[From(k, i)] = order[From(k, j)]
    BY <1>1, <1>3, <1>4
  <2>2. From(k, i) = From(k, j)
    BY <2>1 DEF Ordering
  <2> QED BY <1>1, <2>2
<1>5. ASSUME NEW e \in 1..n PROVE \E i \in 1..n : ToFront(order, n, k)[i] = e
  <2>1. PICK j \in 1..n : order[j] = e
    BY DEF Ordering
  <2>2. PICK i \in 1..n : From(k, i) = j
    BY <1>1
  <2> QED BY <1>3, <2>1, <2>2
<1> QED BY <1>2, <1>4, <1>5 DEF Ordering

LEMMA RelinkedFacts ==
    ASSUME NEW els, NEW new, NEW n \in Nat, NEW order, NEW k \in 2..n,
           Ordering(order, n), Linked(els, order, n), Relinked(els, new, order, n, k)
    PROVE  Linked(new, ToFront(order, n, k), n)
<1> DEFINE to == ToFront(order, n, k)
<1>1. order \in [1..n -> 1..n] /\ \A i, j \in 1..n : order[i] = order[j] => i = j
  BY DEF Ordering
<1>2. \A i \in 1..n : to[i] = IF i = 1 THEN order[k] ELSE IF i <= k THEN order[i - 1] ELSE order[i]
  BY DEF ToFront, From
<1>3. \A i \in 1..n : /\ els[order[i]].older = IF i = n THEN None ELSE order[i + 1]
                      /\ els[order[i]].newer = IF i = 1 THEN None ELSE order[i - 1]
  BY DEF Linked
<1> HIDE DEF to
<1>4. ASSUME NEW i \in 1..n
      PROVE  /\ new[to[i]].older = IF i = n THEN None ELSE to[i + 1]
             /\ new[to[i]].newer = IF i = 1 THEN None ELSE to[i - 1]
  <2>1. CASE i = 1
    <3>1. to[1] = order[k] /\ to[2] = order[1] /\ order[k] \in 1..n /\ n # 1
      BY <1>1, <1>2
    <3>2. new[order[k]].newer = None /\ new[order[k]].older = order[1]
      BY <3>1 DEF Relinked
    <3> QED BY <2>1, <3>1, <3>2
  <2>2. CASE i \in 2..k
    <3>1. to[i] = order[i - 1] /\ i - 1 \in 1..n /\ order[i - 1] \in 1..n
      BY <1>1, <1>2, <2>2
    <3>2. order[i - 1] # order[k] /\ (k < n => order[i - 1] # order[k + 1])
      BY <1>1, <2>2
    <3>3. order[i - 1] = order[1] <=> i = 2
      BY <1>1, <2>2
    <3>4. order[i - 1] = order[k - 1] <=> i = k
      BY <1>1, <2>2
    <3>5. new[to[i]].newer = to[i - 1]
      <4>1. CASE i = 2
        BY <1>2, <3>1, <3>2, <3>3, <4>1 DEF Relinked
      <4>2. CASE i # 2
        <5>1. to[i - 1] = order[i - 2] /\ els[order[i - 1]].newer = order[i - 2]
          BY <1>2, <1>3, <2>2, <4>2
        <5> QED BY <3>1, <3>2, <3>3, <4>2, <5>1 DEF Relinked
      <4> QED BY <4>1, <4>2
    <3>6. new[to[i]].older = IF i = n THEN None ELSE to[i + 1]
      <4>1. CASE i = k
        BY <1>2, <3>1, <3>2, <3>4, <4>1 DEF Relinked
      <4>2. CASE i # k
        <5>1. i + 1 \in 1..n /\ to[i + 1] = order[i] /\ els[order[i - 1]].older = order[i] /\ i # n
          BY <1>2, <1>3, <2>2, <4>2
        <5> QED BY <3>1, <3>2, <3>4, <4>2, <5>1 DEF Relinked
      <4> QED BY <4>1, <4>2
    <3> QED BY <2>2, <3>5, <3>6
  <2>3. CASE i > k
    <3>1. to[i] = order[i] /\ order[i] \in 1..n /\ i # 1
      BY <1>1, <1>2, <2>3
    <3>2. order[i] # order[k] /\ order[i] # order[1] /\ order[i] # order[k - 1]
      BY <1>1, <2>3
    <3>3. k < n /\ (order[i] = order[k + 1] <=> i = k + 1)
      BY <1>1, <2>3
    <3>4. new[to[i]].newer = to[i - 1]
      <4>1. CASE i = k + 1
        BY <1>2, <3>1, <3>2, <3>3, <4>1 DEF Relinked
      <4>2. CASE i # k + 1
        <5>1. to[i - 1] = order[i - 1] /\ els[order[i]].newer = order[i - 1]
          BY <1>2, <1>3, <2>3, <4>2
        <5> QED BY <3>1, <3>2, <3>3, <4>2, <5>1 DEF Relinked
      <4> QED BY <4>1, <4>2
    <3>5. new[to[i]].older = IF i = n THEN None ELSE to[i + 1]
      <4>1. i # n => to[i + 1] = order[i + 1]
        BY <1>2, <2>3
      <4> QED BY <1>3, <3>1, <3>2, <4>1 DEF Relinked
    <3> QED BY <3>1, <3>4, <3>5
  <2> QED BY <2>1, <2>2, <2>3
<1> QED BY <1>4 DEF Linked, to

\* A new element, made when there are n, is the newest.
Joined(els, new, order, n) ==
    /\ \A e \in 1..n :
          /\ new[e].older = els[e].older
          /\ new[e].newer = IF e = order[1] THEN n + 1 ELSE els[e].newer
    /\ new[n + 1].newer = None
    /\ new[n + 1].older = IF n = 0 THEN None ELSE order[1]

LEMMA WithNewFacts ==
    ASSUME NEW n \in Nat, NEW order, Ordering(order, n)
    PROVE  Ordering(WithNew(order, n), n + 1)
<1> DEFINE to == WithNew(order, n)
<1>1. /\ \A i \in 1..n : order[i] \in 1..n
      /\ \A i, j \in 1..n : order[i] = order[j] => i = j
      /\ \A e \in 1..n : \E i \in 1..n : order[i] = e
  BY DEF Ordering
<1>2. \A i \in 1..(n + 1) : to[i] = IF i = 1 THEN n + 1 ELSE order[i - 1]
  BY DEF WithNew
<1>3. to \in [1..(n + 1) -> 1..(n + 1)]
  <2>1. \A i \in 1..(n + 1) : (IF i = 1 THEN n + 1 ELSE order[i - 1]) \in 1..(n + 1)
    BY <1>1
  <2> QED BY <2>1 DEF WithNew
<1> HIDE DEF to
<1>4. ASSUME NEW i \in 1..(n + 1), NEW j \in 1..(n + 1), to[i] = to[j] PROVE i = j
  <2>1. CASE i = 1 /\ j = 1
    BY <2>1
  <2>2. CASE i = 1 /\ j # 1
    <3>1. order[j - 1] \in 1..n /\ to[j] = order[j - 1] /\ to[i] = n + 1
      BY <1>1, <1>2, <2>2
    <3>2. n + 1 \in 1..n
      BY <1>4, <3>1
    <3> QED BY <3>2
  <2>3. CASE i # 1 /\ j = 1
    <3>1. order[i - 1] \in 1..n /\ to[i] = order[i - 1] /\ to[j] = n + 1
      BY <1>1, <1>2, <2>3
    <3>2. n + 1 \in 1..n
      BY <1>4, <3>1
    <3> QED BY <3>2
  <2>4. CASE i # 1 /\ j # 1
    <3>1. i - 1 \in 1..n /\ j - 1 \in 1..n /\ order[i - 1] = order[j - 1]
      BY <1>2, <1>4, <2>4
    <3>2. i - 1 = j - 1
      <4> DEFINE a == i - 1
                 b == j - 1
      <4> HIDE DEF a, b
      <4>1. a \in 1..n /\ b \in 1..n /\ order[a] = order[b]
        BY <3>1 DEF a, b
      <4>2. a = b
        BY <1>1, <4>1
      <4> QED BY <4>2 DEF a, b
    <3> QED BY <3>2
  <2> QED BY <2>1, <2>2, <2>3, <2>4
<1>5. ASSUME NEW e \in 1..(n + 1) PROVE \E i \in 1..(n + 1) : to[i] = e
  <2>1. CASE e = n + 1
    BY <1>2, <2>1
  <2>2. CASE e # n + 1
    <3>1. PICK i \in 1..n : order[i] = e
      BY <1>1, <2>2
    <3>2. i + 1 \in 1..(n + 1) /\ to[i + 1] = e
      BY <1>2, <3>1
    <3> QED BY <3>2
  <2> QED BY <2>1, <2>2
<1> QED BY <1>3, <1>4, <1>5 DEF Ordering, to

LEMMA JoinedFacts ==
    ASSUME NEW els, NEW new, NEW n \in Nat, NEW order,
           Ordering(order, n), Linked(els, order, n), Joined(els, new, order, n)
    PROVE  Linked(new, WithNew(order, n), n + 1)
<1> DEFINE to == WithNew(order, n)
<1>1. order \in [1..n -> 1..n] /\ \A i, j \in 1..n : order[i] = order[j] => i = j
  BY DEF Ordering
<1>2. \A i \in 1..(n + 1) : to[i] = IF i = 1 THEN n + 1 ELSE order[i - 1]
  BY DEF WithNew
<1>3. \A i \in 1..n : /\ els[order[i]].older = IF i = n THEN None ELSE order[i + 1]
                      /\ els[order[i]].newer = IF i = 1 THEN None ELSE order[i - 1]
  BY DEF Linked
<1> HIDE DEF to
<1>4. ASSUME NEW i \in 1..(n + 1)
      PROVE  /\ new[to[i]].older = IF i = n + 1 THEN None ELSE to[i + 1]
             /\ new[to[i]].newer = IF i = 1 THEN None ELSE to[i - 1]
  <2>1. CASE i = 1
    <3>1. to[1] = n + 1 /\ (n # 0 => to[2] = order[1])
      BY <1>2
    <3> QED BY <2>1, <3>1 DEF Joined
  <2>2. CASE i # 1
    <3>1. to[i] = order[i - 1] /\ i - 1 \in 1..n /\ order[i - 1] \in 1..n
      BY <1>1, <1>2, <2>2
    <3>2. order[i - 1] = order[1] <=> i = 2
      BY <1>1, <2>2
    <3>3. new[to[i]].older = els[order[i - 1]].older
      BY <3>1 DEF Joined
    <3>4. i # n + 1 => to[i + 1] = order[i]
      BY <1>2, <2>2
    <3>5. els[order[i - 1]].older = IF i = n + 1 THEN None ELSE order[i]
      BY <1>3, <3>1
    <3>6. CASE i = 2
      <4>1. to[1] = n + 1 /\ new[to[i]].newer = n + 1
        BY <1>2, <3>1, <3>2, <3>6 DEF Joined
      <4> QED BY <3>3, <3>4, <3>5, <3>6, <4>1
    <3>7. CASE i # 2
      <4>1. to[i - 1] = order[i - 2]
        BY <1>2, <2>2, <3>7
      <4>2. els[order[i - 1]].newer = order[i - 2]
        BY <1>3, <3>1, <3>7
      <4>3. new[to[i]].newer = els[order[i - 1]].newer
        BY <3>1, <3>2, <3>7 DEF Joined
      <4> QED BY <2>2, <3>3, <3>4, <3>5, <4>1, <4>2, <4>3
    <3> QED BY <3>6, <3>7
  <2> QED BY <2>1, <2>2
<1> QED BY <1>4 DEF Linked, to

-----------------------------------------------------------------------------
(* A walk along either link follows the order.                             *)

LEMMA Least ==
    ASSUME NEW T, T \subseteq Nat, T # {}
    PROVE  \E x \in T : \A y \in T : x <= y
<1>1. PICK x \in T : \A y \in T : ~(<<y, x>> \in OpToRel(<, Nat))
  BY WFMin, NatLessThanWellFounded
<1>2. \A y \in T : ~(y < x)
  BY <1>1 DEF OpToRel
<1> QED BY <1>2

Follows(els, n, from, link, path) ==
    /\ path \in [1..n -> Nat]
    /\ n # 0 => path[1] = from
    /\ \A i \in 2..n : path[i] = els[path[i - 1]][link]

LEMMA WalkIs ==
    ASSUME NEW els, NEW n \in Nat, NEW from, NEW link, NEW path, Follows(els, n, from, link, path)
    PROVE  Walk(els, n, from, link) = path
<1> DEFINE f == CHOOSE w : w = [i \in 1..n |->
                    IF i = 1 THEN from
                    ELSE IF w[i - 1] = None THEN None ELSE els[w[i - 1]][link]]
<1>1. path = [i \in 1..n |-> IF i = 1 THEN from
                             ELSE IF path[i - 1] = None THEN None ELSE els[path[i - 1]][link]]
  <2>1. path \in [1..n -> Nat] /\ \A i \in 1..n : path[i] # None
    BY CacheAssumption DEF Follows
  <2>2. \A i \in 1..n : path[i] =
            IF i = 1 THEN from
            ELSE IF path[i - 1] = None THEN None ELSE els[path[i - 1]][link]
    BY <2>1 DEF Follows
  <2> QED BY <2>1, <2>2
<1>2. f = [i \in 1..n |-> IF i = 1 THEN from
                          ELSE IF f[i - 1] = None THEN None ELSE els[f[i - 1]][link]]
  BY <1>1, Zenon
<1>3. Walk(els, n, from, link) = [i \in 1..n |-> f[i]]
  BY DEF Walk
<1> HIDE DEF f
<1> DEFINE T == {i \in 1..n : f[i] # path[i]}
<1>4. ASSUME T # {} PROVE FALSE
  <2>0. T \subseteq Nat
    OBVIOUS
  <2>1. PICK x \in T : \A y \in T : x <= y
    <3> HIDE DEF T
    <3> QED BY <1>4, <2>0, Least
  <2>2. x \in 1..n /\ f[x] # path[x] /\ (x # 1 => x - 1 \in 1..n /\ f[x - 1] = path[x - 1])
    BY <2>1
  <2>3. f[x] = IF x = 1 THEN from ELSE IF f[x - 1] = None THEN None ELSE els[f[x - 1]][link]
    BY <1>2, <2>2
  <2>4. path[x] = IF x = 1 THEN from
                  ELSE IF path[x - 1] = None THEN None ELSE els[path[x - 1]][link]
    BY <1>1, <2>2
  <2> QED BY <2>2, <2>3, <2>4
<1>5. \A i \in 1..n : f[i] = path[i]
  BY <1>4
<1> HIDE DEF T
<1> QED BY <1>3, <1>5 DEF Follows

LEMMA WalkFacts ==
    ASSUME NEW els, NEW c, NEW n \in Nat, n = c.count, NEW order, Links(els, c, order)
    PROVE  /\ Walk(els, n, c.newest, "older") = order
           /\ Walk(els, n, c.oldest, "newer") = [i \in 1..n |-> order[n + 1 - i]]
<1> DEFINE back == [i \in 1..n |-> order[n + 1 - i]]
<1>1. Ordering(order, n) /\ Linked(els, order, n)
  BY DEF Links
<1>2. order \in [1..n -> 1..n] /\ \A i \in 1..n : order[i] \in Nat
  <2>1. order \in [1..n -> 1..n]
    BY <1>1 DEF Ordering
  <2> QED BY <2>1
<1>3. n # 0 => order[1] = c.newest /\ order[n] = c.oldest
  BY DEF Links
<1>4. \A i \in 2..n : order[i] = els[order[i - 1]].older
  <2> TAKE i \in 2..n
  <2>1. i - 1 \in 1..n /\ i - 1 # n /\ (i - 1) + 1 = i
    OBVIOUS
  <2> QED BY <1>1, <2>1 DEF Linked
<1>5. Walk(els, n, c.newest, "older") = order
  <2>1. Follows(els, n, c.newest, "older", order)
    BY <1>2, <1>3, <1>4 DEF Follows
  <2> QED BY <2>1, WalkIs
<1>6. back \in [1..n -> Nat] /\ \A i \in 1..n : back[i] = order[n + 1 - i]
  <2>1. \A i \in 1..n : n + 1 - i \in 1..n
    OBVIOUS
  <2> QED BY <1>2, <2>1
<1> HIDE DEF back
<1>7. \A i \in 2..n : back[i] = els[back[i - 1]].newer
  <2> TAKE i \in 2..n
  <2>1. back[i] = order[n + 1 - i] /\ back[i - 1] = order[n + 2 - i]
    BY <1>6
  <2>2. n + 2 - i \in 1..n /\ n + 2 - i # 1 /\ (n + 2 - i) - 1 = n + 1 - i
    OBVIOUS
  <2> QED BY <1>1, <2>1, <2>2 DEF Linked
<1>8. Walk(els, n, c.oldest, "newer") = back
  <2>1. n # 0 => back[1] = c.oldest
    BY <1>3, <1>6
  <2>2. Follows(els, n, c.oldest, "newer", back)
    BY <1>6, <1>7, <2>1 DEF Follows
  <2> QED BY <2>2, WalkIs
<1> QED BY <1>5, <1>8 DEF back

-----------------------------------------------------------------------------
(* The invariant, and what each operation does to the order.               *)

Sound(els, c, table) ==
    /\ c \in Header /\ c.count <= c.size
    /\ els \in [1..c.count -> Element]
    /\ Distinct(els, 1..c.count)
    /\ Files(els, 1..c.count, table)

LruInv ==
    /\ Sound(element, cache, backbone)
    /\ \E order : Links(element, cache, order)

LEMMA LruInit == CacheInit => LruInv
<1> SUFFICES ASSUME NEW size \in Sizes, CacheInitWith(size) PROVE LruInv
  BY DEF CacheInit
<1>1. /\ cache = [size |-> size, count |-> 0, oldest |-> None, newest |-> None]
      /\ size \in Nat /\ element = <<>> /\ backbone = [p \in PlaceSet |-> <<>>]
  BY CacheAssumption DEF CacheInitWith
<1>2. cache \in Header /\ cache.count = 0 /\ cache.size = size
      /\ cache.newest = None /\ cache.oldest = None
  BY <1>1 DEF Header, NatOrNone
<1>3. 1..cache.count = {}
  BY <1>2
<1>4. element \in [1..cache.count -> Element]
  BY <1>1, <1>3
<1>5. Distinct(element, 1..cache.count)
  BY <1>3 DEF Distinct
<1>6. Files(element, 1..cache.count, backbone)
  <2>1. backbone \in [PlaceSet -> Seq(Nat)]
    BY <1>1
  <2>2. \A q \in PlaceSet : 1..Len(backbone[q]) = {}
    BY <1>1
  <2>3. \A q \in PlaceSet : \A i, j \in 1..Len(backbone[q]) : backbone[q][i] = backbone[q][j] => i = j
    BY <2>2
  <2>4. \A q \in PlaceSet : \A e \in Nat : ~In(backbone[q], e)
    BY <2>2 DEF In
  <2> QED BY <1>3, <2>1, <2>3, <2>4 DEF Files
<1>7. Links(element, cache, <<>>)
  BY <1>2, <1>3 DEF Links, Ordering, Linked
<1>8. Sound(element, cache, backbone)
  BY <1>1, <1>2, <1>4, <1>5, <1>6 DEF Sound
<1> QED BY <1>7, <1>8 DEF LruInv

\* What htGet finds for lruGet and lruStore.
LEMMA Found ==
    ASSUME Sound(element, cache, backbone), NEW d \in Digests
    PROVE  \/ Existing(d) \in Elements /\ element[Existing(d)].digest = d
           \/ Existing(d) = None /\ \A e \in Elements : element[e].digest # d
<1>1. Distinct(element, Elements) /\ Files(element, Elements, backbone)
  BY DEF Sound, Elements
<1>2. CASE \E e \in Elements : element[e].digest = d
  BY <1>1, <1>2, GetFacts DEF Existing
<1>3. CASE \A e \in Elements : element[e].digest # d
  BY <1>1, <1>3, GetFacts DEF Existing
<1> QED BY <1>2, <1>3

\* The header after the element at k has become the newest.
LEMMA MovedLinks ==
    ASSUME NEW els, NEW new, NEW c, NEW d, NEW n \in Nat, n = c.count, NEW order, Links(els, c, order),
           NEW k \in 2..n, Relinked(els, new, order, n, k),
           d.count = n, d.newest = order[k], d.oldest = IF k = n THEN order[n - 1] ELSE order[n]
    PROVE  Links(new, d, ToFront(order, n, k))
<1>1. Ordering(order, n) /\ Linked(els, order, n)
  BY DEF Links
<1>2. Ordering(ToFront(order, n, k), n) /\ Linked(new, ToFront(order, n, k), n)
  BY <1>1, ToFrontFacts, RelinkedFacts
<1>3. ToFront(order, n, k)[1] = order[k]
  BY DEF ToFront, From
<1>4. ToFront(order, n, k)[n] = IF k = n THEN order[n - 1] ELSE order[n]
  BY DEF ToFront, From
<1> QED BY <1>2, <1>3, <1>4 DEF Links

-----------------------------------------------------------------------------
(* The assignments to the fields of elements, one and then several.        *)

NewerIs(els, new, N, e, v) ==
    /\ new \in [N -> Element]
    /\ \A f \in N : /\ new[f].digest = els[f].digest /\ new[f].data = els[f].data
                    /\ new[f].older = els[f].older
                    /\ new[f].newer = IF f = e THEN v ELSE els[f].newer

OlderIs(els, new, N, e, v) ==
    /\ new \in [N -> Element]
    /\ \A f \in N : /\ new[f].digest = els[f].digest /\ new[f].data = els[f].data
                    /\ new[f].newer = els[f].newer
                    /\ new[f].older = IF f = e THEN v ELSE els[f].older

ThingIs(els, new, N, e, v, w) ==
    /\ new \in [N -> Element]
    /\ \A f \in N : /\ new[f].digest = IF f = e THEN v ELSE els[f].digest
                    /\ new[f].data = IF f = e THEN w ELSE els[f].data
                    /\ new[f].newer = els[f].newer /\ new[f].older = els[f].older

LEMMA SetNewer ==
    ASSUME NEW N, NEW els \in [N -> Element], NEW e \in N, NEW v \in NatOrNone
    PROVE  NewerIs(els, [els EXCEPT ![e].newer = v], N, e, v)
<1> DEFINE new == [els EXCEPT ![e].newer = v]
<1>1. els[e] \in Element
  OBVIOUS
<1>2. [els[e] EXCEPT !.newer = v] \in Element
  BY <1>1 DEF Element
<1>3. new = [f \in N |-> IF f = e THEN [els[e] EXCEPT !.newer = v] ELSE els[f]]
  OBVIOUS
<1> QED BY <1>1, <1>2, <1>3 DEF Element, NewerIs

LEMMA SetOlder ==
    ASSUME NEW N, NEW els \in [N -> Element], NEW e \in N, NEW v \in NatOrNone
    PROVE  OlderIs(els, [els EXCEPT ![e].older = v], N, e, v)
<1> DEFINE new == [els EXCEPT ![e].older = v]
<1>1. els[e] \in Element
  OBVIOUS
<1>2. [els[e] EXCEPT !.older = v] \in Element
  BY <1>1 DEF Element
<1>3. new = [f \in N |-> IF f = e THEN [els[e] EXCEPT !.older = v] ELSE els[f]]
  OBVIOUS
<1> QED BY <1>1, <1>2, <1>3 DEF Element, OlderIs

LEMMA SetThing ==
    ASSUME NEW N, NEW els \in [N -> Element], NEW e \in N, NEW v \in Digests, NEW w \in Things
    PROVE  ThingIs(els, [els EXCEPT ![e].digest = v, ![e].data = w], N, e, v, w)
<1> DEFINE new == [els EXCEPT ![e].digest = v, ![e].data = w]
<1>1. els[e] \in Element
  OBVIOUS
<1>2. [[els[e] EXCEPT !.digest = v] EXCEPT !.data = w] \in Element
  BY <1>1 DEF Element
<1>3. new = [f \in N |-> IF f = e THEN [[els[e] EXCEPT !.digest = v] EXCEPT !.data = w] ELSE els[f]]
  <2>1. new = [[els EXCEPT ![e].digest = v] EXCEPT ![e].data = w]
    OBVIOUS
  <2> QED BY <2>1
<1> QED BY <1>1, <1>2, <1>3 DEF Element, ThingIs

\* The links lruStore writes when the oldest element becomes the newest, and
\* when one in the middle does.
OldestRelinked(els, new, N, e, newest, second) ==
    /\ new \in [N -> Element]
    /\ \A f \in N :
          /\ new[f].digest = els[f].digest /\ new[f].data = els[f].data
          /\ new[f].newer = IF f = newest THEN e ELSE IF f = e THEN None ELSE els[f].newer
          /\ new[f].older = IF f = second THEN None ELSE IF f = e THEN newest ELSE els[f].older

MiddleRelinked(els, new, N, e, newest, prev, next) ==
    /\ new \in [N -> Element]
    /\ \A f \in N :
          /\ new[f].digest = els[f].digest /\ new[f].data = els[f].data
          /\ new[f].newer = IF f = prev THEN next ELSE IF f = newest THEN e
                            ELSE IF f = e THEN None ELSE els[f].newer
          /\ new[f].older = IF f = next THEN prev ELSE IF f = e THEN newest ELSE els[f].older

LinkOldest(els, e, newest, second) ==
    [els EXCEPT ![e].newer = None, ![e].older = newest, ![newest].newer = e, ![second].older = None]

LinkMiddle(els, e, newest, prev, next) ==
    [els EXCEPT ![e].newer = None, ![e].older = newest, ![newest].newer = e,
                ![prev].newer = next, ![next].older = prev]

LEMMA SetOldestLinks ==
    ASSUME NEW N, N \subseteq Nat, NEW els \in [N -> Element],
           NEW e \in N, NEW newest \in N, NEW second \in N
    PROVE  OldestRelinked(els, LinkOldest(els, e, newest, second), N, e, newest, second)
<1> DEFINE a == [els EXCEPT ![e].newer = None]
           b == [a EXCEPT ![e].older = newest]
           c == [b EXCEPT ![newest].newer = e]
           d == [c EXCEPT ![second].older = None]
<1>1. d = LinkOldest(els, e, newest, second)
  BY DEF LinkOldest
<1>2. None \in NatOrNone /\ newest \in NatOrNone /\ e \in NatOrNone
  BY DEF NatOrNone
<1>3. NewerIs(els, a, N, e, None)
  BY <1>2, SetNewer
<1> HIDE DEF a
<1>4. a \in [N -> Element] /\ OlderIs(a, b, N, e, newest)
  <2>1. a \in [N -> Element]
    BY <1>3 DEF NewerIs
  <2> QED BY <1>2, <2>1, SetOlder
<1> HIDE DEF b
<1>5. b \in [N -> Element] /\ NewerIs(b, c, N, newest, e)
  <2>1. b \in [N -> Element]
    BY <1>4 DEF OlderIs
  <2> QED BY <1>2, <2>1, SetNewer
<1> HIDE DEF c
<1>6. c \in [N -> Element] /\ OlderIs(c, d, N, second, None)
  <2>1. c \in [N -> Element]
    BY <1>5 DEF NewerIs
  <2> QED BY <1>2, <2>1, SetOlder
<1> HIDE DEF d
<1>7. OldestRelinked(els, d, N, e, newest, second)
  BY <1>3, <1>4, <1>5, <1>6 DEF NewerIs, OlderIs, OldestRelinked
<1> QED BY <1>1, <1>7

LEMMA SetMiddleLinks ==
    ASSUME NEW N, N \subseteq Nat, NEW els \in [N -> Element],
           NEW e \in N, NEW newest \in N, NEW prev \in N, NEW next \in N
    PROVE  MiddleRelinked(els, LinkMiddle(els, e, newest, prev, next), N, e, newest, prev, next)
<1> DEFINE a == [els EXCEPT ![e].newer = None]
           b == [a EXCEPT ![e].older = newest]
           c == [b EXCEPT ![newest].newer = e]
           d == [c EXCEPT ![prev].newer = next]
           g == [d EXCEPT ![next].older = prev]
<1>1. g = LinkMiddle(els, e, newest, prev, next)
  BY DEF LinkMiddle
<1>2. /\ None \in NatOrNone /\ newest \in NatOrNone /\ e \in NatOrNone
      /\ prev \in NatOrNone /\ next \in NatOrNone
  BY DEF NatOrNone
<1>3. NewerIs(els, a, N, e, None)
  BY <1>2, SetNewer
<1> HIDE DEF a
<1>4. a \in [N -> Element] /\ OlderIs(a, b, N, e, newest)
  <2>1. a \in [N -> Element]
    BY <1>3 DEF NewerIs
  <2> QED BY <1>2, <2>1, SetOlder
<1> HIDE DEF b
<1>5. b \in [N -> Element] /\ NewerIs(b, c, N, newest, e)
  <2>1. b \in [N -> Element]
    BY <1>4 DEF OlderIs
  <2> QED BY <1>2, <2>1, SetNewer
<1> HIDE DEF c
<1>6. c \in [N -> Element] /\ NewerIs(c, d, N, prev, next)
  <2>1. c \in [N -> Element]
    BY <1>5 DEF NewerIs
  <2> QED BY <1>2, <2>1, SetNewer
<1> HIDE DEF d
<1>7. d \in [N -> Element] /\ OlderIs(d, g, N, next, prev)
  <2>1. d \in [N -> Element]
    BY <1>6 DEF NewerIs
  <2> QED BY <1>2, <2>1, SetOlder
<1> HIDE DEF g
<1>8. MiddleRelinked(els, g, N, e, newest, prev, next)
  BY <1>3, <1>4, <1>5, <1>6, <1>7 DEF NewerIs, OlderIs, MiddleRelinked
<1> QED BY <1>1, <1>8


-----------------------------------------------------------------------------
(* What each operation does to the order.                                  *)

\* The element at k has become the newest of the list.
Recached(order, k) ==
    /\ Sound(element', cache', backbone')
    /\ Links(element', cache', ToFront(order, cache.count, k))
    /\ cache'.count = cache.count /\ cache'.size = cache.size

SameThings(els, new, N) ==
    \A e \in N : new[e].digest = els[e].digest /\ new[e].data = els[e].data

LEMMA RecacheSound ==
    ASSUME Sound(element, cache, backbone), NEW n \in Nat, n = cache.count,
           element' \in [1..n -> Element], SameThings(element, element', 1..n),
           cache' \in Header, cache'.count = n, cache'.size = cache.size, backbone' = backbone
    PROVE  Sound(element', cache', backbone')
<1>1. Distinct(element, 1..n) /\ Files(element, 1..n, backbone)
  BY DEF Sound
<1>2. Distinct(element', 1..n)
  BY <1>1 DEF Distinct, SameThings
<1>3. Files(element', 1..n, backbone')
  BY <1>1, FilesFrame DEF SameThings
<1> QED BY <1>2, <1>3 DEF Sound

HeaderIs(c, d, oldest, newest) ==
    /\ d \in Header /\ d.count = c.count /\ d.size = c.size
    /\ d.oldest = oldest /\ d.newest = newest

LEMMA SetHeader ==
    ASSUME NEW c \in Header, NEW v \in NatOrNone, NEW w \in NatOrNone
    PROVE  /\ HeaderIs(c, [c EXCEPT !.oldest = v, !.newest = w], v, w)
           /\ HeaderIs(c, [c EXCEPT !.newest = w], c.oldest, w)
BY DEF Header, HeaderIs

LEMMA RecacheOldestStep ==
    ASSUME Sound(element, cache, backbone), NEW order, Links(element, cache, order),
           NEW digest \in Digests, RecacheOldest(digest), NEW n, n = cache.count
    PROVE  /\ n \in 2..n /\ element[order[n]].digest = digest /\ Recached(order, n)
           /\ SameThings(element, element', 1..n)
<1> DEFINE e == Existing(digest)
           newest == order[1]
           second == order[n - 1]
<1>1. n \in Nat /\ cache \in Header /\ element \in [1..n -> Element] /\ cache.size \in Nat
  BY DEF Sound, Header
<1>2. e # None /\ e # cache.newest /\ e = cache.oldest
  BY DEF RecacheOldest
<1>3. e \in 1..n /\ element[e].digest = digest
  BY <1>2, Found DEF Elements
<1>0. Ordering(order, n) /\ Linked(element, order, n)
  BY <1>1, LinksEnds
<1>4. n # 0 /\ cache.newest = newest /\ cache.oldest = order[n]
  BY <1>1, <1>3, LinksEnds
<1>5. n >= 2 /\ e = order[n] /\ newest # e /\ newest \in 1..n /\ second \in 1..n /\ second # e
  <2>1. n >= 2 /\ e = order[n] /\ newest # e
    BY <1>1, <1>2, <1>4
  <2>2. 1 \in 1..n /\ n \in 1..n /\ n - 1 \in 1..n /\ n - 1 # n
    BY <1>1, <2>1
  <2> QED BY <1>0, <1>1, <2>1, <2>2, OrderOnce
<1>6. element[order[n]].newer = second
  <2>1. n \in 1..n /\ n # 1
    BY <1>1, <1>5
  <2> QED BY <1>0, <2>1 DEF Linked
<1>7. element' = LinkOldest(element, e, newest, second)
  BY <1>4, <1>5, <1>6, Zenon DEF RecacheOldest, LinkOldest
<1>8. cache' = [cache EXCEPT !.oldest = second, !.newest = e] /\ backbone' = backbone
  BY <1>4, <1>5, <1>6, Zenon DEF RecacheOldest
<1> HIDE DEF e, newest, second
<1>9. OldestRelinked(element, element', 1..n, e, newest, second)
  <2>1. 1..n \subseteq Nat
    OBVIOUS
  <2> QED BY <1>1, <1>3, <1>5, <1>7, <2>1, SetOldestLinks
<1>10. /\ cache' \in Header /\ cache'.count = n /\ cache'.size = cache.size
       /\ cache'.newest = order[n] /\ cache'.oldest = second
  <2>1. e \in NatOrNone /\ second \in NatOrNone
    BY <1>3, <1>5 DEF NatOrNone
  <2>2. HeaderIs(cache, [cache EXCEPT !.oldest = second, !.newest = e], second, e)
    BY <1>1, <2>1, SetHeader, Zenon
  <2>3. HeaderIs(cache, cache', second, e)
    BY <1>8, <2>2, Zenon
  <2> QED BY <1>1, <1>5, <2>3 DEF HeaderIs
<1>11. Relinked(element, element', order, n, n)
  BY <1>1, <1>5, <1>9 DEF Relinked, OldestRelinked, newest, second
<1>12. Links(element', cache', ToFront(order, n, n))
  <2>1. n \in 2..n
    BY <1>1, <1>5
  <2> QED BY <1>1, <1>10, <1>11, <2>1, MovedLinks DEF second
<1>13. element' \in [1..n -> Element] /\ SameThings(element, element', 1..n)
  BY <1>9 DEF OldestRelinked, SameThings
<1>14. Sound(element', cache', backbone')
  BY <1>1, <1>8, <1>10, <1>13, RecacheSound
<1> QED BY <1>1, <1>3, <1>5, <1>10, <1>12, <1>13, <1>14 DEF Recached

LEMMA RecacheMiddleStep ==
    ASSUME Sound(element, cache, backbone), NEW order, Links(element, cache, order),
           NEW digest \in Digests, RecacheMiddle(digest), NEW n, n = cache.count
    PROVE  \E k \in 2..n : /\ element[order[k]].digest = digest /\ Recached(order, k)
                          /\ SameThings(element, element', 1..n)
<1> DEFINE e == Existing(digest)
           newest == order[1]
<1>1. n \in Nat /\ cache \in Header /\ element \in [1..n -> Element] /\ cache.size \in Nat
  BY DEF Sound, Header
<1>2. e # None /\ e # cache.newest /\ e # cache.oldest
  BY DEF RecacheMiddle
<1>3. e \in 1..n /\ element[e].digest = digest
  BY <1>2, Found DEF Elements
<1>0. Ordering(order, n) /\ Linked(element, order, n)
  BY <1>1, LinksEnds
<1>4. n # 0 /\ cache.newest = newest /\ cache.oldest = order[n]
  BY <1>1, <1>3, LinksEnds
<1>5. PICK k \in 1..n : order[k] = e
  BY <1>0, <1>3 DEF Ordering
<1> DEFINE prev == order[k + 1]
           next == order[k - 1]
<1>6. k \in 2..n /\ k # n
  BY <1>1, <1>2, <1>4, <1>5
<1>7. /\ newest \in 1..n /\ prev \in 1..n /\ next \in 1..n
      /\ newest # e /\ prev # e /\ next # e /\ prev # newest
  <2>1. 1 \in 1..n /\ k + 1 \in 1..n /\ k - 1 \in 1..n
        /\ k # 1 /\ k + 1 # k /\ k - 1 # k /\ k + 1 # 1
    BY <1>1, <1>6
  <2> QED BY <1>0, <1>1, <1>5, <2>1, OrderOnce
<1>8. element[e].older = prev /\ element[e].newer = next
  BY <1>0, <1>5, <1>6 DEF Linked
<1>9. element' = LinkMiddle(element, e, newest, prev, next)
  BY <1>4, <1>8, Zenon DEF RecacheMiddle, LinkMiddle
<1>10. cache' = [cache EXCEPT !.newest = e] /\ backbone' = backbone
  BY DEF RecacheMiddle
<1> HIDE DEF e, newest, prev, next
<1>11. MiddleRelinked(element, element', 1..n, e, newest, prev, next)
  <2>1. 1..n \subseteq Nat
    OBVIOUS
  <2> QED BY <1>1, <1>3, <1>7, <1>9, <2>1, SetMiddleLinks
<1>12. /\ cache' \in Header /\ cache'.count = n /\ cache'.size = cache.size
       /\ cache'.newest = order[k] /\ cache'.oldest = order[n]
  <2>1. e \in NatOrNone
    BY <1>3 DEF NatOrNone
  <2>2. HeaderIs(cache, [cache EXCEPT !.newest = e], cache.oldest, e)
    BY <1>1, <2>1, SetHeader, Zenon
  <2>3. HeaderIs(cache, cache', cache.oldest, e)
    BY <1>10, <2>2, Zenon
  <2> QED BY <1>1, <1>4, <1>5, <2>3 DEF HeaderIs
<1>13. Relinked(element, element', order, n, k)
  BY <1>1, <1>5, <1>6, <1>7, <1>11 DEF Relinked, MiddleRelinked, newest, prev, next
<1>14. Links(element', cache', ToFront(order, n, k))
  BY <1>1, <1>6, <1>12, <1>13, MovedLinks
<1>15. element' \in [1..n -> Element] /\ SameThings(element, element', 1..n)
  BY <1>11 DEF MiddleRelinked, SameThings
<1>16. Sound(element', cache', backbone')
  BY <1>1, <1>10, <1>12, <1>15, RecacheSound
<1> QED BY <1>1, <1>3, <1>5, <1>6, <1>12, <1>14, <1>15, <1>16 DEF Recached

\* The element e has got the new digest and thing.
Replaced(els, new, N, e, digest, thing) ==
    \A f \in N : /\ new[f].digest = IF f = e THEN digest ELSE els[f].digest
                /\ new[f].data = IF f = e THEN thing ELSE els[f].data

LEMMA RecycleSound ==
    ASSUME Sound(element, cache, backbone), NEW n \in Nat, n = cache.count, NEW e \in 1..n,
           NEW digest \in Digests, NEW thing, \A f \in 1..n : element[f].digest # digest,
           element' \in [1..n -> Element], Replaced(element, element', 1..n, e, digest, thing),
           backbone' = HtPut(element', HtRemove(element, backbone, element[e].digest), e),
           cache' \in Header, cache'.count = n, cache'.size = cache.size
    PROVE  Sound(element', cache', backbone')
<1> DEFINE removed == HtRemove(element, backbone, element[e].digest)
           rest == (1..n) \ {e}
<1>1. Distinct(element, 1..n) /\ Files(element, 1..n, backbone)
  BY DEF Sound
<1>2. Files(element, rest, removed)
  BY <1>1, RemoveFacts
<1>3. Distinct(element', 1..n)
  BY <1>1 DEF Distinct, Replaced
<1>4. \A f \in rest : element'[f].digest = element[f].digest
  BY DEF Replaced
<1>5. Distinct(element', rest)
  BY <1>3 DEF Distinct
<1> HIDE DEF removed
<1>6. Files(element', rest, removed)
  BY <1>2, <1>4, FilesFrame
<1>7. /\ e \in Nat \ rest /\ element'[e].digest = digest
      /\ \A f \in rest : element'[f].digest # element'[e].digest
  BY <1>4 DEF Replaced
<1>8. rest \cup {e} = 1..n
  OBVIOUS
<1> HIDE DEF rest
<1>9. Files(element', rest \cup {e}, HtPut(element', removed, e))
  BY <1>5, <1>6, <1>7, PutFacts
<1>10. Files(element', 1..n, backbone')
  BY <1>8, <1>9 DEF removed
<1> QED BY <1>3, <1>10 DEF Sound

LEMMA RecycleOldestStep ==
    ASSUME Sound(element, cache, backbone), NEW order, Links(element, cache, order),
           NEW digest \in Digests, NEW thing \in Things, RecycleOldest(digest, thing),
           NEW n, n = cache.count
    PROVE  /\ n = cache.size /\ n \in 1..n /\ order[n] \in 1..n
           /\ \A f \in 1..n : element[f].digest # digest
           /\ Recached(order, n) /\ result' = element[order[n]].data
           /\ Replaced(element, element', 1..n, order[n], digest, thing)
<1> DEFINE e == HtGet(element, backbone, element[cache.oldest].digest)
           newest == order[1]
           second == order[n - 1]
           given == [element EXCEPT ![e].digest = digest, ![e].data = thing]
<1>1. n \in Nat /\ cache \in Header /\ element \in [1..n -> Element] /\ cache.size \in Nat
      /\ Distinct(element, 1..n) /\ Files(element, 1..n, backbone)
  BY DEF Sound, Header
<1>2. Existing(digest) = None /\ n = cache.size /\ n >= 2
  BY DEF RecycleOldest
<1>3. \A f \in 1..n : element[f].digest # digest
  <2>1. None \notin Elements
    BY <1>1, CacheAssumption DEF Elements
  <2> QED BY <1>2, <2>1, Found DEF Elements
<1>0. Ordering(order, n) /\ Linked(element, order, n)
  BY <1>1, LinksEnds
<1>4. cache.newest = newest /\ cache.oldest = order[n]
  <2>1. n \in Nat /\ n # 0
    BY <1>1, <1>2
  <2> QED BY <2>1, LinksEnds
<1>5. /\ order[n] \in 1..n /\ newest \in 1..n /\ second \in 1..n
      /\ newest # order[n] /\ second # order[n]
  <2>1. 1 \in 1..n /\ n \in 1..n /\ n - 1 \in 1..n /\ n - 1 # n /\ n # 1
    BY <1>1, <1>2
  <2> QED BY <1>0, <1>1, <2>1, OrderOnce
<1>6. e = order[n]
  <2>1. element[order[n]].digest \in Digests
    BY <1>1, <1>5 DEF Distinct
  <2> QED BY <1>1, <1>4, <1>5, <2>1, GetFacts
<1>7. element[order[n]].newer = second
  <2>1. n \in 1..n /\ n # 1
    BY <1>1, <1>2
  <2> QED BY <1>0, <2>1 DEF Linked
<1>8. element' = LinkOldest(given, e, newest, second)
  BY <1>4, <1>7, Zenon DEF RecycleOldest, LinkOldest
<1>9. /\ cache' = [cache EXCEPT !.newest = e, !.oldest = second]
      /\ backbone' = HtPut(element', HtRemove(element, backbone, element[e].digest), e)
      /\ result' = element[e].data
  BY <1>4, <1>7, Zenon DEF RecycleOldest
<1> HIDE DEF e, newest, second
<1>10. ThingIs(element, given, 1..n, e, digest, thing)
  BY <1>1, <1>5, <1>6, SetThing
<1> HIDE DEF given
<1>11. given \in [1..n -> Element] /\ OldestRelinked(given, element', 1..n, e, newest, second)
  <2>1. 1..n \subseteq Nat
    OBVIOUS
  <2>2. given \in [1..n -> Element]
    BY <1>10 DEF ThingIs
  <2> QED BY <1>5, <1>6, <1>8, <2>1, <2>2, SetOldestLinks
<1>12. /\ cache' \in Header /\ cache'.count = n /\ cache'.size = cache.size
       /\ cache'.newest = order[n] /\ cache'.oldest = second
  <2>1. e \in NatOrNone /\ second \in NatOrNone
    BY <1>5, <1>6 DEF NatOrNone
  <2>2. HeaderIs(cache, [cache EXCEPT !.oldest = second, !.newest = e], second, e)
    BY <1>1, <2>1, SetHeader, Zenon
  <2>3. [cache EXCEPT !.oldest = second, !.newest = e] = [cache EXCEPT !.newest = e, !.oldest = second]
    BY <1>1 DEF Header
  <2>4. HeaderIs(cache, cache', second, e)
    BY <1>9, <2>2, <2>3, Zenon
  <2> QED BY <1>1, <1>6, <2>4 DEF HeaderIs
<1>13. Relinked(element, element', order, n, n)
  <2>1. \A f \in 1..n :
          /\ element'[f].newer = IF f = newest THEN e ELSE IF f = e THEN None ELSE element[f].newer
          /\ element'[f].older = IF f = second THEN None ELSE IF f = e THEN newest ELSE element[f].older
    BY <1>10, <1>11 DEF ThingIs, OldestRelinked
  <2> QED BY <1>1, <1>5, <1>6, <2>1 DEF Relinked, newest, second
<1>14. Links(element', cache', ToFront(order, n, n))
  <2>1. n \in 2..n
    BY <1>1, <1>2
  <2> QED BY <1>1, <1>12, <1>13, <2>1, MovedLinks DEF second
<1>15. element' \in [1..n -> Element] /\ Replaced(element, element', 1..n, e, digest, thing)
  BY <1>10, <1>11 DEF ThingIs, OldestRelinked, Replaced
<1>16. Sound(element', cache', backbone')
  BY <1>1, <1>3, <1>5, <1>6, <1>9, <1>12, <1>15, RecycleSound
<1> QED BY <1>1, <1>2, <1>3, <1>5, <1>6, <1>9, <1>12, <1>14, <1>15, <1>16 DEF Recached

LEMMA RecycleOnlyStep ==
    ASSUME Sound(element, cache, backbone), NEW order, Links(element, cache, order),
           NEW digest \in Digests, NEW thing \in Things, RecycleOnly(digest, thing),
           NEW n, n = cache.count
    PROVE  /\ n = cache.size /\ n \in 1..n /\ order[n] \in 1..n
           /\ \A f \in 1..n : element[f].digest # digest
           /\ Recached(order, n) /\ result' = element[order[n]].data
           /\ Replaced(element, element', 1..n, order[n], digest, thing)
<1> DEFINE e == cache.oldest
<1>1. n \in Nat /\ cache \in Header /\ element \in [1..n -> Element] /\ cache.size \in Nat
  BY DEF Sound, Header
<1>2. Existing(digest) = None /\ n = cache.size /\ n = 1
  BY DEF RecycleOnly
<1>3. \A f \in 1..n : element[f].digest # digest
  <2>1. None \notin Elements
    BY <1>1, CacheAssumption DEF Elements
  <2> QED BY <1>2, <2>1, Found DEF Elements
<1>0. Ordering(order, n) /\ Linked(element, order, n)
  BY <1>1, LinksEnds
<1>4. e = order[n] /\ order[n] \in 1..n
  <2>1. n \in 1..n /\ n # 0
    BY <1>2
  <2> QED BY <1>0, <1>1, <2>1, LinksEnds, OrderOnce
<1>5. /\ element' = [element EXCEPT ![e].digest = digest, ![e].data = thing]
      /\ backbone' = HtPut(element', HtRemove(element, backbone, element[e].digest), e)
      /\ result' = element[e].data /\ cache' = cache
  BY DEF RecycleOnly
<1> HIDE DEF e
<1>6. ThingIs(element, element', 1..n, e, digest, thing)
  BY <1>1, <1>4, <1>5, SetThing
<1>7. element' \in [1..n -> Element] /\ Replaced(element, element', 1..n, e, digest, thing)
  BY <1>6 DEF ThingIs, Replaced
<1>8. Sound(element', cache', backbone')
  BY <1>1, <1>3, <1>4, <1>5, <1>7, RecycleSound
<1>9. ToFront(order, n, n) = order
  <2>1. order \in [1..n -> 1..n]
    BY <1>0 DEF Ordering
  <2> QED BY <1>2, <2>1 DEF ToFront, From
<1>10. Linked(element', order, n)
  <2>1. \A i \in 1..n : order[i] \in 1..n
    BY <1>0 DEF Ordering
  <2> QED BY <1>0, <1>6, <2>1 DEF Linked, ThingIs
<1>11. Links(element', cache', ToFront(order, n, n))
  BY <1>0, <1>5, <1>9, <1>10 DEF Links
<1>12. Recached(order, n)
  BY <1>5, <1>8, <1>11 DEF Recached
<1> QED BY <1>2, <1>3, <1>4, <1>5, <1>7, <1>12

\* The new element is the last of the elements and the first of the order.
Stored(order) ==
    /\ Sound(element', cache', backbone')
    /\ Links(element', cache', WithNew(order, cache.count))
    /\ cache'.count = cache.count + 1 /\ cache'.size = cache.size

LEMMA AppendFacts ==
    ASSUME NEW n \in Nat, NEW els \in [1..n -> Element], NEW new \in Element
    PROVE  /\ Append(els, new) \in [1..(n + 1) -> Element]
           /\ Append(els, new)[n + 1] = new
           /\ \A f \in 1..n : Append(els, new)[f] = els[f]
<1>1. els \in Seq(Element) /\ Len(els) = n
  OBVIOUS
<1> DEFINE a == Append(els, new)
<1>2. /\ a \in Seq(Element) /\ Len(a) = n + 1 /\ a[n + 1] = new
      /\ \A f \in 1..n : a[f] = els[f]
  BY <1>1, AppendProperties
<1> HIDE DEF a
<1>3. a \in [1..(n + 1) -> Element]
  BY <1>2
<1> QED BY <1>2, <1>3 DEF a

LEMMA StoreNewStep ==
    ASSUME Sound(element, cache, backbone), NEW order, Links(element, cache, order),
           NEW digest \in Digests, NEW thing \in Things, StoreNew(digest, thing),
           NEW n, n = cache.count
    PROVE  /\ n < cache.size /\ Stored(order)
           /\ \A f \in 1..n : element[f].digest # digest
           /\ SameThings(element, element', 1..n)
           /\ element'[n + 1].digest = digest /\ element'[n + 1].data = thing
<1> DEFINE e == n + 1
           newest == order[1]
           new == [digest |-> digest, data |-> thing, newer |-> None,
                   older |-> IF cache.oldest # None THEN cache.newest ELSE None]
           linked == Append(element, new)
<1>1. n \in Nat /\ cache \in Header /\ element \in [1..n -> Element] /\ cache.size \in Nat
      /\ Distinct(element, 1..n) /\ Files(element, 1..n, backbone)
  BY DEF Sound, Header
<1>2. Existing(digest) = None /\ n < cache.size
  BY DEF StoreNew
<1>3. \A f \in 1..n : element[f].digest # digest
  <2>1. None \notin Elements
    BY <1>1, CacheAssumption DEF Elements
  <2> QED BY <1>2, <2>1, Found DEF Elements
<1>0. Ordering(order, n) /\ Linked(element, order, n)
  BY <1>1, LinksEnds
<1>4. /\ n # 0 => newest \in 1..n /\ order[n] \in 1..n
      /\ n # 0 => cache.newest = newest /\ cache.oldest = order[n] /\ cache.oldest # None
      /\ n = 0 => cache.newest = None /\ cache.oldest = None
  <2>1. n # 0 => newest \in 1..n /\ order[n] \in 1..n
    <3>1. n # 0 => 1 \in 1..n /\ n \in 1..n
      BY <1>1
    <3> QED BY <1>0, <1>1, <3>1, OrderOnce
  <2>2. n # 0 => order[n] # None
    BY <1>1, <2>1, CacheAssumption
  <2> QED BY <1>1, <2>1, <2>2, LinksEnds
<1>5. /\ element' = IF cache.oldest = None THEN linked ELSE [linked EXCEPT ![cache.newest].newer = e]
      /\ cache' = [cache EXCEPT !.count = e, !.newest = e,
                                !.oldest = IF cache.oldest = None THEN e ELSE cache.oldest]
      /\ backbone' = HtPut(element', backbone, e)
  BY DEF StoreNew
<1>6. new \in Element /\ new.digest = digest /\ new.data = thing /\ new.newer = None
      /\ new.older = IF n = 0 THEN None ELSE newest
  <2>1. (IF cache.oldest # None THEN cache.newest ELSE None) = IF n = 0 THEN None ELSE newest
    BY <1>4
  <2>2. (IF n = 0 THEN None ELSE newest) \in NatOrNone
    BY <1>1, <1>4 DEF NatOrNone
  <2>3. None \in NatOrNone
    BY DEF NatOrNone
  <2> QED BY <2>1, <2>2, <2>3 DEF Element
<1> HIDE DEF new
<1>7. /\ linked \in [1..e -> Element] /\ linked[e] = new
      /\ \A f \in 1..n : linked[f] = element[f]
  BY <1>1, <1>6, AppendFacts
<1> HIDE DEF linked, newest
<1>8. /\ element' \in [1..e -> Element]
      /\ \A f \in 1..e : /\ element'[f].digest = linked[f].digest /\ element'[f].data = linked[f].data
                         /\ element'[f].older = linked[f].older
                         /\ element'[f].newer = IF n # 0 /\ f = newest THEN e ELSE linked[f].newer
  <2>1. CASE n = 0
    BY <1>4, <1>5, <1>7, <2>1
  <2>2. CASE n # 0
    <3>1. element' = [linked EXCEPT ![newest].newer = e]
      BY <1>4, <1>5, <2>2
    <3>2. newest \in 1..e /\ e \in NatOrNone
      BY <1>1, <1>4, <2>2 DEF NatOrNone
    <3> HIDE DEF e
    <3>3. NewerIs(linked, element', 1..e, newest, e)
      BY <1>7, <3>1, <3>2, SetNewer
    <3> QED BY <2>2, <3>3 DEF NewerIs
  <2> QED BY <2>1, <2>2
<1>9. /\ SameThings(element, element', 1..n)
      /\ element'[e].digest = digest /\ element'[e].data = thing
  <2>1. e \in 1..e /\ \A f \in 1..n : f \in 1..e
    BY <1>1
  <2> QED BY <1>6, <1>7, <1>8, <2>1 DEF SameThings
<1>10. Joined(element, element', order, n)
  <2>1. e \in 1..e /\ (n # 0 => newest # e)
    BY <1>1, <1>4
  <2>2. element'[e].newer = None /\ element'[e].older = IF n = 0 THEN None ELSE newest
    BY <1>6, <1>7, <1>8, <2>1
  <2>3. ASSUME NEW f \in 1..n
        PROVE  /\ element'[f].older = element[f].older
               /\ element'[f].newer = IF f = newest THEN e ELSE element[f].newer
    <3>1. n # 0 /\ f \in 1..e
      BY <1>1
    <3> QED BY <1>7, <1>8, <3>1
  <2> QED BY <2>2, <2>3 DEF Joined, newest
<1>11. /\ cache' \in Header /\ cache'.count = e /\ cache'.size = cache.size
       /\ cache'.newest = e /\ cache'.oldest = IF n = 0 THEN e ELSE order[n]
  <2>1. e \in Nat /\ e \in NatOrNone
    BY <1>1 DEF NatOrNone
  <2>2. (IF cache.oldest = None THEN e ELSE cache.oldest) \in NatOrNone
    BY <1>1, <2>1 DEF Header
  <2>3. (IF cache.oldest = None THEN e ELSE cache.oldest) = IF n = 0 THEN e ELSE order[n]
    BY <1>4
  <2> HIDE DEF e
  <2> QED BY <1>1, <1>5, <2>1, <2>2, <2>3 DEF Header
<1>12. Links(element', cache', WithNew(order, n))
  <2>1. Ordering(WithNew(order, n), e) /\ Linked(element', WithNew(order, n), e)
    BY <1>0, <1>1, <1>10, WithNewFacts, JoinedFacts
  <2>2. /\ WithNew(order, n)[1] = e
        /\ WithNew(order, n)[e] = IF n = 0 THEN e ELSE order[n]
    BY <1>1 DEF WithNew
  <2>3. e # 0
    BY <1>1
  <2> QED BY <1>11, <2>1, <2>2, <2>3 DEF Links
<1>13. Files(element', 1..e, backbone')
  <2>1. Distinct(element', 1..n) /\ Files(element', 1..n, backbone)
    BY <1>1, <1>9, FilesFrame DEF Distinct, SameThings
  <2>2. e \in Nat \ 1..n /\ 1..e = 1..n \cup {e}
    BY <1>1
  <2>3. \A f \in 1..n : element'[f].digest # element'[e].digest
    BY <1>3, <1>9 DEF SameThings
  <2> HIDE DEF e
  <2>4. Files(element', 1..n \cup {e}, HtPut(element', backbone, e))
    BY <1>9, <2>1, <2>2, <2>3, PutFacts
  <2> QED BY <1>5, <2>2, <2>4
<1>14. Distinct(element', 1..e)
  <2>1. 1..e \subseteq Nat /\ 1..e = 1..n \cup {e}
    BY <1>1
  <2> QED BY <1>1, <1>3, <1>9, <2>1 DEF Distinct, SameThings
<1>15. Sound(element', cache', backbone')
  <2>1. e <= cache.size
    BY <1>1, <1>2
  <2> QED BY <1>8, <1>11, <1>13, <1>14, <2>1 DEF Sound
<1> QED BY <1>2, <1>3, <1>9, <1>11, <1>12, <1>15 DEF Stored

-----------------------------------------------------------------------------
(* Safety.                                                                 *)

LEMMA LruNext == LruInv /\ [CacheNext]_cacheVars => LruInv'
<1> SUFFICES ASSUME LruInv, [CacheNext]_cacheVars PROVE LruInv'
  OBVIOUS
<1>1. PICK order : Links(element, cache, order)
  BY DEF LruInv
<1>2. Sound(element, cache, backbone)
  BY DEF LruInv
<1>3. ASSUME NEW k, Recached(order, k) PROVE LruInv'
  BY <1>3 DEF Recached, LruInv
<1>4. ASSUME Stored(order) PROVE LruInv'
  BY <1>4 DEF Stored, LruInv
<1>5. CASE UNCHANGED <<cache, element, backbone>>
  BY <1>5 DEF LruInv
<1>6. ASSUME NEW digest \in Digests, RecacheOldest(digest) PROVE LruInv'
  BY <1>1, <1>2, <1>3, <1>6, RecacheOldestStep
<1>7. ASSUME NEW digest \in Digests, RecacheMiddle(digest) PROVE LruInv'
  BY <1>1, <1>2, <1>3, <1>7, RecacheMiddleStep
<1>8. ASSUME NEW digest \in Digests, NEW thing \in Things, StoreNew(digest, thing) PROVE LruInv'
  BY <1>1, <1>2, <1>4, <1>8, StoreNewStep
<1>9. ASSUME NEW digest \in Digests, NEW thing \in Things, RecycleOldest(digest, thing) PROVE LruInv'
  BY <1>1, <1>2, <1>3, <1>9, RecycleOldestStep
<1>10. ASSUME NEW digest \in Digests, NEW thing \in Things, RecycleOnly(digest, thing) PROVE LruInv'
  BY <1>1, <1>2, <1>3, <1>10, RecycleOnlyStep
<1>11. CASE UNCHANGED cacheVars
  BY <1>5, <1>11 DEF cacheVars
<1>12. CASE CacheNext
  BY <1>5, <1>6, <1>7, <1>8, <1>9, <1>10, <1>12 DEF CacheNext, LruGet, RecacheNewest, StoreNowhere
<1> QED BY <1>11, <1>12

\* Whatever is got and stored, the links and the table are those of one order
\* of the elements, with distinct digests (c/collections.c lruStore).
THEOREM LruInvariant == CacheSpec => []LruInv
BY LruInit, LruNext, PTL DEF CacheSpec

LEMMA InvAgrees == LruInv => ListAndTableAgree
<1> SUFFICES ASSUME LruInv PROVE ListAndTableAgree
  OBVIOUS
<1> DEFINE n == cache.count
<1>1. PICK order : Links(element, cache, order)
  BY DEF LruInv
<1>2. /\ n \in Nat /\ Distinct(element, 1..n) /\ Files(element, 1..n, backbone)
      /\ element \in [1..n -> Element]
  BY DEF LruInv, Sound, Header
<1>3. order \in [1..n -> 1..n] /\ \A e \in 1..n : \E i \in 1..n : order[i] = e
  <2>1. Ordering(order, n)
    BY <1>1, <1>2, LinksEnds
  <2> QED BY <2>1, Zenon DEF Ordering
<1>4. NewestToOldest = order /\ OldestToNewest = [i \in 1..n |-> order[n + 1 - i]]
  BY <1>1, <1>2, WalkFacts DEF NewestToOldest, OldestToNewest
<1>5. ToSet(order) = 1..n
  <2>1. DOMAIN order = 1..n /\ \A i \in 1..n : order[i] \in 1..n
    BY <1>3
  <2> QED BY <1>3, <2>1, Zenon DEF ToSet
<1>6. OldestToNewest = Reverse(order)
  <2>1. Len(order) = n
    BY <1>2, <1>3
  <2>2. \A i \in 1..n : n + 1 - i = (n - i) + 1
    BY <1>2
  <2> HIDE DEF n
  <2> QED BY <1>4, <2>1, <2>2 DEF Reverse
<1>7. ASSUME NEW p \in PlaceSet
      PROVE  /\ ToSet(backbone[p]) = {e \in Elements : Place(element[e].digest) = p}
             /\ IsInjective(backbone[p])
  <2>1. backbone[p] \in Seq(Nat) /\ DOMAIN backbone[p] = 1..Len(backbone[p])
    BY <1>2 DEF Files
  <2>2. \A e \in Nat : In(backbone[p], e) <=> e \in 1..n /\ Place(element[e].digest) = p
    BY <1>2 DEF Files
  <2>3. \A e : e \in ToSet(backbone[p]) <=> e \in Nat /\ In(backbone[p], e)
    BY <2>1 DEF ToSet, In
  <2>4. IsInjective(backbone[p])
    BY <1>2, <2>1 DEF Files, IsInjective
  <2> QED BY <2>2, <2>3, <2>4 DEF Elements
<1> QED BY <1>4, <1>5, <1>6, <1>7 DEF ListAndTableAgree, Elements

\* The list and the table always describe one cache (lruStore, htPut2, htRemove
\* of c/collections.c).
THEOREM ListAndTableTheorem == CacheSpec => []ListAndTableAgree
BY LruInvariant, InvAgrees, PTL

-----------------------------------------------------------------------------
(* The refinement of LruList.                                              *)

HeldThing == [digest : Digests, thing : Things]
Entries(els, order, n) ==
    [i \in 1..n |-> [digest |-> els[order[i]].digest, thing |-> els[order[i]].data]]

LEMMA EntriesFacts ==
    ASSUME NEW n \in Nat, NEW els \in [1..n -> Element], NEW order, Ordering(order, n)
    PROVE  /\ Entries(els, order, n) \in Seq(HeldThing) /\ Len(Entries(els, order, n)) = n
           /\ \A i \in 1..n : /\ Entries(els, order, n)[i].digest = els[order[i]].digest
                            /\ Entries(els, order, n)[i].thing = els[order[i]].data
<1>1. \A i \in 1..n : els[order[i]] \in Element
  BY DEF Ordering
<1>2. \A i \in 1..n : [digest |-> els[order[i]].digest, thing |-> els[order[i]].data] \in HeldThing
  BY <1>1 DEF Element, HeldThing
<1>3. Entries(els, order, n) \in [1..n -> HeldThing]
  BY <1>2 DEF Entries
<1>4. Entries(els, order, n) \in Seq(HeldThing) /\ Len(Entries(els, order, n)) = n
  BY <1>3
<1> QED BY <1>4 DEF Entries

RecencyOf(els, c) ==
    LET order == Walk(els, c.count, c.newest, "older")
    IN [i \in 1..c.count |->
            IF order[i] = None THEN None
            ELSE [digest |-> els[order[i]].digest, thing |-> els[order[i]].data]]

LEMMA RecencyIs ==
    ASSUME NEW els, NEW c, NEW n \in Nat, n = c.count, NEW order, Links(els, c, order)
    PROVE  RecencyOf(els, c) = Entries(els, order, n)
<1>1. Walk(els, n, c.newest, "older") = order
  BY WalkFacts
<1>2. Ordering(order, n)
  BY LinksEnds
<1>3. \A i \in 1..n : order[i] # None
  BY <1>2, OrderOnce, CacheAssumption
<1> QED BY <1>1, <1>3 DEF RecencyOf, Entries

LEMMA RecencyNow == Recency = RecencyOf(element, cache)
BY DEF Recency, RecencyOf, NewestToOldest, Entry

LEMMA RecencyNext == Recency' = RecencyOf(element', cache')
BY DEF Recency, RecencyOf, NewestToOldest, Entry

\* The abstract list for a known order, before a step and after.
LEMMA ListBefore ==
    ASSUME LruInv, NEW order, Links(element, cache, order), NEW n, n = cache.count
    PROVE  /\ n \in Nat /\ element \in [1..n -> Element] /\ Distinct(element, 1..n)
           /\ Ordering(order, n) /\ Recency = Entries(element, order, n)
<1>1. n \in Nat /\ element \in [1..n -> Element] /\ Distinct(element, 1..n)
  BY DEF LruInv, Sound, Header
<1>2. Ordering(order, n)
  BY <1>1, LinksEnds
<1>3. RecencyOf(element, cache) = Entries(element, order, n)
  BY <1>1, RecencyIs
<1> QED BY <1>1, <1>2, <1>3, RecencyNow

LEMMA ListAfter ==
    ASSUME Sound(element', cache', backbone'), NEW order, Links(element', cache', order),
           NEW n, n = cache'.count
    PROVE  /\ n \in Nat /\ element' \in [1..n -> Element]
           /\ Ordering(order, n) /\ Recency' = Entries(element', order, n)
<1>1. n \in Nat /\ element' \in [1..n -> Element]
  BY DEF Sound, Header
<1>2. Ordering(order, n)
  BY <1>1, LinksEnds
<1>3. RecencyOf(element', cache') = Entries(element', order, n)
  BY <1>1, RecencyIs
<1> QED BY <1>1, <1>2, <1>3, RecencyNext

LEMMA MovedToFront ==
    ASSUME NEW S, NEW s \in Seq(S), NEW k \in 1..Len(s), NEW new \in Seq(S), Len(new) = Len(s),
           \A i \in 1..Len(s) : new[i] = s[From(k, i)]
    PROVE  new = <<s[k]>> \o RemoveAt(s, k)
<1> DEFINE n == Len(s)
           r == RemoveAt(s, k)
           both == <<s[k]>> \o r
<1>1. /\ n \in Nat /\ r \in Seq(S) /\ Len(r) = n - 1
      /\ \A i \in 1..(n - 1) : r[i] = IF i < k THEN s[i] ELSE s[i + 1]
  BY RemoveAtFacts
<1> HIDE DEF r
<1>2. <<s[k]>> \in Seq(S) /\ Len(<<s[k]>>) = 1 /\ <<s[k]>>[1] = s[k]
  OBVIOUS
<1>3. /\ both \in Seq(S) /\ Len(both) = n /\ both[1] = s[k]
      /\ \A i \in 2..n : both[i] = r[i - 1]
  BY <1>1, <1>2, ConcatProperties
<1> HIDE DEF both
<1>4. ASSUME NEW i \in 1..n PROVE new[i] = both[i]
  <2>1. CASE i = 1
    BY <1>3, <2>1 DEF From
  <2>2. CASE i # 1
    <3>1. i - 1 \in 1..(n - 1) /\ both[i] = r[i - 1] /\ new[i] = s[IF i <= k THEN i - 1 ELSE i]
      BY <1>3, <2>2 DEF From
    <3> QED BY <1>1, <3>1
  <2> QED BY <2>1, <2>2
<1> QED BY <1>3, <1>4, SeqEqual DEF both, r

LEMMA HoldsIs ==
    ASSUME LruInv, NEW order, Links(element, cache, order), NEW n, n = cache.count,
           NEW digest
    PROVE  List!Holds(digest) <=> \E e \in 1..n : element[e].digest = digest
<1>1. /\ n \in Nat /\ element \in [1..n -> Element] /\ Ordering(order, n)
      /\ Recency = Entries(element, order, n)
  BY ListBefore
<1>2. /\ Recency \in Seq(HeldThing) /\ Len(Recency) = n
      /\ \A i \in 1..n : Recency[i].digest = element[order[i]].digest
  BY <1>1, EntriesFacts
<1>3. DOMAIN Recency = 1..n
  BY <1>2
<1>4. List!Holds(digest) <=> \E i \in 1..n : Recency[i].digest = digest
  BY <1>3, Zenon DEF List!Holds, List!Range
<1>5. /\ \A i \in 1..n : order[i] \in 1..n
      /\ \A e \in 1..n : \E i \in 1..n : order[i] = e
  BY <1>1, Zenon DEF Ordering
<1>6. List!Holds(digest) <=> \E i \in 1..n : element[order[i]].digest = digest
  BY <1>2, <1>4
<1>7. (\E i \in 1..n : element[order[i]].digest = digest)
        <=> (\E e \in 1..n : element[e].digest = digest)
  <2>1. ASSUME NEW i \in 1..n, element[order[i]].digest = digest
        PROVE  \E e \in 1..n : element[e].digest = digest
    BY <1>5, <2>1
  <2>2. ASSUME NEW e \in 1..n, element[e].digest = digest
        PROVE  \E i \in 1..n : element[order[i]].digest = digest
    <3>1. PICK i \in 1..n : order[i] = e
      BY <1>5
    <3> QED BY <2>2, <3>1
  <2> QED BY <2>1, <2>2
<1> QED BY <1>6, <1>7

LEMMA ListInit == CacheInit => List!Init
<1> SUFFICES ASSUME CacheInit PROVE List!Init
  OBVIOUS
<1>1. cache.size \in Nat /\ cache.count = 0 /\ result = None
  BY CacheAssumption DEF CacheInit, CacheInitWith
<1>2. 1..cache.count = {}
  BY <1>1
<1>3. Recency = <<>>
  BY <1>2 DEF Recency
<1> QED BY <1>1, <1>3 DEF List!Init

\* lruGet.
LEMMA GetStep ==
    ASSUME LruInv, NEW digest \in Digests, LruGet(digest) PROVE List!Get(digest)
<1> DEFINE n == cache.count
           e == Existing(digest)
<1>1. PICK order : Links(element, cache, order)
  BY DEF LruInv
<1>2. /\ n \in Nat /\ element \in [1..n -> Element] /\ Distinct(element, 1..n)
      /\ Ordering(order, n) /\ Recency = Entries(element, order, n)
  BY <1>1, ListBefore
<1>3. result' = IF e = None THEN None ELSE element[e].data
  BY DEF LruGet, Existing
<1>4. UNCHANGED <<cache.size, Recency>>
  BY DEF LruGet, Recency, NewestToOldest, Entry
<1>5. \/ e \in 1..n /\ element[e].digest = digest
      \/ e = None /\ \A f \in 1..n : element[f].digest # digest
  BY Found DEF LruInv, Elements
<1> HIDE DEF e
<1>6. List!Holds(digest) <=> \E f \in 1..n : element[f].digest = digest
  BY <1>1, HoldsIs
<1>7. CASE e = None
  <2>1. e \notin 1..n
    BY <1>2, <1>7, CacheAssumption
  <2>2. ~List!Holds(digest)
    BY <1>5, <1>6, <2>1
  <2> QED BY <1>3, <1>4, <1>7, <2>2 DEF List!Get
<1>8. CASE e # None
  <2>1. e \in 1..n /\ element[e].digest = digest /\ List!Holds(digest)
    BY <1>5, <1>6, <1>8
  <2>2. /\ Recency \in Seq(HeldThing) /\ Len(Recency) = n
        /\ \A i \in 1..n : /\ Recency[i].digest = element[order[i]].digest
                         /\ Recency[i].thing = element[order[i]].data
    BY <1>2, EntriesFacts
  <2>3. PICK k \in 1..n : order[k] = e
    BY <1>2, <2>1, Zenon DEF Ordering
  <2>4. \A x : x \in List!Range(Recency) <=> \E i \in 1..n : x = Recency[i]
    <3>1. DOMAIN Recency = 1..n
      BY <2>2
    <3> QED BY <3>1, Zenon DEF List!Range
  <2>5. \A i \in 1..n : Recency[i].digest = digest => Recency[i].thing = element[e].data
    <3> TAKE i \in 1..n
    <3>1. order[i] \in 1..n
      BY <1>2, OrderOnce
    <3>2. Recency[i].digest = element[order[i]].digest /\ Recency[i].thing = element[order[i]].data
      BY <2>2
    <3>3. element[order[i]].digest = digest => order[i] = e
      BY <1>2, <2>1, <3>1 DEF Distinct
    <3> QED BY <3>2, <3>3
  <2>6. Recency[k] \in List!Range(Recency) /\ Recency[k].digest = digest
    BY <2>1, <2>2, <2>3, <2>4
  <2> DEFINE found == CHOOSE x \in List!Range(Recency) : x.digest = digest
  <2>7. found \in List!Range(Recency) /\ found.digest = digest
    BY <2>6, Zenon
  <2> HIDE DEF found
  <2>8. found.thing = element[e].data
    BY <2>4, <2>5, <2>7
  <2> QED BY <1>3, <1>4, <1>8, <2>1, <2>8 DEF List!Get, found
<1> QED BY <1>7, <1>8

\* The cases of lruStore for a digest that is there.
LEMMA RecacheList ==
    ASSUME LruInv, NEW order, Links(element, cache, order), NEW n, n = cache.count,
           NEW k \in 2..n, Recached(order, k), SameThings(element, element', 1..n),
           NEW digest \in Digests, element[order[k]].digest = digest, result' = None
    PROVE  List!StoreAgain(digest)
<1> DEFINE to == ToFront(order, n, k)
<1>1. /\ n \in Nat /\ element \in [1..n -> Element] /\ Ordering(order, n)
      /\ Recency = Entries(element, order, n)
  BY ListBefore
<1>2. cache'.count = n /\ cache'.size = cache.size
  BY DEF Recached
<1>3. element' \in [1..n -> Element] /\ Ordering(to, n) /\ Recency' = Entries(element', to, n)
  BY <1>2, ListAfter DEF Recached
<1>4. /\ Recency \in Seq(HeldThing) /\ Len(Recency) = n
      /\ \A i \in 1..n : Recency[i].digest = element[order[i]].digest
  BY <1>1, EntriesFacts
<1>5. Recency' \in Seq(HeldThing) /\ Len(Recency') = n
  BY <1>1, <1>3, EntriesFacts
<1>6. \A i \in 1..n : Recency'[i] = Recency[From(k, i)]
  <2> TAKE i \in 1..n
  <2>1. From(k, i) \in 1..n /\ to[i] = order[From(k, i)]
    <3>1. n \in Nat /\ k \in 1..n
      BY <1>1
    <3>2. From(k, i) \in 1..n
      BY <3>1, FromFacts
    <3> QED BY <3>2 DEF ToFront
  <2>2. order[From(k, i)] \in 1..n
    BY <1>1, <2>1, OrderOnce
  <2>3. Recency'[i] = [digest |-> element'[to[i]].digest, thing |-> element'[to[i]].data]
    BY <1>3 DEF Entries
  <2>4. Recency[From(k, i)] = [digest |-> element[to[i]].digest, thing |-> element[to[i]].data]
    BY <1>1, <2>1 DEF Entries
  <2> QED BY <2>1, <2>2, <2>3, <2>4 DEF SameThings
<1>7. Recency' = <<Recency[k]>> \o RemoveAt(Recency, k)
  <2>1. k \in 1..Len(Recency)
    BY <1>4
  <2> QED BY <1>4, <1>5, <1>6, <2>1, MovedToFront
<1>8. k \in 1..Len(Recency) /\ Recency[k].digest = digest
  BY <1>4
<1> QED BY <1>2, <1>7, <1>8, Zenon DEF List!StoreAgain, List!RemoveAt, RemoveAt

LEMMA RecacheNewestList ==
    ASSUME LruInv, NEW digest \in Digests, RecacheNewest(digest)
    PROVE  List!StoreAgain(digest)
<1> DEFINE n == cache.count
<1>1. PICK order : Links(element, cache, order)
  BY DEF LruInv
<1>2. /\ n \in Nat /\ element \in [1..n -> Element] /\ Ordering(order, n)
      /\ Recency = Entries(element, order, n)
  BY <1>1, ListBefore
<1>3. Existing(digest) \in 1..n /\ element[Existing(digest)].digest = digest
      /\ Existing(digest) = cache.newest
  BY Found DEF RecacheNewest, LruInv, Elements
<1>4. 1 \in 1..n /\ cache.newest = order[1]
  <2>1. n # 0 /\ 1 \in 1..n
    BY <1>2, <1>3
  <2> QED BY <1>1, <1>2, <2>1, LinksEnds
<1>5. UNCHANGED <<cache.size, Recency>> /\ result' = None
  BY DEF RecacheNewest, Recency, NewestToOldest, Entry
<1>6. /\ Recency \in Seq(HeldThing) /\ Len(Recency) = n
      /\ \A i \in 1..n : Recency[i].digest = element[order[i]].digest
  BY <1>2, EntriesFacts
<1>7. \A i \in 1..n : From(1, i) = i
  BY DEF From
<1>8. 1 \in 1..Len(Recency) /\ Recency[1].digest = digest
  BY <1>3, <1>4, <1>6
<1> DEFINE s == Recency
<1> HIDE DEF s, n
<1>9. s = <<s[1]>> \o RemoveAt(s, 1)
  <2>1. s \in Seq(HeldThing) /\ 1 \in 1..Len(s) /\ \A i \in 1..Len(s) : s[i] = s[From(1, i)]
    BY <1>6, <1>7, <1>8 DEF s
  <2> QED BY <2>1, MovedToFront
<1>10. Recency' = <<Recency[1]>> \o RemoveAt(Recency, 1)
  BY <1>5, <1>9 DEF s
<1> QED BY <1>5, <1>8, <1>10, Zenon DEF List!StoreAgain, List!RemoveAt, RemoveAt

\* The element at the back gets the new digest and goes to the front.
LEMMA RecycleList ==
    ASSUME LruInv, NEW order, Links(element, cache, order), NEW n, n = cache.count,
           NEW digest \in Digests, NEW thing \in Things,
           n = cache.size, n \in 1..n, order[n] \in 1..n,
           \A f \in 1..n : element[f].digest # digest,
           Recached(order, n), result' = element[order[n]].data,
           Replaced(element, element', 1..n, order[n], digest, thing)
    PROVE  List!StoreFull(digest, thing)
<1> DEFINE to == ToFront(order, n, n)
           new == [digest |-> digest, thing |-> thing]
           front == SubSeq(Recency, 1, n - 1)
<1>1. /\ n \in Nat /\ element \in [1..n -> Element] /\ Ordering(order, n)
      /\ Recency = Entries(element, order, n)
  BY ListBefore
<1>2. cache'.count = n /\ cache'.size = cache.size
  BY DEF Recached
<1>3. element' \in [1..n -> Element] /\ Ordering(to, n) /\ Recency' = Entries(element', to, n)
  BY <1>2, ListAfter DEF Recached
<1>4. /\ Recency \in Seq(HeldThing) /\ Len(Recency) = n
      /\ Recency[n].thing = element[order[n]].data
  BY <1>1, EntriesFacts
<1>5. Recency' \in Seq(HeldThing) /\ Len(Recency') = n
  BY <1>1, <1>3, EntriesFacts
<1>6. /\ Recency'[1] = new
      /\ \A i \in 2..n : Recency'[i] = Recency[i - 1]
  <2>1. \A i \in 1..n : Recency'[i] = [digest |-> element'[to[i]].digest, thing |-> element'[to[i]].data]
    BY <1>3 DEF Entries
  <2>2. to[1] = order[n] /\ 1 \in 1..n
    BY <1>1 DEF ToFront, From
  <2>3. element'[order[n]].digest = digest /\ element'[order[n]].data = thing
    BY DEF Replaced
  <2>4. ASSUME NEW i \in 2..n PROVE Recency'[i] = Recency[i - 1]
    <3>1. i \in 1..n /\ i - 1 \in 1..n /\ i - 1 # n /\ to[i] = order[i - 1]
      BY <1>1 DEF ToFront, From
    <3>2. order[i - 1] \in 1..n /\ order[i - 1] # order[n]
      BY <1>1, <3>1, OrderOnce
    <3>3. Recency[i - 1] = [digest |-> element[order[i - 1]].digest, thing |-> element[order[i - 1]].data]
      BY <1>1, <3>1 DEF Entries
    <3> QED BY <2>1, <3>1, <3>2, <3>3 DEF Replaced
  <2> QED BY <2>1, <2>2, <2>3, <2>4
<1>7. Recency' = <<new>> \o front
  <2> DEFINE s == Recency
             t == Recency'
  <2>1. s \in Seq(HeldThing) /\ Len(s) = n /\ t \in Seq(HeldThing) /\ Len(t) = n
        /\ t[1] = new /\ \A i \in 2..n : t[i] = s[i - 1]
    BY <1>4, <1>5, <1>6
  <2>2. <<new>> \in Seq(HeldThing) /\ Len(<<new>>) = 1 /\ <<new>>[1] = new
    BY DEF HeldThing
  <2> HIDE DEF s, t
  <2>3. front \in Seq(HeldThing) /\ Len(front) = n - 1 /\ \A i \in 1..(n - 1) : front[i] = s[i]
    BY <1>1, <2>1 DEF s
  <2> HIDE DEF front, new
  <2> DEFINE both == <<new>> \o front
  <2>4. /\ both \in Seq(HeldThing) /\ Len(both) = n /\ both[1] = new
        /\ \A i \in 2..n : both[i] = front[i - 1]
    BY <1>1, <2>2, <2>3, ConcatProperties
  <2> HIDE DEF both
  <2>5. ASSUME NEW i \in 1..n PROVE t[i] = both[i]
    <3>1. CASE i = 1
      BY <2>1, <2>4, <3>1
    <3>2. CASE i # 1
      <4>1. i \in 2..n /\ i - 1 \in 1..(n - 1)
        BY <1>1, <3>2
      <4> QED BY <2>1, <2>3, <2>4, <4>1
    <3> QED BY <3>1, <3>2
  <2>6. t = both
    BY <2>1, <2>4, <2>5, SeqEqual
  <2> QED BY <2>6 DEF t, both
<1>8. ~List!Holds(digest)
  BY HoldsIs
<1>9. n > 0
  BY <1>1
<1> QED BY <1>2, <1>4, <1>7, <1>8, <1>9 DEF List!StoreFull, List!Front, List!Last

LEMMA StoreNewList ==
    ASSUME LruInv, NEW digest \in Digests, NEW thing \in Things, StoreNew(digest, thing)
    PROVE  List!StoreNew(digest, thing)
<1> DEFINE n == cache.count
           new == [digest |-> digest, thing |-> thing]
<1>1. PICK order : Links(element, cache, order)
  BY DEF LruInv
<1> DEFINE to == WithNew(order, n)
<1>2. /\ n \in Nat /\ element \in [1..n -> Element] /\ Ordering(order, n)
      /\ Recency = Entries(element, order, n)
  BY <1>1, ListBefore
<1>3. /\ n < cache.size /\ Stored(order)
      /\ \A f \in 1..n : element[f].digest # digest
      /\ SameThings(element, element', 1..n)
      /\ element'[n + 1].digest = digest /\ element'[n + 1].data = thing
  <2>1. Sound(element, cache, backbone)
    BY DEF LruInv
  <2> QED BY <1>1, <2>1, StoreNewStep
<1>4. cache'.count = n + 1 /\ cache'.size = cache.size
  BY <1>3 DEF Stored
<1>5. element' \in [1..(n + 1) -> Element] /\ Ordering(to, n + 1)
      /\ Recency' = Entries(element', to, n + 1)
  BY <1>3, <1>4, ListAfter DEF Stored
<1> DEFINE s == Recency
           t == Recency'
           both == <<new>> \o s
<1>6. s \in Seq(HeldThing) /\ Len(s) = n
  BY <1>2, EntriesFacts
<1>7. t \in Seq(HeldThing) /\ Len(t) = n + 1
  <2>1. n + 1 \in Nat
    BY <1>2
  <2> DEFINE m == n + 1
  <2> HIDE DEF m
  <2>2. m \in Nat /\ element' \in [1..m -> Element] /\ Ordering(to, m) /\ t = Entries(element', to, m)
    BY <1>5, <2>1 DEF m
  <2> HIDE DEF t, to
  <2>3. t \in Seq(HeldThing) /\ Len(t) = m
    BY <2>2, EntriesFacts
  <2> QED BY <2>3 DEF m
<1>8. t[1] = new /\ \A i \in 2..(n + 1) : t[i] = s[i - 1]
  <2>1. \A i \in 1..(n + 1) : t[i] = [digest |-> element'[to[i]].digest, thing |-> element'[to[i]].data]
    BY <1>5 DEF Entries
  <2>2. to[1] = n + 1 /\ 1 \in 1..(n + 1)
    BY <1>2 DEF WithNew
  <2>3. ASSUME NEW i \in 2..(n + 1) PROVE t[i] = s[i - 1]
    <3>1. i \in 1..(n + 1) /\ i - 1 \in 1..n /\ to[i] = order[i - 1]
      BY <1>2 DEF WithNew
    <3>2. order[i - 1] \in 1..n
      BY <1>2, <3>1, OrderOnce
    <3>3. s[i - 1] = [digest |-> element[order[i - 1]].digest, thing |-> element[order[i - 1]].data]
      BY <1>2, <3>1 DEF Entries
    <3> QED BY <1>3, <2>1, <3>1, <3>2, <3>3 DEF SameThings
  <2> QED BY <1>3, <2>1, <2>2, <2>3
<1>9. <<new>> \in Seq(HeldThing) /\ Len(<<new>>) = 1 /\ <<new>>[1] = new
  BY DEF HeldThing
<1> HIDE DEF new, s, t, n, to
<1>10. /\ both \in Seq(HeldThing) /\ Len(both) = n + 1 /\ both[1] = new
       /\ \A i \in 2..(n + 1) : both[i] = s[i - 1]
  BY <1>2, <1>6, <1>9, ConcatProperties
<1> HIDE DEF both
<1>11. \A i \in 1..(n + 1) : t[i] = both[i]
  <2> TAKE i \in 1..(n + 1)
  <2>1. i = 1 \/ i \in 2..(n + 1)
    BY <1>2
  <2> QED BY <1>8, <1>10, <2>1
<1>12. t = both
  BY <1>7, <1>10, <1>11, SeqEqual
<1>13. ~List!Holds(digest)
  BY <1>1, <1>3, HoldsIs DEF n
<1>14. result' = None
  BY DEF StoreNew
<1> QED BY <1>3, <1>4, <1>6, <1>12, <1>13, <1>14 DEF List!StoreNew, both, new, s, t

LEMMA ListNext == LruInv /\ [CacheNext]_cacheVars => [List!Next]_<<cache.size, Recency, result>>
<1> SUFFICES ASSUME LruInv, [CacheNext]_cacheVars
             PROVE  [List!Next]_<<cache.size, Recency, result>>
  OBVIOUS
<1>1. PICK order : Links(element, cache, order)
  BY DEF LruInv
<1>2. Sound(element, cache, backbone)
  BY DEF LruInv
<1> USE DEF List!Next
<1>3. ASSUME NEW digest \in Digests, LruGet(digest) PROVE List!Next
  BY <1>3, GetStep
<1>4. ASSUME NEW digest \in Digests, RecacheNewest(digest) PROVE List!Next
  BY <1>4, RecacheNewestList
<1>5. ASSUME NEW digest \in Digests, RecacheOldest(digest) PROVE List!Next
  <2>1. result' = None
    BY <1>5 DEF RecacheOldest
  <2>2. List!StoreAgain(digest)
    BY <1>1, <1>2, <1>5, <2>1, RecacheOldestStep, RecacheList
  <2> QED BY <2>2
<1>6. ASSUME NEW digest \in Digests, RecacheMiddle(digest) PROVE List!Next
  <2>1. result' = None
    BY <1>6 DEF RecacheMiddle
  <2>2. List!StoreAgain(digest)
    BY <1>1, <1>2, <1>6, <2>1, RecacheMiddleStep, RecacheList
  <2> QED BY <2>2
<1>7. ASSUME NEW digest \in Digests, NEW thing \in Things, StoreNew(digest, thing) PROVE List!Next
  BY <1>7, StoreNewList
<1>8. ASSUME NEW digest \in Digests, NEW thing \in Things,
             RecycleOldest(digest, thing) \/ RecycleOnly(digest, thing)
      PROVE  List!Next
  <2>1. List!StoreFull(digest, thing)
    <3>1. CASE RecycleOldest(digest, thing)
      BY <1>1, <1>2, <3>1, RecycleOldestStep, RecycleList
    <3>2. CASE RecycleOnly(digest, thing)
      BY <1>1, <1>2, <3>2, RecycleOnlyStep, RecycleList
    <3> QED BY <1>8, <3>1, <3>2
  <2> QED BY <2>1
<1>9. CASE StoreNowhere
  BY <1>9 DEF StoreNowhere, List!StoreNowhere, Recency, NewestToOldest, Entry
<1>10. CASE UNCHANGED cacheVars
  BY <1>10 DEF cacheVars, Recency, NewestToOldest, Entry
<1> QED
  <2>1. CASE CacheNext
    BY <1>3, <1>4, <1>5, <1>6, <1>7, <1>8, <1>9, <2>1 DEF CacheNext
  <2> QED BY <1>10, <2>1

\* The cache is a list by recency: lruGet gives the thing stored with a digest,
\* and lruStore gives back the one stored, or stored again, longest ago, and
\* only when it needs the room (lruGet, lruStore).
THEOREM EvictsOldestTheorem == CacheSpec => EvictsOldest
<1>1. CacheSpec => List!Spec
  BY ListInit, ListNext, LruInvariant, PTL DEF CacheSpec, List!Spec
<1> QED BY <1>1 DEF EvictsOldest
=============================================================================
