--------------------------- MODULE WorkQueueProofs ---------------------------
(***************************************************************************)
(* Proofs about WorkQueue, for any number of threads, elements and values, *)
(* any range of the counter and each kind of serialization: the queue      *)
(* implements FifoQueue.  QInv is inductive; it says that a copy of the    *)
(* counter that still compares equal was read after the last update.       *)
(***************************************************************************)
EXTENDS WorkQueue, SequenceTheorems, TLAPS

\* The part of QInv that speaks of the list and its elements.
ListInv == ListShape /\ OnePlace

-----------------------------------------------------------------------------
(* Sequences of elements. *)

LEMMA AppendChain ==
  ASSUME NEW s \in Seq(Block), NEW b \in Block
  PROVE  LET q == Append(s, b)
         IN  /\ q \in Seq(Block) /\ q # <<>>
             /\ Len(s) \in Nat /\ Len(q) = Len(s) + 1
             /\ \A i \in 1..Len(s) : q[i] = s[i]
             /\ q[Len(s) + 1] = b
             /\ \A i \in 1..Len(s) : s[i] \in Block
             /\ s = <<>> <=> Len(s) = 0
  OBVIOUS

LEMMA EmptyChain ==
  ASSUME NEW s \in Seq(Block)
  PROVE  s = <<>> <=> Len(s) = 0
  OBVIOUS

LEMMA TailChain ==
  ASSUME NEW s \in Seq(Block), s # <<>>
  PROVE  /\ Tail(s) \in Seq(Block)
         /\ Len(s) \in Nat /\ Len(s) >= 1 /\ Len(Tail(s)) = Len(s) - 1
         /\ \A i \in 1..Len(Tail(s)) : Tail(s)[i] = s[i + 1] /\ i + 1 \in 1..Len(s)
         /\ \A i \in 1..Len(s) : s[i] \in Block
         /\ Tail(s) = <<>> <=> Len(s) = 1
<1>1. /\ Tail(s) \in Seq(Block)
      /\ Len(s) \in Nat /\ Len(s) >= 1 /\ Len(Tail(s)) = Len(s) - 1
      /\ \A i \in 1..Len(s) : s[i] \in Block
  OBVIOUS
<1>2. \A i \in 1..Len(Tail(s)) : Tail(s)[i] = s[i + 1] /\ i + 1 \in 1..Len(s)
  BY <1>1
<1>3. Tail(s) = <<>> <=> Len(Tail(s)) = 0
  BY <1>1, EmptyChain
<1> QED BY <1>1, <1>2, <1>3

-----------------------------------------------------------------------------
(* What a counter that compares equal means. *)

LEMMA FreshIsEqual ==
  ASSUME QInv, NEW t \in Thread, InWindow(t)
  PROVE  counter = lock[t] <=> overtaken[t] = 0
<1>1. /\ lock[t] \in 1..CounterMax /\ overtaken[t] \in Nat /\ overtaken[t] < CounterMax
      /\ counter = Advanced(lock[t], overtaken[t])
  BY DEF QInv, TypeOK, Stamps
<1> QED BY <1>1, QueueAssumption DEF Advanced

LEMMA WindowIsValid == QInv => WindowValid
  BY FreshIsEqual DEF QInv, WindowFresh, WindowValid

LEMMA NextCounter ==
  ASSUME NEW c \in 1..CounterMax
  PROVE  /\ NewCounter(c) \in 1..CounterMax
         /\ \A k \in Nat : k + 1 < CounterMax =>
              \A l \in 1..CounterMax :
                c = Advanced(l, k) => NewCounter(c) = Advanced(l, k + 1)
  BY QueueAssumption DEF NewCounter, Advanced

-----------------------------------------------------------------------------
(* The two changes of the list. *)

\* What the successful PLO, the transaction or the locked section of an
\* insert does.
Linking(t) ==
  /\ head' = IF tail = Null THEN elem[t] ELSE head
  /\ tail' = elem[t]
  /\ next' = IF tail = Null THEN next ELSE [next EXCEPT ![tail] = elem[t]]
  /\ chain' = Append(chain, elem[t])
  /\ UNCHANGED heap
  /\ Inserting(t)
  /\ elem' = [elem EXCEPT ![t] = Null]
  /\ pc' = [pc EXCEPT ![t] = "idle"]

\* ... and of a remove that finds an element.
Unlinking(t) ==
  /\ head # Null
  /\ head' = next[head]
  /\ tail' = DesiredTail(next[head])
  /\ next' \in {next, [next EXCEPT ![head] = Null]}
  /\ chain' = Tail(chain)
  /\ UNCHANGED heap
  /\ ~Inserting(t) /\ pc[t] \notin {"idle", "return"}
  /\ elem' = [elem EXCEPT ![t] = head]
  /\ pc' = [pc EXCEPT ![t] = "return"]

LEMMA ChainEnds ==
  ASSUME QInv
  PROVE  /\ head = Null <=> chain = <<>>
         /\ tail = Null <=> chain = <<>>
         /\ chain # <<>> => /\ head = chain[1] /\ tail = chain[Len(chain)]
                            /\ 1 \in 1..Len(chain) /\ Len(chain) \in 1..Len(chain)
                            /\ head \in Block /\ tail \in Block
<1>1. chain \in Seq(Block) /\ Null \notin Block
  BY QueueAssumption DEF QInv, TypeOK
<1>2. chain # <<>> => 1 \in 1..Len(chain) /\ Len(chain) \in 1..Len(chain)
  BY <1>1
<1>3. chain # <<>> => chain[1] \in Block /\ chain[Len(chain)] \in Block
  BY <1>1, <1>2
<1> QED BY <1>1, <1>2, <1>3 DEF QInv, ListShape

LEMMA LinkingList == ASSUME QInv, NEW t \in Thread, Linking(t) PROVE ListInv'
<1> DEFINE e == elem[t]
           n == Len(chain) + 1
<1>1. /\ e \in Block /\ next[e] = Null /\ e # Null /\ Owns(t)
      /\ chain \in Seq(Block) /\ next \in [Block -> Pointer]
      /\ elem \in [Thread -> Pointer] /\ pc[t] # "return"
  BY QueueAssumption DEF QInv, Places, Linking, TypeOK, Owns, Inserting
<1>2. /\ Len(chain) \in Nat /\ Len(chain') = n /\ chain' # <<>>
      /\ \A i \in 1..Len(chain) : chain'[i] = chain[i] /\ chain[i] \in Block
      /\ chain'[n] = e
      /\ chain = <<>> <=> Len(chain) = 0
  BY <1>1, AppendChain DEF Linking
<1>3. \A i \in 1..Len(chain) : chain[i] # e
  BY <1>1 DEF QInv, OnePlace
<1>4. \A b \in Block : next'[b] = IF tail # Null /\ b = tail THEN e ELSE next[b]
  BY <1>1 DEF Linking
<1>5. ListShape'
  <2>1. head' = chain'[1] /\ tail' = chain'[Len(chain')]
    <3>1. CASE chain = <<>>
      BY <1>2, <3>1, ChainEnds DEF Linking
    <3>2. CASE chain # <<>>
      BY <1>2, <3>2, ChainEnds DEF Linking
    <3> QED BY <3>1, <3>2
  <2>2. ASSUME NEW i \in 1..Len(chain')
        PROVE  next'[chain'[i]] = IF i = Len(chain') THEN Null ELSE chain'[i + 1]
    <3>1. CASE i = n
      <4>1. chain'[i] = e /\ (tail # Null => e # tail)
        BY <1>2, <1>3, <3>1, ChainEnds
      <4> QED BY <1>1, <1>2, <1>4, <3>1, <4>1
    <3>2. CASE i = Len(chain)
      <4>1. chain # <<>> /\ chain'[i] = tail /\ tail # Null /\ tail \in Block
        BY <1>2, <2>2, <3>2, ChainEnds
      <4> QED BY <1>2, <1>4, <3>2, <4>1
    <3>3. CASE i # n /\ i # Len(chain)
      <4>1. /\ i \in 1..Len(chain) /\ i + 1 \in 1..Len(chain) /\ i # Len(chain)
            /\ chain # <<>>
        BY <1>2, <3>3
      <4>2. next[chain[i]] = chain[i + 1] /\ chain[i] # tail
        BY <4>1, ChainEnds DEF QInv, ListShape, OnePlace
      <4> QED BY <1>2, <1>4, <3>3, <4>1, <4>2
    <3> QED BY <1>2, <3>1, <3>2, <3>3
  <2> QED BY <1>2, <2>1, <2>2 DEF ListShape
<1>6. OnePlace'
  <2>1. \A i, j \in 1..Len(chain') : chain'[i] = chain'[j] => i = j
    <3>1. \A i \in 1..Len(chain') : i \in 1..Len(chain) \/ i = n
      BY <1>2
    <3>2. \A i, j \in 1..Len(chain) : chain[i] = chain[j] => i = j
      BY DEF QInv, OnePlace
    <3> QED BY <1>2, <1>3, <3>1, <3>2
  <2>2. \A i \in 1..Len(chain') : chain'[i] \notin heap'
    <3>1. \A i \in 1..Len(chain') : i \in 1..Len(chain) \/ i = n
      BY <1>2
    <3>2. e \notin heap /\ \A i \in 1..Len(chain) : chain[i] \notin heap
      BY <1>1 DEF QInv, OnePlace
    <3> QED BY <1>2, <3>1, <3>2 DEF Linking
  <2>3. /\ ~Owns(t)'
        /\ \A u \in Thread \ {t} : (Owns(u)' <=> Owns(u)) /\ elem'[u] = elem[u]
    BY <1>1 DEF Linking, Owns, Inserting, QInv, TypeOK
  <2>4. ASSUME NEW u \in Thread, Owns(u)', elem'[u] # Null
        PROVE  /\ elem'[u] \notin heap'
               /\ \A i \in 1..Len(chain') : chain'[i] # elem'[u]
               /\ \A v \in Thread \ {u} : Owns(v)' => elem'[v] # elem'[u]
    <3>1. u # t /\ Owns(u) /\ elem[u] # Null /\ elem'[u] = elem[u]
      BY <2>3, <2>4
    <3>2. /\ elem[u] \notin heap /\ elem[u] # e
          /\ \A i \in 1..Len(chain) : chain[i] # elem[u]
          /\ \A v \in Thread \ {u} : Owns(v) => elem[v] # elem[u]
      BY <1>1, <3>1 DEF QInv, OnePlace
    <3>3. \A i \in 1..Len(chain') : i \in 1..Len(chain) \/ i = n
      BY <1>2
    <3> QED BY <1>2, <2>3, <3>1, <3>2, <3>3 DEF Linking
  <2> QED BY <2>1, <2>2, <2>4 DEF OnePlace
<1> QED BY <1>5, <1>6 DEF ListInv

LEMMA UnlinkingList == ASSUME QInv, NEW t \in Thread, Unlinking(t) PROVE ListInv'
<1>1. /\ chain \in Seq(Block) /\ chain # <<>> /\ next \in [Block -> Pointer]
      /\ elem \in [Thread -> Pointer] /\ pc[t] \notin {"idle", "return"}
      /\ head = chain[1] /\ head \in Block /\ 1 \in 1..Len(chain)
      /\ tail = chain[Len(chain)] /\ tail \in Block
  BY ChainEnds DEF QInv, TypeOK, Unlinking
<1>2. /\ chain' = Tail(chain) /\ Len(chain) \in Nat /\ Len(chain) >= 1
      /\ Len(chain') = Len(chain) - 1
      /\ \A i \in 1..Len(chain') : chain'[i] = chain[i + 1] /\ i + 1 \in 1..Len(chain)
      /\ \A i \in 1..Len(chain) : chain[i] \in Block
      /\ chain' = <<>> <=> Len(chain) = 1
  BY <1>1, TailChain DEF Unlinking
<1>3. /\ \A i, j \in 1..Len(chain) : chain[i] = chain[j] => i = j
      /\ \A i \in 1..Len(chain) :
           /\ chain[i] \notin heap
           /\ next[chain[i]] = IF i = Len(chain) THEN Null ELSE chain[i + 1]
  BY DEF QInv, OnePlace, ListShape
<1>4. \A i \in 1..Len(chain') : i \in Nat /\ i + 1 # 1 /\ chain'[i] # head
  <2> TAKE i \in 1..Len(chain')
  <2>1. i \in Nat /\ i + 1 # 1 /\ i + 1 \in 1..Len(chain)
    BY <1>2
  <2>2. chain[i + 1] # chain[1]
    BY <1>1, <1>3, <2>1
  <2> QED BY <1>1, <1>2, <2>1, <2>2
<1>5. \A b \in Block : b # head => next'[b] = next[b]
  BY <1>1 DEF Unlinking
<1>6. ListShape'
  <2>1. CASE Len(chain) = 1
    <3>1. next[head] = Null /\ chain' = <<>>
      BY <1>1, <1>2, <1>3, <2>1
    <3>2. head' = Null /\ tail' = Null /\ Len(chain') = 0
      BY <1>2, <2>1, <3>1 DEF Unlinking, DesiredTail
    <3> QED BY <3>1, <3>2 DEF ListShape
  <2>2. CASE Len(chain) # 1
    <3>1. /\ 1 \in 1..Len(chain') /\ Len(chain') \in 1..Len(chain') /\ chain' # <<>>
          /\ Len(chain') + 1 = Len(chain) /\ 1 + 1 \in 1..Len(chain)
      BY <1>2, <2>2
    <3>2. next[head] = chain'[1]
      BY <1>1, <1>2, <1>3, <2>2, <3>1
    <3>3. head' = chain'[1] /\ tail' = chain'[Len(chain')]
      <4>1. next[head] \in Block
        BY <1>2, <3>1, <3>2
      <4> QED
        BY <1>1, <1>2, <3>1, <3>2, <4>1, QueueAssumption DEF Unlinking, DesiredTail
    <3>4. ASSUME NEW i \in 1..Len(chain')
          PROVE  next'[chain'[i]] = IF i = Len(chain') THEN Null ELSE chain'[i + 1]
      <4>1. next'[chain'[i]] = next[chain[i + 1]]
        BY <1>2, <1>4, <1>5
      <4>2. i # Len(chain') => i + 1 \in 1..Len(chain') /\ i + 1 # Len(chain)
        BY <1>2
      <4>3. i = Len(chain') => i + 1 = Len(chain)
        BY <1>2
      <4> QED BY <1>2, <1>3, <4>1, <4>2, <4>3
    <3> QED BY <3>1, <3>3, <3>4 DEF ListShape
  <2> QED BY <2>1, <2>2
<1>7. OnePlace'
  <2>1. \A i, j \in 1..Len(chain') : chain'[i] = chain'[j] => i = j
    <3> TAKE i, j \in 1..Len(chain')
    <3> HAVE chain'[i] = chain'[j]
    <3>1. i + 1 = j + 1
      BY <1>2, <1>3
    <3> QED BY <1>4, <3>1
  <2>2. \A i \in 1..Len(chain') : chain'[i] \notin heap'
    BY <1>2, <1>3 DEF Unlinking
  <2>3. /\ elem'[t] = head /\ ~Owns(t)
        /\ \A u \in Thread \ {t} : (Owns(u)' <=> Owns(u)) /\ elem'[u] = elem[u]
    BY <1>1 DEF Unlinking, Owns, Inserting, QInv, TypeOK
  <2>4. head \notin heap /\ \A u \in Thread : Owns(u) => elem[u] # head
    <3>1. head # Null
      BY <1>1, QueueAssumption
    <3> QED BY <1>1, <1>3, <3>1 DEF QInv, OnePlace
  <2>5. ASSUME NEW u \in Thread, Owns(u)', elem'[u] # Null
        PROVE  /\ elem'[u] \notin heap'
               /\ \A i \in 1..Len(chain') : chain'[i] # elem'[u]
               /\ \A v \in Thread \ {u} : Owns(v)' => elem'[v] # elem'[u]
    <3>1. CASE u = t
      <4>1. elem'[u] = head
        BY <2>3, <3>1
      <4>2. \A v \in Thread \ {u} : Owns(v)' => elem'[v] # head
        BY <2>3, <2>4, <3>1
      <4> QED BY <1>4, <2>4, <4>1, <4>2 DEF Unlinking
    <3>2. CASE u # t
      <4>1. Owns(u) /\ elem'[u] = elem[u] /\ elem[u] # Null
        BY <2>3, <2>5, <3>2
      <4>2. /\ elem[u] \notin heap /\ elem[u] # head
            /\ \A i \in 1..Len(chain) : chain[i] # elem[u]
            /\ \A v \in Thread \ {u} : Owns(v) => elem[v] # elem[u]
        BY <2>4, <4>1 DEF QInv, OnePlace
      <4>3. \A v \in Thread \ {u} : Owns(v)' => elem'[v] # elem'[u]
        BY <2>3, <4>1, <4>2
      <4> QED BY <1>2, <4>1, <4>2, <4>3 DEF Unlinking
    <3> QED BY <3>1, <3>2
  <2> QED BY <2>1, <2>2, <2>5 DEF OnePlace
<1> QED BY <1>6, <1>7 DEF ListInv

-----------------------------------------------------------------------------
(* The successful steps have that shape. *)

LEMMA EnqueueSwapLinks == ASSUME QInv, NEW t \in Thread, EnqueueSwap(t) PROVE Linking(t)
<1>1. pc[t] = "enqSwap" /\ counter = lock[t] /\ InWindow(t) /\ Inserting(t)
  BY DEF EnqueueSwap, EnqueueStore, InWindow, Inserting
<1>2. /\ newHead[t] = IF head = Null THEN elem[t] ELSE head
      /\ link[t] = tail
  BY <1>1, WindowIsValid DEF WindowValid
<1>3. tail = Null <=> head = Null
  BY ChainEnds
<1> QED
  BY <1>1, <1>2, <1>3 DEF EnqueueSwap, EnqueueStore, Linking, Linked, Set, Goto

LEMMA EnqueueAtOnceLinks == ASSUME QInv, NEW t \in Thread, EnqueueAtOnce(t) PROVE Linking(t)
  BY DEF EnqueueAtOnce, Linking, Inserting, Set, Goto

LEMMA DequeueSwapUnlinks ==
  ASSUME QInv, NEW t \in Thread, DequeueSwap(t)
  PROVE  Unlinking(t) /\ elem[t] = head
<1>1. pc[t] = "deqSwap" /\ counter = lock[t] /\ InWindow(t) /\ ~Inserting(t)
  BY DEF DequeueSwap, InWindow, Inserting
<1>2. /\ head # Null /\ elem[t] = head /\ newHead[t] = next[head]
      /\ newTail[t] = DesiredTail(newHead[t])
  BY <1>1, WindowIsValid DEF WindowValid
<1>3. elem' = elem /\ elem = [elem EXCEPT ![t] = head]
  BY <1>2 DEF DequeueSwap, QInv, TypeOK
<1> QED
  BY <1>1, <1>2, <1>3 DEF DequeueSwap, Unlinking, Set, Goto

LEMMA DequeueAtOnceUnlinks ==
  ASSUME QInv, NEW t \in Thread, DequeueAtOnce(t), head # Null
  PROVE  Unlinking(t)
  BY DEF DequeueAtOnce, Unlinking, Inserting, Set, Goto

-----------------------------------------------------------------------------
(* TypeOK and Places *)

LEMMA LocalsDoneType ==
  ASSUME TypeOK, NEW t \in Thread, LocalsDone(t)
  PROVE  /\ lock' \in [Thread -> 1..CounterMax]
         /\ newHead' \in [Thread -> Pointer] /\ newTail' \in [Thread -> Pointer]
         /\ last' \in [Thread -> Pointer] /\ link' \in [Thread -> Pointer]
<1>1. 1 \in 1..CounterMax /\ Null \in Pointer
  BY QueueAssumption DEF Pointer
<1> QED BY <1>1 DEF TypeOK, LocalsDone, Set

LEMMA TypeStep == ASSUME QInv, [Next]_vars PROVE TypeOK'
<1> USE QueueAssumption DEF headerVars, elementVars, localVars, Set, Goto, Pointer
<1>0. TypeOK /\ Places
  BY DEF QInv
<1>1. ASSUME NEW t \in Thread, NEW b \in Block, NEW v \in Value, InsertCall(t, b, v)
      PROVE  TypeOK'
  BY <1>0, <1>1 DEF TypeOK, InsertCall, PloPC, AtOncePC
<1>2. ASSUME NEW t \in Thread, RemoveCall(t) PROVE TypeOK'
  BY <1>0, <1>2 DEF TypeOK, RemoveCall, PloPC, AtOncePC
<1>3. ASSUME NEW t \in Thread, EnqueueReadCounter(t) PROVE TypeOK'
  BY <1>0, <1>3 DEF TypeOK, EnqueueReadCounter, ReadCounter, PloPC
<1>4. ASSUME NEW t \in Thread, EnqueueTestHead(t) \/ EnqueueReadHead(t) PROVE TypeOK'
  <2>1. newHead' \in [Thread -> Pointer]
    BY <1>0, <1>4 DEF TypeOK, EnqueueTestHead, EnqueueReadHead
  <2>2. pc' \in [Thread -> PloPC \cup AtOncePC \cup {"idle", "return"}]
    BY <1>0, <1>4 DEF TypeOK, EnqueueTestHead, EnqueueReadHead, PloPC
  <2> QED BY <1>0, <1>4, <2>1, <2>2 DEF TypeOK, EnqueueTestHead, EnqueueReadHead
<1>5. ASSUME NEW t \in Thread, EnqueueReadTail(t) PROVE TypeOK'
  BY <1>0, <1>5 DEF TypeOK, EnqueueReadTail, PloPC
<1>6. ASSUME NEW t \in Thread, EnqueueReadLink(t) PROVE TypeOK'
  BY <1>0, <1>6 DEF TypeOK, EnqueueReadLink, PloPC
<1>7. ASSUME NEW t \in Thread, EnqueueAgain(t) PROVE TypeOK'
  BY <1>0, <1>7 DEF TypeOK, EnqueueAgain, EnqueueRetry, PloPC
<1>8. ASSUME NEW t \in Thread, EnqueueSwap(t) PROVE TypeOK'
  <2>1. Linking(t) /\ elem[t] \in Block
    BY <1>8, EnqueueSwapLinks DEF QInv, Places, Linking
  <2>2. head' \in Pointer /\ tail' \in Pointer /\ next' \in [Block -> Pointer]
    BY <1>0, <2>1 DEF TypeOK, Linking
  <2>3. chain' \in Seq(Block)
    BY <1>0, <2>1, AppendChain DEF TypeOK, Linking
  <2>4. counter' \in 1..CounterMax
    BY <1>0, <1>8, NextCounter DEF TypeOK, EnqueueSwap, EnqueueStore
  <2>5. overtaken' \in [Thread -> Nat]
    BY <1>0, <1>8 DEF TypeOK, EnqueueSwap, EnqueueStore, Overtake
  <2>6. LocalsDone(t) /\ UNCHANGED <<data, heap>>
    BY <1>8 DEF EnqueueSwap, EnqueueStore
  <2>7. elem' \in [Thread -> Pointer]
        /\ pc' \in [Thread -> PloPC \cup AtOncePC \cup {"idle", "return"}]
    BY <1>0, <2>1 DEF TypeOK, Linking
  <2> QED
    BY <1>0, <2>2, <2>3, <2>4, <2>5, <2>6, <2>7, LocalsDoneType DEF TypeOK
<1>9. ASSUME NEW t \in Thread, EnqueueAtOnce(t) PROVE TypeOK'
  <2>1. Linking(t) /\ elem[t] \in Block
    BY <1>9, EnqueueAtOnceLinks DEF QInv, Places, Linking
  <2>2. head' \in Pointer /\ tail' \in Pointer /\ next' \in [Block -> Pointer]
    BY <1>0, <2>1 DEF TypeOK, Linking
  <2>3. chain' \in Seq(Block)
    BY <1>0, <2>1, AppendChain DEF TypeOK, Linking
  <2> QED BY <1>0, <1>9, <2>2, <2>3 DEF TypeOK, EnqueueAtOnce
<1>10. ASSUME NEW t \in Thread, DequeueReadCounter(t) PROVE TypeOK'
  BY <1>0, <1>10 DEF TypeOK, DequeueReadCounter, ReadCounter, PloPC
<1>11. ASSUME NEW t \in Thread, DequeueReadHead(t) PROVE TypeOK'
  <2>1. elem' \in [Thread -> Pointer] /\ overtaken' \in [Thread -> Nat]
        /\ pc' \in [Thread -> PloPC \cup AtOncePC \cup {"idle", "return"}]
    <3>1. CASE head = Null
      <4>1. /\ elem' = [elem EXCEPT ![t] = head] /\ overtaken' = [overtaken EXCEPT ![t] = 0]
            /\ pc' = [pc EXCEPT ![t] = "return"]
        BY <1>11, <3>1 DEF DequeueReadHead
      <4> QED BY <1>0, <4>1 DEF TypeOK
    <3>2. CASE head # Null
      BY <1>0, <1>11, <3>2 DEF TypeOK, DequeueReadHead, PloPC
    <3> QED BY <3>1, <3>2
  <2>2. LocalsDone(t) \/ UNCHANGED <<lock, newHead, newTail, last, link>>
    BY <1>11 DEF DequeueReadHead
  <2>3. UNCHANGED <<headerVars, elementVars>>
    BY <1>11 DEF DequeueReadHead
  <2> QED BY <1>0, <2>1, <2>2, <2>3, LocalsDoneType DEF TypeOK
<1>12. ASSUME NEW t \in Thread, DequeueLoad(t) PROVE TypeOK'
  <2>1. next[elem[t]] \in Pointer
    BY <1>0, <1>12 DEF TypeOK, Places, DequeueLoad
  <2> QED BY <1>0, <1>12, <2>1 DEF TypeOK, DequeueLoad, PloPC
<1>13. ASSUME NEW t \in Thread, DequeueReadTail(t) PROVE TypeOK'
  BY <1>0, <1>13 DEF TypeOK, DequeueReadTail, DesiredTail, PloPC
<1>14. ASSUME NEW t \in Thread, DequeueAgain(t) PROVE TypeOK'
  BY <1>0, <1>14 DEF TypeOK, DequeueAgain, ReadCounter, PloPC
<1>15. ASSUME NEW t \in Thread, DequeueSwap(t) PROVE TypeOK'
  <2>1. Unlinking(t) /\ elem[t] = head
    BY <1>15, DequeueSwapUnlinks
  <2>2. chain' \in Seq(Block)
    BY <1>0, <2>1, ChainEnds, TailChain DEF TypeOK, Unlinking
  <2>3. counter' \in 1..CounterMax
    BY <1>0, <1>15, NextCounter DEF TypeOK, DequeueSwap
  <2>4. overtaken' \in [Thread -> Nat]
    BY <1>0, <1>15 DEF TypeOK, DequeueSwap, Overtake
  <2>5. LocalsDone(t) /\ UNCHANGED <<data, heap>>
    BY <1>15 DEF DequeueSwap
  <2>6. head' \in Pointer /\ tail' \in Pointer /\ next' \in [Block -> Pointer]
    BY <1>0, <2>1 DEF TypeOK, Unlinking, DesiredTail
  <2>7. elem' \in [Thread -> Pointer]
        /\ pc' \in [Thread -> PloPC \cup AtOncePC \cup {"idle", "return"}]
    BY <1>0, <2>1 DEF TypeOK, Unlinking
  <2> QED
    BY <1>0, <2>2, <2>3, <2>4, <2>5, <2>6, <2>7, LocalsDoneType DEF TypeOK
<1>16. ASSUME NEW t \in Thread, DequeueTest(t) PROVE TypeOK'
  BY <1>0, <1>16 DEF TypeOK, DequeueTest, AtOncePC
<1>17. ASSUME NEW t \in Thread, DequeueAtOnce(t) PROVE TypeOK'
  <2>1. CASE head = Null
    BY <1>0, <1>17, <2>1 DEF TypeOK, DequeueAtOnce
  <2>2. CASE head # Null
    <3>1. Unlinking(t) /\ head \in Block
      BY <1>0, <1>17, <2>2, DequeueAtOnceUnlinks DEF TypeOK
    <3>2. chain' \in Seq(Block)
      BY <1>0, <3>1, ChainEnds, TailChain DEF TypeOK, Unlinking
    <3>3. head' \in Pointer /\ tail' \in Pointer /\ next' \in [Block -> Pointer]
      BY <1>0, <3>1 DEF TypeOK, Unlinking, DesiredTail
    <3> QED BY <1>0, <1>17, <3>2, <3>3 DEF TypeOK, DequeueAtOnce
  <2> QED BY <2>1, <2>2
<1>18. ASSUME NEW t \in Thread, RemoveReturn(t) PROVE TypeOK'
  BY <1>0, <1>18 DEF TypeOK, RemoveReturn
<1>19. CASE UNCHANGED vars
  BY <1>0, <1>19 DEF TypeOK, vars
<1> QED
  BY ONLY [Next]_vars, <1>1, <1>2, <1>3, <1>4, <1>5, <1>6, <1>7, <1>8, <1>9, <1>10,
     <1>11, <1>12, <1>13, <1>14, <1>15, <1>16, <1>17, <1>18, <1>19
  DEF Next, Call, Step

\* A step of one thread leaves the locals of the others alone.
LEMMA OthersKept ==
  ASSUME QInv, NEW t \in Thread, Call(t) \/ Step(t), NEW u \in Thread \ {t}
  PROVE  /\ pc'[u] = pc[u] /\ elem'[u] = elem[u] /\ lock'[u] = lock[u]
         /\ newHead'[u] = newHead[u] /\ newTail'[u] = newTail[u]
         /\ last'[u] = last[u] /\ link'[u] = link[u]
<1> DEFINE Kept == /\ pc'[u] = pc[u] /\ elem'[u] = elem[u] /\ lock'[u] = lock[u]
                   /\ newHead'[u] = newHead[u] /\ newTail'[u] = newTail[u]
                   /\ last'[u] = last[u] /\ link'[u] = link[u]
<1>0. TypeOK
  BY DEF QInv
<1>1. CASE Call(t)
  BY <1>0, <1>1 DEF TypeOK, Call, InsertCall, RemoveCall, localVars, Set, Goto
<1>2. CASE EnqueueReadCounter(t) \/ EnqueueTestHead(t) \/ EnqueueReadHead(t) \/ EnqueueReadTail(t)
           \/ EnqueueReadLink(t) \/ EnqueueAgain(t)
  BY <1>0, <1>2
  DEF TypeOK, EnqueueReadCounter, EnqueueTestHead, EnqueueReadHead, EnqueueReadTail, EnqueueReadLink,
      EnqueueAgain, EnqueueRetry, ReadCounter, Set, Goto
<1>3. CASE EnqueueSwap(t)
  BY <1>0, <1>3 DEF TypeOK, EnqueueSwap, EnqueueStore, LocalsDone, Set, Goto
<1>4. CASE EnqueueAtOnce(t) \/ DequeueAtOnce(t) \/ DequeueTest(t) \/ RemoveReturn(t)
  BY <1>0, <1>4
  DEF TypeOK, EnqueueAtOnce, DequeueAtOnce, DequeueTest, RemoveReturn, localVars, Set, Goto
<1>5. CASE DequeueReadCounter(t) \/ DequeueLoad(t) \/ DequeueReadTail(t) \/ DequeueAgain(t)
  BY <1>0, <1>5
  DEF TypeOK, DequeueReadCounter, DequeueLoad, DequeueReadTail, DequeueAgain,
      ReadCounter, Set, Goto
<1>6. CASE DequeueReadHead(t)
  <2>1. CASE head = Null
    BY <1>0, <1>6, <2>1 DEF TypeOK, DequeueReadHead, LocalsDone, Set, Goto
  <2>2. CASE head # Null
    BY <1>0, <1>6, <2>2 DEF TypeOK, DequeueReadHead, Set, Goto
  <2> QED BY <2>1, <2>2
<1>7. CASE DequeueSwap(t)
  BY <1>0, <1>7 DEF TypeOK, DequeueSwap, LocalsDone, Set, Goto
<1> HIDE DEF Kept
<1> QED BY <1>1, <1>2, <1>3, <1>4, <1>5, <1>6, <1>7 DEF Step, Kept

\* What a step of t does to its own place.
PlaceOf(t) ==
  /\ Serialization = "plo" => pc[t] \notin AtOncePC
  /\ Serialization # "plo" => pc[t] \notin PloPC
  /\ Inserting(t) => elem[t] \in Block /\ next[elem[t]] = Null
  /\ pc[t] \in {"deqLoad", "deqTail", "deqSwap"} => elem[t] \in Block
  /\ pc[t] \in {"idle", "deqTest"} => elem[t] = Null

\* The next pointer of an element that is being inserted is left alone.
LEMMA NextKept ==
  ASSUME QInv, NEW t \in Thread, Call(t) \/ Step(t),
         NEW u \in Thread \ {t}, Inserting(u)
  PROVE  next'[elem[u]] = Null
<1>0. /\ elem[u] \in Block /\ next[elem[u]] = Null /\ elem[u] # Null /\ Owns(u)
      /\ elem[u] \notin heap /\ \A i \in 1..Len(chain) : chain[i] # elem[u]
      /\ next \in [Block -> Pointer] /\ chain \in Seq(Block)
  BY QueueAssumption DEF QInv, Places, Owns, OnePlace, TypeOK
<1>1. CASE UNCHANGED next
  BY <1>0, <1>1
<1>2. CASE Linking(t)
  <2>1. tail # Null => elem[u] # tail
    BY <1>0, ChainEnds
  <2> QED BY <1>0, <1>2, <2>1 DEF Linking
<1>3. CASE Unlinking(t)
  BY <1>0, <1>3 DEF Unlinking
<1>4. ASSUME NEW b \in Block, NEW v \in Value, InsertCall(t, b, v) PROVE next'[elem[u]] = Null
  BY <1>0, <1>4 DEF InsertCall, Set
<1>5. \/ UNCHANGED next \/ Linking(t) \/ Unlinking(t)
      \/ \E b \in Block, v \in Value : InsertCall(t, b, v)
  <2>1. CASE Call(t)
    BY <2>1 DEF Call, RemoveCall, elementVars
  <2>2. CASE EnqueueSwap(t) \/ EnqueueAtOnce(t) \/ DequeueSwap(t)
    BY <2>2, EnqueueSwapLinks, EnqueueAtOnceLinks, DequeueSwapUnlinks
  <2>3. CASE DequeueAtOnce(t)
    <3>1. CASE head = Null
      BY <2>3, <3>1 DEF DequeueAtOnce
    <3> QED BY <2>3, <3>1, DequeueAtOnceUnlinks
  <2>4. CASE EnqueueReadCounter(t) \/ EnqueueTestHead(t) \/ EnqueueReadHead(t) \/ EnqueueReadTail(t)
             \/ EnqueueReadLink(t) \/ EnqueueAgain(t)
    BY <2>4
    DEF EnqueueReadCounter, EnqueueTestHead, EnqueueReadHead, EnqueueReadTail, EnqueueReadLink,
        EnqueueAgain, EnqueueRetry, elementVars
  <2>5. CASE DequeueReadCounter(t) \/ DequeueReadHead(t) \/ DequeueLoad(t)
             \/ DequeueReadTail(t) \/ DequeueAgain(t) \/ DequeueTest(t) \/ RemoveReturn(t)
    BY <2>5
    DEF DequeueReadCounter, DequeueReadHead, DequeueLoad, DequeueReadTail, DequeueAgain,
        DequeueTest, RemoveReturn, elementVars
  <2> QED BY <2>1, <2>2, <2>3, <2>4, <2>5 DEF Step
<1> QED BY <1>1, <1>2, <1>3, <1>4, <1>5

LEMMA OwnPlace == ASSUME QInv, NEW t \in Thread, Call(t) \/ Step(t) PROVE PlaceOf(t)'
<1> USE QueueAssumption DEF Set, Goto
<1>0. /\ PlaceOf(t) /\ TypeOK /\ Null \notin Block
      /\ Serialization' = Serialization
  BY DEF QInv, Places, PlaceOf
<1>1. ASSUME NEW b \in Block, NEW v \in Value, InsertCall(t, b, v) PROVE PlaceOf(t)'
  <2>1. elem'[t] = b /\ next'[b] = Null
    BY <1>0, <1>1 DEF InsertCall, TypeOK
  <2>2. pc'[t] = CASE Serialization = "plo" -> "enqCounter"
                   [] Serialization = "tx" -> "enqTransaction"
                   [] Serialization = "mutex" -> "enqLocked"
    BY <1>0, <1>1 DEF InsertCall, TypeOK
  <2> QED BY <1>0, <2>1, <2>2 DEF PlaceOf, PloPC, AtOncePC, Inserting
<1>2. CASE RemoveCall(t)
  <2>1. elem'[t] = Null
    BY <1>0, <1>2 DEF RemoveCall, localVars, PlaceOf
  <2>2. pc'[t] = CASE Serialization = "plo" -> "deqCounter"
                   [] Serialization = "tx" -> "deqTest"
                   [] Serialization = "mutex" -> "deqLocked"
    BY <1>0, <1>2 DEF RemoveCall, TypeOK
  <2> QED BY <1>0, <2>1, <2>2 DEF PlaceOf, PloPC, AtOncePC, Inserting
<1>3. CASE EnqueueReadCounter(t) \/ EnqueueTestHead(t) \/ EnqueueReadHead(t) \/ EnqueueReadTail(t)
           \/ EnqueueReadLink(t) \/ EnqueueAgain(t)
  <2>1. /\ elem'[t] = elem[t] /\ next' = next /\ Inserting(t)
        /\ pc[t] \in PloPC /\ pc'[t] \in {"enqHead", "enqRead", "enqTail", "enqLink", "enqSwap"}
    BY <1>0, <1>3
    DEF TypeOK, EnqueueReadCounter, EnqueueTestHead, EnqueueReadHead, EnqueueReadTail, EnqueueReadLink,
        EnqueueAgain, EnqueueRetry, elementVars, Inserting, PloPC
  <2> QED BY <1>0, <2>1 DEF PlaceOf, PloPC, AtOncePC, Inserting
<1>4. CASE EnqueueSwap(t) \/ EnqueueAtOnce(t)
  <2>1. Linking(t)
    BY <1>4, EnqueueSwapLinks, EnqueueAtOnceLinks
  <2>2. elem'[t] = Null /\ pc'[t] = "idle"
    BY <1>0, <2>1 DEF Linking, TypeOK
  <2> QED BY <1>0, <2>2 DEF PlaceOf, PloPC, AtOncePC, Inserting
<1>5. CASE DequeueReadCounter(t) \/ DequeueReadHead(t) \/ DequeueAgain(t)
  <2>1. /\ pc[t] \in PloPC
        /\ \/ pc'[t] \in {"deqHead", "return"}
           \/ pc'[t] = "deqLoad" /\ elem'[t] = head /\ head # Null
    BY <1>0, <1>5
    DEF TypeOK, DequeueReadCounter, DequeueReadHead, DequeueAgain, PloPC
  <2> QED BY <1>0, <2>1 DEF PlaceOf, PloPC, AtOncePC, Inserting, TypeOK, Pointer
<1>6. CASE DequeueLoad(t) \/ DequeueReadTail(t)
  <2>1. /\ pc[t] \in {"deqLoad", "deqTail"} /\ elem'[t] = elem[t]
        /\ pc'[t] \in {"deqTail", "deqSwap"}
    BY <1>0, <1>6 DEF TypeOK, DequeueLoad, DequeueReadTail
  <2> QED BY <1>0, <2>1 DEF PlaceOf, PloPC, AtOncePC, Inserting
<1>7. CASE DequeueSwap(t) \/ DequeueAtOnce(t)
  <2>1. pc'[t] = "return"
    BY <1>0, <1>7 DEF TypeOK, DequeueSwap, DequeueAtOnce
  <2> QED BY <1>0, <2>1 DEF PlaceOf, PloPC, AtOncePC, Inserting
<1>8. CASE DequeueTest(t)
  <2>1. pc[t] = "deqTest" /\ pc'[t] \in {"return", "deqTransaction"}
    BY <1>0, <1>8 DEF TypeOK, DequeueTest
  <2> QED BY <1>0, <2>1 DEF PlaceOf, PloPC, AtOncePC, Inserting
<1>9. CASE RemoveReturn(t)
  <2>1. pc'[t] = "idle" /\ elem'[t] = Null
    BY <1>0, <1>9 DEF TypeOK, RemoveReturn
  <2> QED BY <1>0, <2>1 DEF PlaceOf, PloPC, AtOncePC, Inserting
<1> QED
  BY <1>1, <1>2, <1>3, <1>4, <1>5, <1>6, <1>7, <1>8, <1>9 DEF Call, Step

LEMMA PlacesStep == ASSUME QInv, [Next]_vars PROVE Places'
<1>1. ASSUME NEW t \in Thread, Call(t) \/ Step(t), NEW u \in Thread PROVE PlaceOf(u)'
  <2>1. CASE u = t
    BY <1>1, <2>1, OwnPlace
  <2>2. CASE u # t
    <3>1. pc'[u] = pc[u] /\ elem'[u] = elem[u]
      BY <1>1, <2>2, OthersKept
    <3>2. Inserting(u) => next'[elem[u]] = Null
      BY <1>1, <2>2, NextKept
    <3>3. PlaceOf(u)
      BY DEF QInv, Places, PlaceOf
    <3>4. Inserting(u)' <=> Inserting(u)
      BY <3>1 DEF Inserting
    <3> QED BY <3>1, <3>2, <3>3, <3>4 DEF PlaceOf
  <2> QED BY <2>1, <2>2
<1>2. (\A u \in Thread : PlaceOf(u)') => Places'
  BY DEF Places, PlaceOf
<1>3. CASE UNCHANGED vars
  BY <1>3 DEF QInv, Places, Inserting, vars, elementVars, localVars
<1> QED BY <1>1, <1>2, <1>3 DEF Next

-----------------------------------------------------------------------------
(* ListShape and OnePlace *)

\* A step that changes neither the list nor the heap, and makes no thread the
\* owner of an element.
LEMMA QuietList ==
  ASSUME QInv, UNCHANGED <<head, tail, next, chain, heap>>,
         \A u \in Thread : Owns(u)' /\ elem'[u] # Null => Owns(u) /\ elem'[u] = elem[u]
  PROVE  ListInv'
<1>1. ListShape'
  BY DEF QInv, ListShape
<1>2. OnePlace'
  <2>1. ASSUME NEW u \in Thread, Owns(u)', elem'[u] # Null
        PROVE  /\ elem'[u] \notin heap'
               /\ \A i \in 1..Len(chain') : chain'[i] # elem'[u]
               /\ \A v \in Thread \ {u} : Owns(v)' => elem'[v] # elem'[u]
    <3>1. Owns(u) /\ elem'[u] = elem[u]
      BY <2>1
    <3>2. /\ elem[u] \notin heap /\ \A i \in 1..Len(chain) : chain[i] # elem[u]
          /\ \A v \in Thread \ {u} : Owns(v) => elem[v] # elem[u]
      BY <2>1, <3>1 DEF QInv, OnePlace
    <3>3. \A v \in Thread \ {u} : Owns(v)' => elem'[v] # elem'[u]
      BY <2>1, <3>1, <3>2
    <3> QED BY <3>1, <3>2, <3>3
  <2> QED BY <2>1 DEF QInv, OnePlace
<1> QED BY <1>1, <1>2 DEF ListInv

\* Storage is taken from the heap.
LEMMA InsertCallList ==
  ASSUME QInv, NEW t \in Thread, NEW b \in Block, NEW v \in Value, InsertCall(t, b, v)
  PROVE  ListInv'
<1>1. /\ pc[t] = "idle" /\ b \in heap /\ heap' = heap \ {b} /\ chain' = chain
      /\ head' = head /\ tail' = tail /\ elem' = [elem EXCEPT ![t] = b]
      /\ next' = [next EXCEPT ![b] = Null]
      /\ next \in [Block -> Pointer] /\ elem \in [Thread -> Pointer]
  BY DEF InsertCall, headerVars, Set, QInv, TypeOK
<1>2. /\ \A i \in 1..Len(chain) : chain[i] # b
      /\ \A u \in Thread : Owns(u) /\ elem[u] # Null => elem[u] # b
  BY <1>1 DEF QInv, OnePlace
<1>3. \A i \in 1..Len(chain) : next'[chain[i]] = next[chain[i]]
  <2>1. \A i \in 1..Len(chain) : chain[i] \in Block
    BY AppendChain DEF QInv, TypeOK
  <2> QED BY <1>1, <1>2, <2>1
<1>4. ListShape'
  BY <1>1, <1>3 DEF QInv, ListShape
<1>5. \A u \in Thread \ {t} : (Owns(u)' <=> Owns(u)) /\ elem'[u] = elem[u]
  BY OthersKept DEF Call, Owns, Inserting
<1>6. ASSUME NEW u \in Thread, Owns(u)', elem'[u] # Null
      PROVE  /\ elem'[u] \notin heap'
             /\ \A i \in 1..Len(chain') : chain'[i] # elem'[u]
             /\ \A w \in Thread \ {u} : Owns(w)' => elem'[w] # elem'[u]
  <2>1. CASE u = t
    <3>1. elem'[t] = b /\ b # Null
      BY <1>1, QueueAssumption
    <3>2. \A w \in Thread \ {t} : Owns(w)' => elem'[w] # b
      BY <1>2, <1>5, <3>1
    <3> QED BY <1>1, <1>2, <2>1, <3>1, <3>2
  <2>2. CASE u # t
    <3>1. Owns(u) /\ elem'[u] = elem[u] /\ elem[u] # Null /\ elem[u] # b
      BY <1>2, <1>5, <1>6, <2>2
    <3>2. /\ elem[u] \notin heap /\ \A i \in 1..Len(chain) : chain[i] # elem[u]
          /\ \A w \in Thread \ {u} : Owns(w) => elem[w] # elem[u]
      BY <3>1 DEF QInv, OnePlace
    <3>3. elem'[t] = b
      BY <1>1
    <3>4. \A w \in Thread \ {u} : Owns(w)' => elem'[w] # elem'[u]
      BY <1>5, <3>1, <3>2, <3>3
    <3> QED BY <1>1, <3>1, <3>2, <3>4
  <2> QED BY <2>1, <2>2
<1>7. OnePlace'
  BY <1>1, <1>6 DEF QInv, OnePlace
<1> QED BY <1>4, <1>7 DEF ListInv

\* Storage goes back to the heap.
LEMMA RemoveReturnList ==
  ASSUME QInv, NEW t \in Thread, RemoveReturn(t) PROVE ListInv'
<1>1. /\ pc[t] = "return" /\ heap' = heap \cup ({elem[t]} \cap Block) /\ chain' = chain
      /\ head' = head /\ tail' = tail /\ next' = next /\ Owns(t) /\ ~Owns(t)'
      /\ Null \notin Block
  BY QueueAssumption DEF RemoveReturn, headerVars, Goto, QInv, TypeOK, Owns, Inserting
<1>2. ListShape'
  BY <1>1 DEF QInv, ListShape
<1>3. \A u \in Thread \ {t} : (Owns(u)' <=> Owns(u)) /\ elem'[u] = elem[u]
  BY OthersKept DEF Step, Owns, Inserting
<1>4. \A i \in 1..Len(chain) : chain[i] \notin heap'
  <2>1. elem[t] \in Block => \A i \in 1..Len(chain) : chain[i] # elem[t]
    BY <1>1 DEF QInv, OnePlace
  <2> QED BY <1>1, <2>1 DEF QInv, OnePlace
<1>5. ASSUME NEW u \in Thread, Owns(u)', elem'[u] # Null
      PROVE  /\ elem'[u] \notin heap'
             /\ \A i \in 1..Len(chain') : chain'[i] # elem'[u]
             /\ \A w \in Thread \ {u} : Owns(w)' => elem'[w] # elem'[u]
  <2>1. u # t /\ Owns(u) /\ elem'[u] = elem[u] /\ elem[u] # Null
    BY <1>1, <1>3, <1>5
  <2>2. /\ elem[u] \notin heap /\ \A i \in 1..Len(chain) : chain[i] # elem[u]
        /\ \A w \in Thread \ {u} : Owns(w) => elem[w] # elem[u]
    BY <2>1 DEF QInv, OnePlace
  <2>3. elem[u] # elem[t]
    BY <1>1, <2>1, <2>2
  <2>4. \A w \in Thread \ {u} : Owns(w)' => elem'[w] # elem'[u]
    BY <1>1, <1>3, <2>1, <2>2
  <2> QED BY <1>1, <2>1, <2>2, <2>3, <2>4
<1>6. OnePlace'
  BY <1>1, <1>4, <1>5 DEF QInv, OnePlace
<1> QED BY <1>2, <1>6 DEF ListInv

LEMMA ListStep == ASSUME QInv, [Next]_vars PROVE ListInv'
<1>0. TypeOK /\ Places
  BY DEF QInv
<1>1. ASSUME NEW t \in Thread, NEW b \in Block, NEW v \in Value, InsertCall(t, b, v)
      PROVE  ListInv'
  BY <1>1, InsertCallList
<1>2. ASSUME NEW t \in Thread, RemoveReturn(t) PROVE ListInv'
  BY <1>2, RemoveReturnList
<1>3. ASSUME NEW t \in Thread, EnqueueSwap(t) \/ EnqueueAtOnce(t) PROVE ListInv'
  BY <1>3, EnqueueSwapLinks, EnqueueAtOnceLinks, LinkingList
<1>4. ASSUME NEW t \in Thread, DequeueSwap(t) \/ (DequeueAtOnce(t) /\ head # Null)
      PROVE  ListInv'
  BY <1>4, DequeueSwapUnlinks, DequeueAtOnceUnlinks, UnlinkingList
<1>5. ASSUME NEW t \in Thread, Call(t) \/ Step(t),
             UNCHANGED <<head, tail, next, chain, heap>>,
             Owns(t)' /\ elem'[t] # Null => Owns(t) /\ elem'[t] = elem[t]
      PROVE  ListInv'
  <2>1. \A u \in Thread \ {t} : (Owns(u)' <=> Owns(u)) /\ elem'[u] = elem[u]
    BY <1>5, OthersKept DEF Owns, Inserting
  <2> QED BY <1>5, <2>1, QuietList
<1>6. ASSUME NEW t \in Thread,
             EnqueueReadCounter(t) \/ EnqueueTestHead(t) \/ EnqueueReadHead(t) \/ EnqueueReadTail(t)
               \/ EnqueueReadLink(t) \/ EnqueueAgain(t)
      PROVE  ListInv'
  <2>1. UNCHANGED <<head, tail, next, chain, heap>> /\ Owns(t) /\ elem' = elem
    BY <1>6
    DEF EnqueueReadCounter, EnqueueTestHead, EnqueueReadHead, EnqueueReadTail, EnqueueReadLink,
        EnqueueAgain, EnqueueRetry, elementVars, headerVars, Owns, Inserting
  <2> QED BY <1>5, <1>6, <2>1 DEF Step
<1>7. ASSUME NEW t \in Thread,
             RemoveCall(t) \/ DequeueReadCounter(t) \/ DequeueReadHead(t)
               \/ DequeueLoad(t) \/ DequeueReadTail(t) \/ DequeueAgain(t)
               \/ DequeueTest(t) \/ (DequeueAtOnce(t) /\ head = Null)
      PROVE  ListInv'
  <2>1. UNCHANGED <<head, tail, next, chain, heap>>
    BY <1>7
    DEF RemoveCall, DequeueReadCounter, DequeueReadHead, DequeueLoad, DequeueReadTail,
        DequeueAgain, DequeueTest, DequeueAtOnce, elementVars, headerVars
  <2>2. ~Owns(t)' \/ elem'[t] = Null
    <3>1. CASE RemoveCall(t)
      <4>1. pc'[t] \in {"deqCounter", "deqTest", "deqLocked"}
        BY <1>0, <3>1, QueueAssumption DEF RemoveCall, TypeOK, Goto
      <4> QED BY <4>1 DEF Owns, Inserting
    <3>2. CASE DequeueReadCounter(t) \/ DequeueLoad(t) \/ DequeueReadTail(t)
               \/ DequeueAgain(t)
      <4>1. pc'[t] \in {"deqHead", "deqTail", "deqSwap"}
        BY <1>0, <3>2
        DEF DequeueReadCounter, DequeueLoad, DequeueReadTail, DequeueAgain, TypeOK, Goto
      <4> QED BY <4>1 DEF Owns, Inserting
    <3>3. CASE DequeueReadHead(t)
      <4>1. elem'[t] = Null \/ pc'[t] = "deqLoad"
        BY <1>0, <3>3 DEF DequeueReadHead, TypeOK, Goto, Set
      <4> QED BY <4>1 DEF Owns, Inserting
    <3>4. CASE DequeueTest(t)
      BY <1>0, <3>4 DEF DequeueTest, localVars, Places
    <3>5. CASE DequeueAtOnce(t) /\ head = Null
      BY <1>0, <3>5 DEF DequeueAtOnce, TypeOK, Set
    <3> QED BY <1>7, <3>1, <3>2, <3>3, <3>4, <3>5
  <2> QED BY <1>5, <1>7, <2>1, <2>2 DEF Step, Call
<1>8. CASE UNCHANGED vars
  <2>1. UNCHANGED <<head, tail, next, chain, heap, elem, pc>>
    BY <1>8 DEF vars, headerVars, elementVars, localVars
  <2> QED BY <2>1, QuietList DEF Owns, Inserting
<1> QED
  BY ONLY [Next]_vars, <1>1, <1>2, <1>3, <1>4, <1>6, <1>7, <1>8 DEF Next, Call, Step

-----------------------------------------------------------------------------
(* Stamps and WindowFresh *)

\* Only the two successful PLOs overtake; elsewhere a window is unchanged,
\* opened with a fresh copy of the counter, or closed.
StampOf(t) == overtaken[t] < CounterMax /\ counter = Advanced(lock[t], overtaken[t])

LEMMA SwapStamps ==
  ASSUME QInv, NEW t \in Thread, EnqueueSwap(t) \/ DequeueSwap(t),
         NEW u \in Thread, InWindow(u)'
  PROVE  StampOf(u)' /\ overtaken'[u] # 0
<1>0. TypeOK
  BY DEF QInv
<1>1. /\ counter = lock[t] /\ counter' = NewCounter(counter) /\ NotLapped(t)
      /\ Overtake(t) /\ pc'[t] \in {"idle", "return"}
  BY <1>0 DEF EnqueueSwap, EnqueueStore, DequeueSwap, Goto, TypeOK
<1>2. u # t
  BY <1>1 DEF InWindow
<1>3. pc'[u] = pc[u] /\ lock'[u] = lock[u]
  BY <1>2, OthersKept DEF Step
<1>4. InWindow(u) /\ overtaken'[u] = overtaken[u] + 1 /\ overtaken[u] + 1 < CounterMax
  BY <1>0, <1>1, <1>2, <1>3 DEF InWindow, Overtake, NotLapped, TypeOK
<1>5. /\ counter \in 1..CounterMax /\ lock[u] \in 1..CounterMax /\ overtaken[u] \in Nat
      /\ counter = Advanced(lock[u], overtaken[u])
  BY <1>0, <1>4 DEF TypeOK, QInv, Stamps
<1>6. counter' = Advanced(lock[u], overtaken[u] + 1)
  BY <1>1, <1>4, <1>5, NextCounter
<1>7. overtaken[u] + 1 # 0
  BY <1>5
<1> QED BY <1>3, <1>4, <1>6, <1>7 DEF StampOf, Advanced

\* The other steps.
LEMMA QuietStamps ==
  ASSUME QInv, NEW t \in Thread, Call(t) \/ Step(t), ~EnqueueSwap(t), ~DequeueSwap(t)
  PROVE  /\ counter' = counter
         /\ \A u \in Thread \ {t} : overtaken'[u] = overtaken[u]
         /\ InWindow(t)' => \/ lock'[t] = counter /\ overtaken'[t] = 0
                            \/ /\ InWindow(t) /\ lock'[t] = lock[t]
                               /\ overtaken'[t] = overtaken[t]
<1> DEFINE Goal == /\ counter' = counter
                   /\ \A u \in Thread \ {t} : overtaken'[u] = overtaken[u]
                   /\ InWindow(t)' => \/ lock'[t] = counter /\ overtaken'[t] = 0
                                      \/ /\ InWindow(t) /\ lock'[t] = lock[t]
                                         /\ overtaken'[t] = overtaken[t]
<1> USE DEF Set, Goto
<1>0. TypeOK
  BY DEF QInv
<1>1. CASE Call(t) \/ EnqueueAtOnce(t) \/ DequeueTest(t) \/ DequeueAtOnce(t) \/ RemoveReturn(t)
  <2>1. counter' = counter /\ overtaken' = overtaken
    BY <1>1
    DEF Call, RemoveCall, InsertCall, EnqueueAtOnce, DequeueTest, DequeueAtOnce,
        RemoveReturn, headerVars
  <2>2. ~InWindow(t)'
    <3>1. CASE Call(t)
      <4>1. pc'[t] \in {"enqCounter", "enqTransaction", "enqLocked",
                        "deqCounter", "deqTest", "deqLocked"}
        BY <1>0, <3>1, QueueAssumption DEF Call, RemoveCall, InsertCall, TypeOK
      <4> QED BY <4>1 DEF InWindow
    <3>2. CASE ~Call(t)
      <4>1. pc'[t] \in {"idle", "return", "deqTransaction"}
        BY <1>0, <1>1, <3>2
        DEF EnqueueAtOnce, DequeueTest, DequeueAtOnce, RemoveReturn, TypeOK
      <4> QED BY <4>1 DEF InWindow
    <3> QED BY <3>1, <3>2
  <2> QED BY <2>1, <2>2
<1>2. CASE EnqueueReadCounter(t) \/ DequeueReadCounter(t) \/ EnqueueAgain(t) \/ DequeueAgain(t)
  BY <1>0, <1>2
  DEF TypeOK, EnqueueReadCounter, DequeueReadCounter, EnqueueAgain, EnqueueRetry,
      DequeueAgain, ReadCounter, headerVars
<1>3. CASE EnqueueTestHead(t) \/ EnqueueReadHead(t) \/ EnqueueReadTail(t) \/ EnqueueReadLink(t)
           \/ DequeueLoad(t) \/ DequeueReadTail(t)
  BY <1>0, <1>3
  DEF TypeOK, EnqueueTestHead, EnqueueReadHead, EnqueueReadTail, EnqueueReadLink, DequeueLoad,
      DequeueReadTail, headerVars, InWindow
<1>4. CASE DequeueReadHead(t)
  <2>1. counter' = counter /\ \A u \in Thread \ {t} : overtaken'[u] = overtaken[u]
    BY <1>0, <1>4 DEF DequeueReadHead, headerVars, TypeOK
  <2>2. CASE head = Null
    BY <1>0, <1>4, <2>1, <2>2 DEF DequeueReadHead, InWindow, TypeOK
  <2>3. CASE head # Null
    BY <1>0, <1>4, <2>1, <2>3 DEF DequeueReadHead, InWindow, TypeOK
  <2> QED BY <2>2, <2>3
<1> HIDE DEF Goal
<1>5. Goal
  BY <1>1, <1>2, <1>3, <1>4 DEF Step, Goal
<1> QED BY <1>5 DEF Goal

LEMMA StampsStep == ASSUME QInv, [Next]_vars PROVE Stamps'
<1>1. ASSUME NEW t \in Thread, EnqueueSwap(t) \/ DequeueSwap(t) PROVE Stamps'
  BY <1>1, SwapStamps DEF Stamps, StampOf
<1>2. ASSUME NEW t \in Thread, Call(t) \/ Step(t), ~EnqueueSwap(t), ~DequeueSwap(t)
      PROVE  Stamps'
  <2>1. ASSUME NEW u \in Thread, InWindow(u)' PROVE StampOf(u)'
    <3>1. CASE InWindow(u) /\ lock'[u] = lock[u] /\ overtaken'[u] = overtaken[u]
      BY <1>2, <3>1, QuietStamps DEF QInv, Stamps, StampOf, Advanced
    <3>2. CASE lock'[u] = counter /\ overtaken'[u] = 0
      <4>1. counter \in 1..CounterMax /\ counter' = counter
        BY <1>2, QuietStamps DEF QInv, TypeOK
      <4> QED BY <3>2, <4>1, QueueAssumption DEF StampOf, Advanced
    <3>3. CASE u # t
      <4>1. InWindow(u) /\ lock'[u] = lock[u] /\ overtaken'[u] = overtaken[u]
        BY <1>2, <2>1, <3>3, OthersKept, QuietStamps DEF InWindow
      <4> QED BY <3>1, <4>1
    <3> QED BY <1>2, <2>1, <3>1, <3>2, <3>3, QuietStamps
  <2> QED BY <2>1 DEF Stamps, StampOf
<1>3. CASE UNCHANGED vars
  BY <1>3 DEF vars, headerVars, localVars, QInv, Stamps, InWindow, Advanced
<1> QED BY <1>1, <1>2, <1>3 DEF Next

FreshAt(t) ==
  /\ pc[t] = "enqRead" => head # Null
  /\ pc[t] \in {"enqTail", "enqLink", "enqSwap"} =>
       newHead[t] = IF head = Null THEN elem[t] ELSE head
  /\ pc[t] = "enqLink" => last[t] = tail
  /\ pc[t] = "enqSwap" => link[t] = tail
  /\ pc[t] \in {"deqLoad", "deqTail", "deqSwap"} => head # Null /\ elem[t] = head
  /\ pc[t] \in {"deqTail", "deqSwap"} => newHead[t] = next[head]
  /\ pc[t] = "deqSwap" => newTail[t] = DesiredTail(newHead[t])

LEMMA CallOutside == ASSUME TypeOK, NEW t \in Thread, Call(t) PROVE ~InWindow(t)'
<1>1. pc'[t] \in {"enqCounter", "enqTransaction", "enqLocked",
                  "deqCounter", "deqTest", "deqLocked"}
  BY QueueAssumption DEF Call, RemoveCall, InsertCall, TypeOK, Goto
<1> QED BY <1>1 DEF InWindow

\* The serializations do not mix: while a window is open only a PLO, an
\* allocation or a release changes the header or an element.
LEMMA HeaderKept ==
  ASSUME QInv, NEW t \in Thread, Call(t) \/ Step(t), ~EnqueueSwap(t), ~DequeueSwap(t),
         NEW u \in Thread, InWindow(u)
  PROVE  head' = head /\ tail' = tail /\ (head # Null => next'[head] = next[head])
<1>1. Serialization = "plo" /\ pc[t] \notin AtOncePC
  BY DEF QInv, Places, InWindow, PloPC
<1>2. ~EnqueueAtOnce(t) /\ ~DequeueAtOnce(t)
  BY <1>1 DEF EnqueueAtOnce, DequeueAtOnce, AtOncePC
<1>3. head' = head /\ tail' = tail
  BY <1>2
  DEF Call, Step, InsertCall, RemoveCall, EnqueueReadCounter, EnqueueTestHead, EnqueueReadHead,
      EnqueueReadTail, EnqueueReadLink, EnqueueAgain, EnqueueRetry, DequeueReadCounter,
      DequeueReadHead, DequeueLoad, DequeueReadTail, DequeueAgain, DequeueTest,
      RemoveReturn, headerVars
<1>4. ASSUME NEW b \in Block, NEW v \in Value, InsertCall(t, b, v), head # Null
      PROVE  next'[head] = next[head]
  <2>1. head # b /\ head \in Block
    BY <1>4, ChainEnds DEF QInv, OnePlace, InsertCall
  <2> QED BY <1>4, <2>1 DEF InsertCall, Set, QInv, TypeOK
<1>5. CASE ~\E b \in Block, v \in Value : InsertCall(t, b, v)
  <2>1. next' = next
    BY <1>2, <1>5
    DEF Call, Step, RemoveCall, EnqueueReadCounter, EnqueueTestHead, EnqueueReadHead,
        EnqueueReadTail, EnqueueReadLink, EnqueueAgain, EnqueueRetry, DequeueReadCounter,
        DequeueReadHead, DequeueLoad, DequeueReadTail, DequeueAgain, DequeueTest,
        RemoveReturn, elementVars
  <2> QED BY <1>3, <2>1
<1> QED BY <1>3, <1>4, <1>5

\* What a thread has just read.
LEMMA OwnFresh ==
  ASSUME QInv, NEW t \in Thread, Step(t), ~EnqueueSwap(t), ~DequeueSwap(t),
         InWindow(t)', overtaken'[t] = 0, InWindow(t) \/ lock'[t] = counter
  PROVE  FreshAt(t)'
<1> USE DEF Set, Goto
<1>0. TypeOK /\ (InWindow(t) /\ overtaken[t] = 0 => FreshAt(t))
  BY DEF QInv, WindowFresh, FreshAt
<1>1. CASE EnqueueReadCounter(t) \/ DequeueReadCounter(t) \/ EnqueueAgain(t) \/ DequeueAgain(t)
  <2>1. pc'[t] \in {"enqHead", "deqHead"}
    BY <1>0, <1>1
    DEF TypeOK, EnqueueReadCounter, DequeueReadCounter, EnqueueAgain, EnqueueRetry,
        DequeueAgain
  <2> QED BY <2>1 DEF FreshAt
<1>2. CASE EnqueueTestHead(t)
  <2>1. /\ head' = head /\ elem' = elem
        /\ \/ pc'[t] = "enqTail" /\ head = Null /\ newHead'[t] = elem[t]
           \/ pc'[t] = "enqRead" /\ head # Null
    BY <1>0, <1>2 DEF TypeOK, EnqueueTestHead, headerVars
  <2> QED BY <2>1 DEF FreshAt
<1>9. CASE EnqueueReadHead(t)
  <2>1. /\ pc[t] = "enqRead" /\ pc'[t] = "enqTail" /\ newHead'[t] = head
        /\ UNCHANGED <<head, elem, overtaken>>
    BY <1>0, <1>9 DEF TypeOK, EnqueueReadHead, headerVars
  <2>2. FreshAt(t)
    BY <1>0, <2>1 DEF InWindow
  <2> QED BY <2>1, <2>2 DEF FreshAt
<1>3. CASE EnqueueReadTail(t)
  <2>1. /\ pc[t] = "enqTail" /\ pc'[t] = "enqLink" /\ last'[t] = tail
        /\ UNCHANGED <<head, tail, elem, newHead, overtaken>>
    BY <1>0, <1>3 DEF TypeOK, EnqueueReadTail, headerVars
  <2>2. FreshAt(t)
    BY <1>0, <2>1 DEF InWindow
  <2> QED BY <2>1, <2>2 DEF FreshAt
<1>4. CASE EnqueueReadLink(t)
  <2>1. /\ pc[t] = "enqLink" /\ pc'[t] = "enqSwap"
        /\ link'[t] = IF tail # Null THEN last[t] ELSE Null
        /\ UNCHANGED <<head, tail, elem, newHead, overtaken>>
    BY <1>0, <1>4 DEF TypeOK, EnqueueReadLink, headerVars
  <2>2. FreshAt(t)
    BY <1>0, <2>1 DEF InWindow
  <2> QED BY <2>1, <2>2 DEF FreshAt
<1>5. CASE DequeueReadHead(t)
  <2>1. head # Null /\ pc'[t] = "deqLoad" /\ elem'[t] = head /\ head' = head
    BY <1>0, <1>5 DEF TypeOK, DequeueReadHead, InWindow, headerVars
  <2> QED BY <2>1 DEF FreshAt
<1>6. CASE DequeueLoad(t)
  <2>1. /\ pc[t] = "deqLoad" /\ pc'[t] = "deqTail" /\ newHead'[t] = next[elem[t]]
        /\ UNCHANGED <<head, next, elem, overtaken>>
    BY <1>0, <1>6 DEF TypeOK, DequeueLoad, headerVars, elementVars
  <2>2. FreshAt(t)
    BY <1>0, <2>1 DEF InWindow
  <2> QED BY <2>1, <2>2 DEF FreshAt
<1>7. CASE DequeueReadTail(t)
  <2>1. /\ pc[t] = "deqTail" /\ pc'[t] = "deqSwap" /\ newTail'[t] = DesiredTail(newHead[t])
        /\ UNCHANGED <<head, tail, next, elem, newHead, overtaken>>
    BY <1>0, <1>7 DEF TypeOK, DequeueReadTail, headerVars, elementVars
  <2>2. FreshAt(t)
    BY <1>0, <2>1 DEF InWindow
  <2> QED BY <2>1, <2>2 DEF FreshAt, DesiredTail
<1>8. CASE EnqueueAtOnce(t) \/ DequeueTest(t) \/ DequeueAtOnce(t) \/ RemoveReturn(t)
  <2>1. pc'[t] \in {"idle", "return", "deqTransaction"}
    BY <1>0, <1>8 DEF TypeOK, EnqueueAtOnce, DequeueTest, DequeueAtOnce, RemoveReturn
  <2> QED BY <2>1 DEF InWindow
<1> QED BY <1>1, <1>2, <1>3, <1>4, <1>5, <1>6, <1>7, <1>8, <1>9 DEF Step

LEMMA FreshStep == ASSUME QInv, [Next]_vars PROVE WindowFresh'
<1>1. ASSUME NEW t \in Thread, EnqueueSwap(t) \/ DequeueSwap(t) PROVE WindowFresh'
  BY <1>1, SwapStamps DEF WindowFresh
<1>2. ASSUME NEW t \in Thread, Call(t) \/ Step(t), ~EnqueueSwap(t), ~DequeueSwap(t)
      PROVE  WindowFresh'
  <2>1. ASSUME NEW u \in Thread, InWindow(u)', overtaken'[u] = 0 PROVE FreshAt(u)'
    <3>1. CASE u = t
      <4>1. Step(t)
        <5>1. ~Call(t)
          BY <2>1, <3>1, CallOutside DEF QInv
        <5> QED BY <1>2, <3>1, <5>1
      <4>2. InWindow(t) \/ lock'[t] = counter
        BY <1>2, <2>1, <3>1, QuietStamps
      <4> QED BY <1>2, <2>1, <3>1, <4>1, <4>2, OwnFresh
    <3>2. CASE u # t
      <4>1. /\ pc'[u] = pc[u] /\ elem'[u] = elem[u] /\ newHead'[u] = newHead[u]
            /\ newTail'[u] = newTail[u] /\ last'[u] = last[u] /\ link'[u] = link[u]
            /\ overtaken'[u] = overtaken[u]
        BY <1>2, <3>2, OthersKept, QuietStamps
      <4>2. InWindow(u) /\ FreshAt(u)
        BY <2>1, <4>1 DEF InWindow, QInv, WindowFresh, FreshAt
      <4>3. head' = head /\ tail' = tail /\ (head # Null => next'[head] = next[head])
        BY <1>2, <4>2, HeaderKept
      <4> QED BY <4>1, <4>2, <4>3 DEF FreshAt, DesiredTail
    <3> QED BY <3>1, <3>2
  <2> QED BY <2>1 DEF WindowFresh, FreshAt
<1>3. CASE UNCHANGED vars
  BY <1>3
  DEF vars, headerVars, elementVars, localVars, QInv, WindowFresh, InWindow, DesiredTail
<1> QED BY <1>1, <1>2, <1>3 DEF Next

-----------------------------------------------------------------------------
(* The invariant *)

LEMMA InitInv == Init => QInv
<1> SUFFICES ASSUME Init PROVE QInv
  OBVIOUS
<1>1. 1 \in 1..CounterMax /\ chain = <<>> /\ Len(chain) = 0 /\ <<>> \in Seq(Block)
  BY QueueAssumption DEF Init
<1>2. TypeOK
  BY <1>1 DEF Init, TypeOK, Pointer
<1>3. ListShape /\ OnePlace
  BY <1>1 DEF Init, ListShape, OnePlace, Owns, Inserting
<1>4. Places /\ Stamps /\ WindowFresh
  BY DEF Init, Places, Stamps, WindowFresh, InWindow, Inserting, PloPC, AtOncePC
<1> QED BY <1>2, <1>3, <1>4 DEF QInv

LEMMA NextInv == QInv /\ [Next]_vars => QInv'
  BY TypeStep, ListStep, PlacesStep, StampsStep, FreshStep DEF QInv, ListInv

\* QInv is inductive (c/collections.c:1143-1413).
THEOREM QueueInvariance == Spec => []QInv
  BY InitInv, NextInv, PTL DEF Spec

\* Whatever the threads do to the queue meanwhile, a thread whose compare
\* succeeds has seen the queue as it is (c/collections.c:1152-1157).
THEOREM WindowSafe == Spec => []WindowValid
  BY QueueInvariance, WindowIsValid, PTL

\* The header and the elements always form one list, and an element is either
\* in it, on the heap, or held by one thread (c/collections.c:1143-1413).
THEOREM ListSafe == Spec => [](ListShape /\ OnePlace)
<1>1. QInv => ListShape /\ OnePlace
  BY DEF QInv
<1> QED BY <1>1, QueueInvariance, PTL

-----------------------------------------------------------------------------
(* Lock-freedom *)

Retries(t) ==
  pc[t] \in {"enqSwap", "deqLoad", "deqSwap"} /\ pc'[t] \in {"enqHead", "deqHead"}

\* Of the steps of a thread only the failing compares go back.
LEMMA RetriesAgain ==
  ASSUME TypeOK, NEW t \in Thread, Call(t) \/ Step(t), Retries(t)
  PROVE  EnqueueAgain(t) \/ DequeueAgain(t)
<1> USE DEF TypeOK, Retries, Set, Goto
<1>1. CASE Call(t)
  BY <1>1 DEF Call, RemoveCall, InsertCall
<1>2. CASE EnqueueReadCounter(t) \/ EnqueueTestHead(t) \/ EnqueueReadHead(t) \/ EnqueueReadTail(t)
           \/ EnqueueReadLink(t) \/ EnqueueAtOnce(t)
  BY <1>2 DEF EnqueueReadCounter, EnqueueTestHead, EnqueueReadHead, EnqueueReadTail,
     EnqueueReadLink, EnqueueAtOnce
<1>3. CASE EnqueueSwap(t) \/ DequeueSwap(t)
  BY <1>3 DEF EnqueueSwap, EnqueueStore, DequeueSwap
<1>4. CASE DequeueReadCounter(t) \/ DequeueReadHead(t) \/ DequeueLoad(t) \/ DequeueReadTail(t)
  BY <1>4 DEF DequeueReadCounter, DequeueReadHead, DequeueLoad, DequeueReadTail
<1>5. CASE DequeueTest(t) \/ DequeueAtOnce(t) \/ RemoveReturn(t)
  BY <1>5 DEF DequeueTest, DequeueAtOnce, RemoveReturn
<1> QED BY <1>1, <1>2, <1>3, <1>4, <1>5 DEF Step

LEMMA RetryStep ==
  ASSUME QInv, [Next]_vars, NEW t \in Thread, Retries(t)
  PROVE  overtaken[t] > 0 /\ lock'[t] = counter'
<1>0. TypeOK /\ Stamps
  BY DEF QInv
<1>1. pc'[t] # pc[t]
  BY DEF Retries
<1>2. ~UNCHANGED vars
  BY <1>1 DEF vars
<1>3. PICK u \in Thread : Call(u) \/ Step(u)
  BY <1>2 DEF Next
<1>4. u = t
  BY <1>1, <1>3, <1>0, OthersKept
<1>5. EnqueueAgain(t) \/ DequeueAgain(t)
  BY <1>0, <1>3, <1>4, RetriesAgain
<1>6. InWindow(t) /\ counter # lock[t] /\ lock'[t] = counter /\ counter' = counter
  BY <1>0, <1>5 DEF EnqueueAgain, EnqueueRetry, DequeueAgain, ReadCounter, Set, InWindow,
     headerVars, TypeOK
<1>7. overtaken[t] \in Nat /\ lock[t] \in 1..CounterMax
  BY <1>0 DEF TypeOK
<1>8. overtaken[t] # 0
  BY <1>0, <1>6, <1>7, QueueAssumption DEF Stamps, Advanced
<1> QED BY <1>6, <1>7, <1>8

\* A thread that has to start again was overtaken by an operation that took
\* effect (c/collections.c:1211-1235 and 1329-1354): some operation always
\* completes, for any number of threads.
THEOREM RetriesAreEarned == Spec => RetryEarned
<1>1. QInv /\ [Next]_vars =>
        [\A t \in Thread :
           pc[t] \in {"enqSwap", "deqLoad", "deqSwap"} /\ pc'[t] \in {"enqHead", "deqHead"} =>
             overtaken[t] > 0 /\ lock'[t] = counter']_vars
  BY RetryStep DEF Retries
<1> QED BY <1>1, QueueInvariance, PTL DEF Spec, RetryEarned

-----------------------------------------------------------------------------
(* The refinement of FifoQueue *)

Items(d, s) == [i \in 1..Len(s) |-> d[s[i]]]
Calls == [t \in Thread |-> CallOf(t)]

LEMMA ItemsAreSeq ==
  ASSUME NEW D, NEW d \in [Block -> D], NEW s \in Seq(Block)
  PROVE  /\ Items(d, s) \in Seq(D) /\ Len(Items(d, s)) = Len(s)
         /\ \A i \in 1..Len(s) : Items(d, s)[i] = d[s[i]]
         /\ Items(d, s) = <<>> <=> s = <<>>
<1>1. Len(s) \in Nat /\ \A i \in 1..Len(s) : s[i] \in Block
  OBVIOUS
<1>2. Items(d, s) \in [1..Len(s) -> D]
  BY <1>1 DEF Items
<1>3. Items(d, s) \in Seq(D) /\ Len(Items(d, s)) = Len(s)
  BY <1>1, <1>2
<1>4. \A i \in 1..Len(s) : Items(d, s)[i] = d[s[i]]
  BY DEF Items
<1>5. Items(d, s) = <<>> <=> s = <<>>
  BY <1>3
<1> QED BY <1>3, <1>4, <1>5

LEMMA ItemsAppend ==
  ASSUME NEW D, NEW d \in [Block -> D], NEW s \in Seq(Block), NEW b \in Block
  PROVE  Items(d, Append(s, b)) = Append(Items(d, s), d[b])
<1> DEFINE q == Append(s, b)
           x == Items(d, q)
           y == Append(Items(d, s), d[b])
<1>1. /\ q \in Seq(Block) /\ Len(s) \in Nat /\ Len(q) = Len(s) + 1
      /\ \A i \in 1..Len(s) : q[i] = s[i]
      /\ q[Len(s) + 1] = b
  BY AppendChain
<1>2. /\ Items(d, s) \in Seq(D) /\ Len(Items(d, s)) = Len(s)
      /\ \A i \in 1..Len(s) : Items(d, s)[i] = d[s[i]]
  BY ItemsAreSeq
<1>3. /\ x \in Seq(D) /\ Len(x) = Len(q) /\ \A i \in 1..Len(q) : x[i] = d[q[i]]
  BY <1>1, ItemsAreSeq
<1>4. d[b] \in D
  OBVIOUS
<1>5. /\ y \in Seq(D) /\ Len(y) = Len(s) + 1
      /\ \A i \in 1..Len(s) : y[i] = Items(d, s)[i]
      /\ y[Len(s) + 1] = d[b]
  BY <1>2, <1>4, AppendProperties
<1> HIDE DEF q, x, y
<1>6. ASSUME NEW i \in 1..Len(x) PROVE x[i] = y[i]
  <2>1. CASE i \in 1..Len(s)
    BY <1>1, <1>2, <1>3, <1>5, <2>1
  <2>2. CASE i = Len(s) + 1
    BY <1>1, <1>3, <1>5, <2>2
  <2>3. i \in 1..Len(s) \/ i = Len(s) + 1
    BY <1>1, <1>3
  <2> QED BY <2>1, <2>2, <2>3
<1>7. x = y
  BY <1>1, <1>3, <1>5, <1>6, SeqEqual
<1> QED BY <1>7 DEF q, x, y

LEMMA ItemsTail ==
  ASSUME NEW D, NEW d \in [Block -> D], NEW s \in Seq(Block), s # <<>>
  PROVE  /\ Items(d, Tail(s)) = Tail(Items(d, s))
         /\ Head(Items(d, s)) = d[s[1]]
<1> DEFINE x == Items(d, Tail(s))
           z == Items(d, s)
           y == Tail(z)
<1>1. /\ Tail(s) \in Seq(Block) /\ Len(s) \in Nat /\ Len(s) >= 1
      /\ Len(Tail(s)) = Len(s) - 1
      /\ \A i \in 1..Len(Tail(s)) : Tail(s)[i] = s[i + 1] /\ i + 1 \in 1..Len(s)
  BY TailChain
<1>2. /\ z \in Seq(D) /\ Len(z) = Len(s) /\ z # <<>>
      /\ \A i \in 1..Len(s) : z[i] = d[s[i]]
  BY ItemsAreSeq
<1>3. /\ x \in Seq(D) /\ Len(x) = Len(Tail(s))
      /\ \A i \in 1..Len(Tail(s)) : x[i] = d[Tail(s)[i]]
  BY <1>1, ItemsAreSeq
<1> HIDE DEF z
<1>4. /\ y \in Seq(D) /\ Len(y) = Len(z) - 1
      /\ \A i \in 1..Len(y) : y[i] = z[i + 1]
  BY <1>2, HeadTailProperties
<1>5. Head(z) = z[1]
  BY <1>2
<1>6. ASSUME NEW i \in 1..Len(x) PROVE x[i] = y[i]
  BY <1>1, <1>2, <1>3, <1>4
<1> HIDE DEF x, y
<1>7. x = y
  BY <1>1, <1>2, <1>3, <1>4, <1>6, SeqEqual
<1>8. 1 \in 1..Len(s)
  BY <1>1
<1>9. Head(z) = d[s[1]]
  BY <1>2, <1>5, <1>8
<1> QED BY <1>7, <1>9 DEF x, y, z

LEMMA CallCases ==
  ASSUME NEW t \in Thread
  PROVE  /\ Inserting(t) => CallOf(t) = [op |-> "insert", val |-> data[elem[t]]]
         /\ pc[t] = "idle" => CallOf(t) = [op |-> "none", val |-> Null]
         /\ pc[t] = "return" =>
              CallOf(t) = [op |-> "return",
                           val |-> IF elem[t] = Null THEN Null ELSE data[elem[t]]]
         /\ ~Inserting(t) /\ pc[t] \notin {"idle", "return"} =>
              CallOf(t) = [op |-> "remove", val |-> Null]
  BY DEF CallOf, Inserting

LEMMA CallCasesNext ==
  ASSUME NEW t \in Thread
  PROVE  /\ Inserting(t)' => CallOf(t)' = [op |-> "insert", val |-> data'[elem'[t]]]
         /\ pc'[t] = "idle" => CallOf(t)' = [op |-> "none", val |-> Null]
         /\ pc'[t] = "return" =>
              CallOf(t)' = [op |-> "return",
                            val |-> IF elem'[t] = Null THEN Null ELSE data'[elem'[t]]]
         /\ ~Inserting(t)' /\ pc'[t] \notin {"idle", "return"} =>
              CallOf(t)' = [op |-> "remove", val |-> Null]
  BY DEF CallOf, Inserting

\* A step of one thread does not change the operations of the others.
LEMMA OtherCalls ==
  ASSUME QInv, NEW t \in Thread, Call(t) \/ Step(t), NEW u \in Thread \ {t}
  PROVE  CallOf(u)' = CallOf(u)
<1>1. pc'[u] = pc[u] /\ elem'[u] = elem[u]
  BY OthersKept
<1>2. Inserting(u)' <=> Inserting(u)
  BY <1>1 DEF Inserting
<1>3. Owns(u) /\ elem[u] # Null => data'[elem[u]] = data[elem[u]]
  <2>1. CASE UNCHANGED data
    BY <2>1
  <2>2. ASSUME NEW b \in Block, NEW v \in Value, InsertCall(t, b, v),
               Owns(u), elem[u] # Null
        PROVE  data'[elem[u]] = data[elem[u]]
    <3>1. elem[u] # b /\ elem[u] \in Block
      BY <2>2, QueueAssumption DEF InsertCall, QInv, OnePlace, TypeOK, Pointer
    <3> QED BY <2>2, <3>1 DEF InsertCall, Set, QInv, TypeOK
  <2>3. UNCHANGED data \/ \E b \in Block, v \in Value : InsertCall(t, b, v)
    BY DEF Call, Step, RemoveCall, EnqueueReadCounter, EnqueueTestHead, EnqueueReadHead, EnqueueReadTail,
           EnqueueReadLink, EnqueueAgain, EnqueueRetry, EnqueueSwap, EnqueueStore,
           EnqueueAtOnce, DequeueReadCounter, DequeueReadHead, DequeueLoad,
           DequeueReadTail, DequeueAgain, DequeueSwap, DequeueTest, DequeueAtOnce,
           RemoveReturn, elementVars
  <2> QED BY <2>1, <2>2, <2>3
<1>4. CASE Inserting(u)
  <2>1. Owns(u) /\ elem[u] # Null
    BY <1>4, QueueAssumption DEF Owns, QInv, Places
  <2> QED BY <1>1, <1>2, <1>3, <1>4, <2>1, CallCases, CallCasesNext
<1>5. CASE pc[u] = "return"
  <2>1. Owns(u) /\ ~Inserting(u)
    BY <1>5 DEF Owns, Inserting
  <2>2. CASE elem[u] = Null
    BY <1>1, <1>5, <2>2, CallCases, CallCasesNext
  <2>3. CASE elem[u] # Null
    BY <1>1, <1>3, <1>5, <2>1, <2>3, CallCases, CallCasesNext
  <2> QED BY <2>2, <2>3
<1>6. CASE ~Inserting(u) /\ pc[u] # "return"
  BY <1>1, <1>2, <1>6, CallCases, CallCasesNext
<1> QED BY <1>4, <1>5, <1>6

\* So a step changes the abstract operation of its own thread only.
LEMMA OwnCall ==
  ASSUME QInv, NEW t \in Thread, Call(t) \/ Step(t)
  PROVE  Calls' = [Calls EXCEPT ![t] = CallOf(t)']
  BY OtherCalls DEF Calls

LEMMA InitFifo == Init => Fifo!Init
<1> SUFFICES ASSUME Init PROVE Fifo!Init
  OBVIOUS
<1>1. chain = <<>> /\ <<>> \in Seq(Block) /\ data \in [Block -> {Null}]
  BY DEF Init
<1>2. Items(data, chain) = <<>>
  BY <1>1, ItemsAreSeq
<1>3. \A t \in Thread : CallOf(t) = [op |-> "none", val |-> Null]
  BY CallCases DEF Init
<1> QED BY <1>2, <1>3 DEF Fifo!Init, Fifo!Idle, Items

\* The allocation of an element is the call of an insert.
LEMMA InsertCallFifo ==
  ASSUME QInv, NEW t \in Thread, NEW b \in Block, NEW v \in Value, InsertCall(t, b, v)
  PROVE  Fifo!CallInsert(t, v)
<1>1. /\ pc[t] = "idle" /\ b \in heap /\ chain' = chain /\ chain \in Seq(Block)
      /\ data' = [data EXCEPT ![b] = v] /\ data \in [Block -> Value \cup {Null}]
      /\ elem'[t] = b
  BY DEF InsertCall, headerVars, Set, QInv, TypeOK
<1>2. Inserting(t)'
  BY QueueAssumption DEF InsertCall, Inserting, Goto, QInv, TypeOK
<1>3. CallOf(t) = [op |-> "none", val |-> Null] /\ CallOf(t)' = [op |-> "insert", val |-> v]
  BY <1>1, <1>2, CallCases, CallCasesNext
<1>4. \A i \in 1..Len(chain) : data'[chain[i]] = data[chain[i]]
  <2>1. \A i \in 1..Len(chain) : chain[i] # b /\ chain[i] \in Block
    BY <1>1, AppendChain DEF QInv, OnePlace
  <2> QED BY <1>1, <2>1
<1>5. Items(data, chain)' = Items(data, chain)
  BY <1>1, <1>4 DEF Items
<1>6. Calls' = [Calls EXCEPT ![t] = CallOf(t)'] /\ Calls[t] = CallOf(t)
  BY OwnCall DEF Call, Calls
<1> QED BY <1>3, <1>5, <1>6 DEF Fifo!CallInsert, Fifo!Idle, Items, Calls

LEMMA RemoveCallFifo ==
  ASSUME QInv, NEW t \in Thread, RemoveCall(t)
  PROVE  Fifo!CallRemove(t)
<1>1. pc[t] = "idle" /\ chain' = chain /\ data' = data
  BY DEF RemoveCall, headerVars, elementVars
<1>2. pc'[t] \in {"deqCounter", "deqTest", "deqLocked"}
  BY QueueAssumption DEF RemoveCall, Goto, QInv, TypeOK
<1>3. ~Inserting(t)'
  BY <1>2 DEF Inserting
<1>4. /\ CallOf(t) = [op |-> "none", val |-> Null]
      /\ CallOf(t)' = [op |-> "remove", val |-> Null]
  BY <1>1, <1>2, <1>3, CallCases, CallCasesNext
<1>5. Items(data, chain)' = Items(data, chain)
  BY <1>1 DEF Items
<1>6. Calls' = [Calls EXCEPT ![t] = CallOf(t)'] /\ Calls[t] = CallOf(t)
  BY OwnCall DEF Call, Calls
<1> QED BY <1>4, <1>5, <1>6 DEF Fifo!CallRemove, Fifo!Idle, Items, Calls

\* The link of an element into the list is the insert.
LEMMA LinkingFifo ==
  ASSUME QInv, NEW t \in Thread, Step(t), Linking(t), UNCHANGED data
  PROVE  Fifo!Insert(t)
<1>1. /\ elem[t] \in Block /\ chain \in Seq(Block) /\ chain' = Append(chain, elem[t])
      /\ data \in [Block -> Value \cup {Null}] /\ Inserting(t) /\ pc'[t] = "idle"
  BY DEF Linking, QInv, Places, TypeOK
<1>2. /\ CallOf(t) = [op |-> "insert", val |-> data[elem[t]]]
      /\ CallOf(t)' = [op |-> "none", val |-> Null]
  BY <1>1, CallCases, CallCasesNext
<1>3. Items(data, chain)' = Append(Items(data, chain), data[elem[t]])
  <2>1. Items(data, Append(chain, elem[t])) = Append(Items(data, chain), data[elem[t]])
    BY <1>1, ItemsAppend
  <2> QED BY <1>1, <2>1 DEF Items
<1>4. Calls' = [Calls EXCEPT ![t] = CallOf(t)'] /\ Calls[t] = CallOf(t)
  BY OwnCall DEF Calls
<1>5. /\ Calls[t].op = "insert"
      /\ Items(data, chain)' = Append(Items(data, chain), Calls[t].val)
      /\ Calls' = [Calls EXCEPT ![t] = [op |-> "none", val |-> Null]]
  BY <1>2, <1>3, <1>4
<1> QED BY <1>5 DEF Fifo!Insert, Fifo!Idle, Items, Calls

\* The removal of an element from the list is the remove.
LEMMA UnlinkingFifo ==
  ASSUME QInv, NEW t \in Thread, Step(t), Unlinking(t), UNCHANGED data
  PROVE  Fifo!Remove(t)
<1>1. /\ chain \in Seq(Block) /\ chain # <<>> /\ chain' = Tail(chain) /\ head = chain[1]
      /\ head # Null /\ data \in [Block -> Value \cup {Null}]
      /\ ~Inserting(t) /\ pc[t] \notin {"idle", "return"}
      /\ pc'[t] = "return" /\ elem'[t] = head
  BY ChainEnds DEF Unlinking, QInv, TypeOK
<1>2. /\ CallOf(t) = [op |-> "remove", val |-> Null]
      /\ CallOf(t)' = [op |-> "return", val |-> data[head]]
  BY <1>1, CallCases, CallCasesNext
<1>3. /\ Items(data, Tail(chain)) = Tail(Items(data, chain))
      /\ Head(Items(data, chain)) = data[head]
      /\ Items(data, chain) # <<>>
  <2>1. /\ Items(data, Tail(chain)) = Tail(Items(data, chain))
        /\ Head(Items(data, chain)) = data[chain[1]]
    BY <1>1, ItemsTail, Zenon
  <2>2. Items(data, chain) # <<>>
    BY <1>1, ItemsAreSeq, Zenon
  <2> QED BY <1>1, <2>1, <2>2, Zenon
<1>4. Items(data, chain)' = Tail(Items(data, chain))
  <2>1. Items(data, chain)' = Items(data, Tail(chain))
    BY <1>1 DEF Items
  <2> QED BY <1>3, <2>1
<1>5. Calls' = [Calls EXCEPT ![t] = CallOf(t)'] /\ Calls[t] = CallOf(t)
  BY OwnCall DEF Calls
<1>6. /\ Calls[t].op = "remove" /\ Items(data, chain) # <<>>
      /\ Items(data, chain)' = Tail(Items(data, chain))
      /\ Calls' = [Calls EXCEPT ![t] = [op |-> "return", val |-> Head(Items(data, chain))]]
  <2>1. Calls[t].op = "remove"
    BY <1>2, <1>5
  <2>2. CallOf(t)' = [op |-> "return", val |-> Head(Items(data, chain))]
    BY <1>2, <1>3, Zenon
  <2> QED BY <1>3, <1>4, <1>5, <2>1, <2>2, Zenon
<1> QED BY <1>6 DEF Fifo!Remove, Items, Calls

\* A remove that reads a NULL head is a remove from the empty queue.
LEMMA NothingFifo ==
  ASSUME QInv, NEW t \in Thread, Step(t), head = Null, UNCHANGED <<chain, data>>,
         ~Inserting(t), pc[t] \notin {"idle", "return"}, pc'[t] = "return", elem'[t] = Null
  PROVE  Fifo!RemoveNothing(t)
<1>1. chain = <<>> /\ chain \in Seq(Block) /\ data \in [Block -> Value \cup {Null}]
  BY ChainEnds DEF QInv, TypeOK
<1>2. /\ CallOf(t) = [op |-> "remove", val |-> Null]
      /\ CallOf(t)' = [op |-> "return", val |-> Null]
  BY CallCases, CallCasesNext
<1>3. Items(data, chain) = <<>> /\ Items(data, chain)' = Items(data, chain)
  BY <1>1, ItemsAreSeq DEF Items
<1>4. Calls' = [Calls EXCEPT ![t] = CallOf(t)'] /\ Calls[t] = CallOf(t)
  BY OwnCall DEF Calls
<1> QED BY <1>2, <1>3, <1>4 DEF Fifo!RemoveNothing, Items, Calls

LEMMA ReturnFifo ==
  ASSUME QInv, NEW t \in Thread, RemoveReturn(t)
  PROVE  Fifo!Return(t)
<1>1. pc[t] = "return" /\ pc'[t] = "idle" /\ chain' = chain /\ data' = data
  BY DEF RemoveReturn, headerVars, Goto, QInv, TypeOK
<1>2. CallOf(t).op = "return" /\ CallOf(t)' = [op |-> "none", val |-> Null]
  BY <1>1, CallCases, CallCasesNext
<1>3. Items(data, chain)' = Items(data, chain)
  BY <1>1 DEF Items
<1>4. Calls' = [Calls EXCEPT ![t] = CallOf(t)'] /\ Calls[t] = CallOf(t)
  BY OwnCall DEF Step, Calls
<1> QED BY <1>2, <1>3, <1>4 DEF Fifo!Return, Fifo!Idle, Items, Calls

\* The other steps are invisible.
LEMMA QuietFifo ==
  ASSUME QInv, NEW t \in Thread, Step(t), UNCHANGED <<chain, data>>,
         \/ Inserting(t) /\ Inserting(t)' /\ elem'[t] = elem[t]
         \/ /\ ~Inserting(t) /\ pc[t] \notin {"idle", "return"}
            /\ ~Inserting(t)' /\ pc'[t] \notin {"idle", "return"}
  PROVE  UNCHANGED Fifo!vars
<1>1. CallOf(t)' = CallOf(t)
  BY CallCases, CallCasesNext
<1>2. Items(data, chain)' = Items(data, chain)
  BY DEF Items
<1>3. Calls' = [Calls EXCEPT ![t] = CallOf(t)'] /\ Calls[t] = CallOf(t)
  BY OwnCall DEF Calls
<1>4. Calls' = Calls
  BY <1>1, <1>3 DEF Calls
<1> QED BY <1>2, <1>4 DEF Fifo!vars, Items, Calls

LEMMA StepFifo ==
  ASSUME QInv, NEW t \in Thread, Step(t)
  PROVE  \/ Fifo!Insert(t) \/ Fifo!Remove(t) \/ Fifo!RemoveNothing(t) \/ Fifo!Return(t)
         \/ UNCHANGED Fifo!vars
<1> USE DEF Set, Goto
<1>0. TypeOK /\ Places
  BY DEF QInv
<1>1. CASE EnqueueSwap(t) \/ EnqueueAtOnce(t)
  <2>1. Linking(t)
    BY <1>1, EnqueueSwapLinks, EnqueueAtOnceLinks
  <2>2. UNCHANGED data
    BY <1>1 DEF EnqueueSwap, EnqueueStore, EnqueueAtOnce
  <2> QED BY <2>1, <2>2, LinkingFifo
<1>2. CASE DequeueSwap(t) \/ (DequeueAtOnce(t) /\ head # Null)
  <2>1. Unlinking(t)
    BY <1>2, DequeueSwapUnlinks, DequeueAtOnceUnlinks
  <2>2. UNCHANGED data
    BY <1>2 DEF DequeueSwap, DequeueAtOnce
  <2> QED BY <2>1, <2>2, UnlinkingFifo
<1>3. CASE (DequeueReadHead(t) \/ DequeueTest(t) \/ DequeueAtOnce(t)) /\ head = Null
  <2>1. /\ UNCHANGED <<chain, data>> /\ pc[t] \notin {"idle", "return"} /\ ~Inserting(t)
        /\ pc'[t] = "return"
    BY <1>0, <1>3
    DEF DequeueReadHead, DequeueTest, DequeueAtOnce, Inserting, headerVars, elementVars,
        TypeOK
  <2>2. elem'[t] = Null
    BY <1>0, <1>3
    DEF DequeueReadHead, DequeueTest, DequeueAtOnce, TypeOK, Places, localVars
  <2> QED BY <1>3, <2>1, <2>2, NothingFifo
<1>4. CASE RemoveReturn(t)
  BY <1>4, ReturnFifo
<1>5. CASE EnqueueReadCounter(t) \/ EnqueueTestHead(t) \/ EnqueueReadHead(t) \/ EnqueueReadTail(t)
           \/ EnqueueReadLink(t) \/ EnqueueAgain(t)
  <2>1. /\ UNCHANGED <<chain, data>> /\ Inserting(t) /\ elem'[t] = elem[t]
        /\ pc'[t] \in {"enqHead", "enqRead", "enqTail", "enqLink", "enqSwap"}
    BY <1>0, <1>5
    DEF TypeOK, EnqueueReadCounter, EnqueueTestHead, EnqueueReadHead, EnqueueReadTail, EnqueueReadLink,
        EnqueueAgain, EnqueueRetry, Inserting, headerVars, elementVars
  <2>2. Inserting(t)'
    BY <2>1 DEF Inserting
  <2> QED BY <2>1, <2>2, QuietFifo
<1>6. CASE \/ DequeueReadCounter(t) \/ DequeueLoad(t) \/ DequeueReadTail(t)
           \/ DequeueAgain(t) \/ (DequeueReadHead(t) /\ head # Null)
           \/ (DequeueTest(t) /\ head # Null)
  <2>1. /\ UNCHANGED <<chain, data>> /\ ~Inserting(t) /\ pc[t] \notin {"idle", "return"}
        /\ pc'[t] \in {"deqHead", "deqLoad", "deqTail", "deqSwap", "deqTransaction"}
    BY <1>0, <1>6
    DEF TypeOK, DequeueReadCounter, DequeueLoad, DequeueReadTail, DequeueAgain,
        DequeueReadHead, DequeueTest, Inserting, headerVars, elementVars
  <2>2. ~Inserting(t)'
    BY <2>1 DEF Inserting
  <2> QED BY <2>1, <2>2, QuietFifo
<1> QED BY <1>1, <1>2, <1>3, <1>4, <1>5, <1>6 DEF Step

LEMMA NextFifo == QInv /\ [Next]_vars => [Fifo!Next]_(Fifo!vars)
<1> SUFFICES ASSUME QInv, [Next]_vars PROVE Fifo!Next \/ UNCHANGED Fifo!vars
  OBVIOUS
<1>1. ASSUME NEW t \in Thread, Step(t) PROVE Fifo!Next \/ UNCHANGED Fifo!vars
  BY <1>1, StepFifo DEF Fifo!Next
<1>2. ASSUME NEW t \in Thread, RemoveCall(t) PROVE Fifo!Next
  BY <1>2, RemoveCallFifo DEF Fifo!Next
<1>3. ASSUME NEW t \in Thread, NEW b \in Block, NEW v \in Value, InsertCall(t, b, v)
      PROVE  Fifo!Next
  BY <1>3, InsertCallFifo DEF Fifo!Next
<1>4. CASE UNCHANGED vars
  <2>1. UNCHANGED <<chain, data, elem, pc>>
    BY <1>4 DEF vars, headerVars, elementVars, localVars
  <2>2. Items(data, chain)' = Items(data, chain) /\ Calls' = Calls
    BY <2>1 DEF Items, Calls, CallOf, Inserting
  <2> QED BY <2>2 DEF Fifo!vars, Items, Calls
<1> QED BY <1>1, <1>2, <1>3, <1>4 DEF Next, Call

\* The queue is a first-in first-out queue whose operations take effect at one
\* instant, whatever the number of threads (c/collections.c:1005-1415).
THEOREM QueueImplementsFifo == Spec => ImplementsFifo
<1>1. Spec => Fifo!Spec
  BY InitFifo, NextFifo, QueueInvariance, PTL DEF Spec, Fifo!Spec
<1> QED BY <1>1 DEF ImplementsFifo
=============================================================================
