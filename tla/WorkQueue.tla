------------------------------ MODULE WorkQueue ------------------------------
(***************************************************************************)
(* The queue of c/collections.c on z/OS, serialized by PERFORM LOCKED      *)
(* OPERATION or by constrained transactions, and its mutex version on the  *)
(* other platforms.  It carries the work of the STC base and the messages  *)
(* of the cross-memory server, from any number of concurrent threads.      *)
(*                                                                         *)
(* A step is one access to the queue header or to an element another       *)
(* thread may hold; a PLO instruction or a transaction is one step.  The   *)
(* storage of an element goes back to the heap when qRemove is done with   *)
(* it and may be handed out again.                                         *)
(***************************************************************************)
EXTENDS Naturals, Sequences

CONSTANTS
  Thread,        \* callers of qInsert and qRemove
  Block,         \* storage for queue elements
  Value,         \* the data pointers
  Null,          \* the NULL pointer
  Serialization, \* "plo", "tx" or "mutex"
  CounterMax     \* largest value of the counter before it wraps to 1

ASSUME QueueAssumption ==
  /\ Null \notin Block /\ Null \notin Value
  /\ Serialization \in {"plo", "tx", "mutex"}
  /\ CounterMax \in Nat /\ CounterMax >= 2

VARIABLES
  head, tail, counter,  \* the queue header
  next, data,           \* the queue elements
  heap,                 \* storage that is not allocated
  pc,                   \* per thread: the next step of its operation
  elem,                 \* newElement, or currentHead
  lock,                 \* lockCounter
  newHead, newTail,     \* desiredQHead, desiredQTail
  last,                 \* the tail read by qEnqueue
  link,                 \* thing3Addr: the element whose next is stored, or Null
                        \* for the tail pointer of the header
  overtaken,            \* auxiliary: updates since the thread read the counter
  chain                 \* auxiliary: the elements from head to tail

headerVars == <<head, tail, counter, chain>>
elementVars == <<next, data, heap>>
localVars == <<elem, lock, newHead, newTail, last, link>>
vars == <<headerVars, elementVars, pc, localVars, overtaken>>

Pointer == Block \cup {Null}

Init ==
  /\ head = Null /\ tail = Null
  /\ counter \in 1..CounterMax      \* an empty queue that has been used before
  /\ next = [b \in Block |-> Null]
  /\ data = [b \in Block |-> Null]
  /\ heap = Block
  /\ pc = [t \in Thread |-> "idle"]
  /\ elem = [t \in Thread |-> Null]
  /\ lock = [t \in Thread |-> 1]
  /\ newHead = [t \in Thread |-> Null]
  /\ newTail = [t \in Thread |-> Null]
  /\ last = [t \in Thread |-> Null]
  /\ link = [t \in Thread |-> Null]
  /\ overtaken = [t \in Thread |-> 0]
  /\ chain = <<>>

Goto(t, label) == pc' = [pc EXCEPT ![t] = label]
Set(f, t, value) == [f EXCEPT ![t] = value]

\* lockCounter+1, wrapped back to 1 before it reaches the sign bit.
NewCounterUnwrapped(c) == c + 1  \* faulty: runs into the sign bit
NewCounterSame(c) == c           \* faulty: an update leaves no trace
NewCounter(c) == IF c = CounterMax THEN 1 ELSE c + 1

\* The threads between the read of the counter and the end of the operation.
InWindow(t) == pc[t] \in {"enqHead", "enqRead", "enqTail", "enqLink",
                          "enqSwap", "deqHead", "deqLoad", "deqTail", "deqSwap"}

\* Assumed of the dispatcher: no thread stays in its window while the others
\* take the counter through all its values.
NotLapped(t) == \A u \in Thread \ {t} : InWindow(u) => overtaken[u] + 1 < CounterMax

\* An update of the header: the counter moves on, every window is overtaken.
Overtake(t) ==
  overtaken' = [u \in Thread |-> IF InWindow(u) /\ u # t THEN overtaken[u] + 1 ELSE 0]
ReadCounter(t) ==
  /\ lock' = Set(lock, t, counter)
  /\ overtaken' = Set(overtaken, t, 0)

\* The locals of an operation are dead when it is over.
LocalsDone(t) ==
  /\ lock' = Set(lock, t, 1)
  /\ newHead' = Set(newHead, t, Null)
  /\ newTail' = Set(newTail, t, Null)
  /\ last' = Set(last, t, Null)
  /\ link' = Set(link, t, Null)

-----------------------------------------------------------------------------
(* qInsert and qEnqueue *)

\* An element is allocated and filled in.
InsertCall(t, b, v) ==
  /\ pc[t] = "idle" /\ b \in heap
  /\ heap' = heap \ {b}
  /\ data' = Set(data, b, v)
  /\ next' = Set(next, b, Null)
  /\ elem' = Set(elem, t, b)
  /\ Goto(t, CASE Serialization = "plo" -> "enqCounter"
               [] Serialization = "tx" -> "enqTransaction"
               [] Serialization = "mutex" -> "enqLocked")
  /\ UNCHANGED <<headerVars, lock, newHead, newTail, last, link, overtaken>>

EnqueueReadCounter(t) ==
  /\ pc[t] = "enqCounter"
  /\ ReadCounter(t)
  /\ Goto(t, "enqHead")
  /\ UNCHANGED <<headerVars, elementVars, elem, newHead, newTail, last, link>>

EnqueueTestHead(t) ==
  /\ pc[t] = "enqHead"
  /\ newHead' = Set(newHead, t, IF head = Null THEN elem[t] ELSE Null)
  /\ Goto(t, IF head = Null THEN "enqTail" ELSE "enqRead")
  /\ UNCHANGED <<headerVars, elementVars, elem, lock, newTail, last, link, overtaken>>

\* The head is read again, after the test.
EnqueueReadHead(t) ==
  /\ pc[t] = "enqRead"
  /\ newHead' = Set(newHead, t, head)
  /\ Goto(t, "enqTail")
  /\ UNCHANGED <<headerVars, elementVars, elem, lock, newTail, last, link, overtaken>>

EnqueueReadTail(t) ==
  /\ pc[t] = "enqTail"
  /\ last' = Set(last, t, tail)
  /\ Goto(t, "enqLink")
  /\ UNCHANGED <<headerVars, elementVars, elem, lock, newHead, newTail, link, overtaken>>

\* The tail is read again: the address of its next, or of the header's tail.
EnqueueReadLink(t) ==
  /\ pc[t] = "enqLink"
  /\ link' = Set(link, t, IF tail # Null THEN last[t] ELSE Null)
  /\ Goto(t, "enqSwap")
  /\ UNCHANGED <<headerVars, elementVars, elem, lock, newHead, newTail, last, overtaken>>

\* Compare and swap and triple store: the third store is to the element link,
\* or repeats the second.
Linked(t) == [next EXCEPT ![link[t]] = elem[t]]

EnqueueRetry(t, refreshed) ==
  /\ pc[t] = "enqSwap" /\ counter # lock[t]
  /\ lock' = Set(lock, t, refreshed)
  /\ overtaken' = Set(overtaken, t, 0)
  /\ Goto(t, "enqHead")
  /\ UNCHANGED <<headerVars, elementVars, elem, newHead, newTail, last, link>>

EnqueueStale(t) == EnqueueRetry(t, lock[t])  \* faulty: the copy is not refreshed
EnqueueAgain(t) == EnqueueRetry(t, counter)

\* What the PLO stores, whatever it compares.
EnqueueStore(t) ==
  /\ pc[t] = "enqSwap" /\ NotLapped(t)
  /\ counter' = NewCounter(lock[t])
  /\ head' = newHead[t]
  /\ tail' = elem[t]
  /\ next' = IF link[t] = Null THEN next ELSE Linked(t)
  /\ chain' = Append(chain, elem[t])
  /\ Overtake(t)
  /\ elem' = Set(elem, t, Null)
  /\ LocalsDone(t)
  /\ Goto(t, "idle")
  /\ UNCHANGED <<data, heap>>
EnqueueSwap(t) == counter = lock[t] /\ EnqueueStore(t)

\* With a constrained transaction, or under the mutex.
EnqueueAtOnce(t) ==
  /\ pc[t] \in {"enqTransaction", "enqLocked"}
  /\ head' = IF tail = Null THEN elem[t] ELSE head
  /\ tail' = elem[t]
  /\ next' = IF tail = Null THEN next ELSE [next EXCEPT ![tail] = elem[t]]
  /\ chain' = Append(chain, elem[t])
  /\ elem' = Set(elem, t, Null)
  /\ Goto(t, "idle")
  /\ UNCHANGED <<counter, data, heap, lock, newHead, newTail, last, link, overtaken>>

-----------------------------------------------------------------------------
(* qRemove and qDequeue *)

RemoveCall(t) ==
  /\ pc[t] = "idle"
  /\ Goto(t, CASE Serialization = "plo" -> "deqCounter"
               [] Serialization = "tx" -> "deqTest"
               [] Serialization = "mutex" -> "deqLocked")
  /\ UNCHANGED <<headerVars, elementVars, localVars, overtaken>>

DequeueReadCounter(t) ==
  /\ pc[t] = "deqCounter"
  /\ ReadCounter(t)
  /\ Goto(t, "deqHead")
  /\ UNCHANGED <<headerVars, elementVars, elem, newHead, newTail, last, link>>

DequeueReadHead(t) ==
  /\ pc[t] = "deqHead"
  /\ elem' = Set(elem, t, head)
  /\ IF head = Null
       THEN /\ Goto(t, "return") /\ LocalsDone(t)
            /\ overtaken' = Set(overtaken, t, 0)
       ELSE /\ Goto(t, "deqLoad")
            /\ UNCHANGED <<lock, newHead, newTail, last, link, overtaken>>
  /\ UNCHANGED <<headerVars, elementVars>>

\* Compare and load: the element's next, if the counter has not moved.
DequeueLoad(t) ==
  /\ pc[t] = "deqLoad" /\ counter = lock[t]
  /\ newHead' = Set(newHead, t, next[elem[t]])
  /\ Goto(t, "deqTail")
  /\ UNCHANGED <<headerVars, elementVars, elem, lock, newTail, last, link, overtaken>>

\* Faulty: the tail is kept when the last element is taken.
TailKept(newHd) == tail
DesiredTail(newHd) == IF newHd = Null THEN Null ELSE tail

DequeueReadTail(t) ==
  /\ pc[t] = "deqTail"
  /\ newTail' = Set(newTail, t, DesiredTail(newHead[t]))
  /\ Goto(t, "deqSwap")
  /\ UNCHANGED <<headerVars, elementVars, elem, lock, newHead, last, link, overtaken>>

\* Faulty: the element is freed before the next attempt.
DequeueFreed(t) ==
  /\ pc[t] \in {"deqLoad", "deqSwap"} /\ counter # lock[t]
  /\ ReadCounter(t)
  /\ heap' = heap \cup {elem[t]}
  /\ elem' = Set(elem, t, Null)
  /\ Goto(t, "deqHead")
  /\ UNCHANGED <<headerVars, next, data, newHead, newTail, last, link>>

\* The compare of either PLO failed.
DequeueAgain(t) ==
  /\ pc[t] \in {"deqLoad", "deqSwap"} /\ counter # lock[t]
  /\ ReadCounter(t)
  /\ elem' = Set(elem, t, Null)
  /\ Goto(t, "deqHead")
  /\ UNCHANGED <<headerVars, elementVars, newHead, newTail, last, link>>

DequeueSwap(t) ==
  /\ pc[t] = "deqSwap" /\ counter = lock[t] /\ NotLapped(t)
  /\ counter' = NewCounter(lock[t])
  /\ head' = newHead[t]
  /\ tail' = newTail[t]
  /\ next' = Set(next, elem[t], Null)
  /\ chain' = Tail(chain)
  /\ Overtake(t)
  /\ LocalsDone(t)
  /\ Goto(t, "return")
  /\ UNCHANGED <<data, heap, elem>>

\* The head is tested before the transaction is begun.
DequeueTest(t) ==
  /\ pc[t] = "deqTest"
  /\ Goto(t, IF head = Null THEN "return" ELSE "deqTransaction")
  /\ UNCHANGED <<headerVars, elementVars, localVars, overtaken>>

DequeueAtOnce(t) ==
  /\ pc[t] \in {"deqTransaction", "deqLocked"}
  /\ elem' = Set(elem, t, head)
  /\ IF head = Null
       THEN UNCHANGED <<head, tail, next, chain>>
       ELSE /\ head' = next[head]
            /\ tail' = DesiredTail(next[head])
            /\ next' = IF pc[t] = "deqTransaction" THEN Set(next, head, Null) ELSE next
            /\ chain' = Tail(chain)
  /\ Goto(t, "return")
  /\ UNCHANGED <<counter, data, heap, lock, newHead, newTail, last, link, overtaken>>

\* The data is returned and the element freed.
RemoveReturn(t) ==
  /\ pc[t] = "return"
  /\ heap' = heap \cup ({elem[t]} \cap Block)
  /\ elem' = Set(elem, t, Null)
  /\ Goto(t, "idle")
  /\ UNCHANGED <<headerVars, next, data, lock, newHead, newTail, last, link, overtaken>>

-----------------------------------------------------------------------------
Step(t) ==
  \/ EnqueueReadCounter(t) \/ EnqueueTestHead(t) \/ EnqueueReadHead(t) \/ EnqueueReadTail(t)
  \/ EnqueueReadLink(t) \/ EnqueueAgain(t) \/ EnqueueSwap(t) \/ EnqueueAtOnce(t)
  \/ DequeueReadCounter(t) \/ DequeueReadHead(t) \/ DequeueLoad(t)
  \/ DequeueReadTail(t) \/ DequeueAgain(t) \/ DequeueSwap(t)
  \/ DequeueTest(t) \/ DequeueAtOnce(t) \/ RemoveReturn(t)

Call(t) == RemoveCall(t) \/ \E b \in Block, v \in Value : InsertCall(t, b, v)

Next == \E t \in Thread : Call(t) \/ Step(t)

Spec == Init /\ [][Next]_vars

-----------------------------------------------------------------------------
(* Properties *)

PloPC == {"enqCounter", "enqHead", "enqRead", "enqTail", "enqLink", "enqSwap",
          "deqCounter", "deqHead", "deqLoad", "deqTail", "deqSwap"}
AtOncePC == {"enqTransaction", "enqLocked", "deqTest", "deqTransaction", "deqLocked"}
Inserting(t) == pc[t] \in {"enqCounter", "enqHead", "enqRead", "enqTail", "enqLink",
                           "enqSwap", "enqTransaction", "enqLocked"}

\* Types of the variables; the counter never reaches the sign bit, which would
\* mean "use transactions" (c/collections.c:1022-1024).
TypeOK ==
  /\ head \in Pointer /\ tail \in Pointer /\ counter \in 1..CounterMax
  /\ next \in [Block -> Pointer] /\ data \in [Block -> Value \cup {Null}]
  /\ heap \subseteq Block
  /\ pc \in [Thread -> PloPC \cup AtOncePC \cup {"idle", "return"}]
  /\ elem \in [Thread -> Pointer] /\ lock \in [Thread -> 1..CounterMax]
  /\ newHead \in [Thread -> Pointer] /\ newTail \in [Thread -> Pointer]
  /\ last \in [Thread -> Pointer] /\ link \in [Thread -> Pointer]
  /\ overtaken \in [Thread -> Nat]
  /\ chain \in Seq(Block)

\* The header and the next pointers describe one list: chain.
ListShape ==
  /\ head = IF chain = <<>> THEN Null ELSE chain[1]
  /\ tail = IF chain = <<>> THEN Null ELSE chain[Len(chain)]
  /\ \A i \in 1..Len(chain) :
       next[chain[i]] = IF i = Len(chain) THEN Null ELSE chain[i + 1]

\* Each element is in one place: on the heap, once in the list, or in the
\* hands of one thread, which between its reads and its PLO may also look at
\* elements it does not own.
Owns(t) == Inserting(t) \/ pc[t] = "return"
OnePlace ==
  /\ \A i, j \in 1..Len(chain) : chain[i] = chain[j] => i = j
  /\ \A i \in 1..Len(chain) : chain[i] \notin heap
  /\ \A t \in Thread : Owns(t) /\ elem[t] # Null =>
       /\ elem[t] \notin heap
       /\ \A i \in 1..Len(chain) : chain[i] # elem[t]
       /\ \A u \in Thread \ {t} : Owns(u) => elem[u] # elem[t]

\* c/collections.c:1152-1157: if the counter is what it was when it was read,
\* so is all that was read after it; in particular a PLO never stores into, or
\* loads from, an element that was freed or reused meanwhile.
WindowValid ==
  \A t \in Thread : InWindow(t) /\ counter = lock[t] =>
    /\ pc[t] = "enqRead" => head # Null
    /\ pc[t] \in {"enqTail", "enqLink", "enqSwap"} =>
         newHead[t] = IF head = Null THEN elem[t] ELSE head
    /\ pc[t] = "enqLink" => last[t] = tail
    /\ pc[t] = "enqSwap" => link[t] = tail
    /\ pc[t] \in {"deqLoad", "deqTail", "deqSwap"} => head # Null /\ elem[t] = head
    /\ pc[t] \in {"deqTail", "deqSwap"} => newHead[t] = next[head]
    /\ pc[t] = "deqSwap" => newTail[t] = DesiredTail(newHead[t])

\* c/collections.c:1035 "LKFREQUE": lock-free.  A thread goes back in its loop
\* only when another has completed an operation since it last read the
\* counter, and it starts again from the counter of now: whatever the threads
\* do, some operation completes.
RetryEarned ==
  [][\A t \in Thread :
       pc[t] \in {"enqSwap", "deqLoad", "deqSwap"} /\ pc'[t] \in {"enqHead", "deqHead"} =>
         overtaken[t] > 0 /\ lock'[t] = counter']_vars

\* The queue implements FifoQueue: an insert takes effect when its PLO or
\* transaction succeeds, a remove then or when it finds the head NULL.
CallOf(t) ==
  CASE Inserting(t) -> [op |-> "insert", val |-> data[elem[t]]]
    [] pc[t] = "idle" -> [op |-> "none", val |-> Null]
    [] pc[t] = "return" ->
         [op |-> "return", val |-> IF elem[t] = Null THEN Null ELSE data[elem[t]]]
    [] OTHER -> [op |-> "remove", val |-> Null]

Fifo == INSTANCE FifoQueue WITH
          Nothing <- Null,
          items <- [i \in 1..Len(chain) |-> data[chain[i]]],
          call <- [t \in Thread |-> CallOf(t)]

\* c/collections.c:1005-1415: no element is lost, duplicated or reordered.
ImplementsFifo == Fifo!Spec

-----------------------------------------------------------------------------
(* The inductive invariant behind WindowValid and ImplementsFifo. *)

\* The serialization of a queue never changes.
Places ==
  \A t \in Thread :
    /\ Serialization = "plo" => pc[t] \notin AtOncePC
    /\ Serialization # "plo" => pc[t] \notin PloPC
    /\ Inserting(t) => elem[t] \in Block /\ next[elem[t]] = Null
    /\ pc[t] \in {"deqLoad", "deqTail", "deqSwap"} => elem[t] \in Block
    /\ pc[t] \in {"idle", "deqTest"} => elem[t] = Null

\* Where the counter is, seen from the copy a thread holds.
Advanced(c, k) == IF c + k > CounterMax THEN c + k - CounterMax ELSE c + k
Stamps ==
  \A t \in Thread : InWindow(t) =>
    overtaken[t] < CounterMax /\ counter = Advanced(lock[t], overtaken[t])

\* WindowValid, for the threads that were not overtaken.
WindowFresh ==
  \A t \in Thread : InWindow(t) /\ overtaken[t] = 0 =>
    /\ pc[t] = "enqRead" => head # Null
    /\ pc[t] \in {"enqTail", "enqLink", "enqSwap"} =>
         newHead[t] = IF head = Null THEN elem[t] ELSE head
    /\ pc[t] = "enqLink" => last[t] = tail
    /\ pc[t] = "enqSwap" => link[t] = tail
    /\ pc[t] \in {"deqLoad", "deqTail", "deqSwap"} => head # Null /\ elem[t] = head
    /\ pc[t] \in {"deqTail", "deqSwap"} => newHead[t] = next[head]
    /\ pc[t] = "deqSwap" => newTail[t] = DesiredTail(newHead[t])

QInv ==
  /\ TypeOK
  /\ ListShape
  /\ OnePlace
  /\ Places
  /\ Stamps
  /\ WindowFresh
=============================================================================
