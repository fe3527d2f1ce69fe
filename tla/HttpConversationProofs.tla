----------------------- MODULE HttpConversationProofs -----------------------
(***************************************************************************)
(* Proofs about HttpConversation, for any number of connections, tasks and *)
(* services: the close protocol of h/httpserver.h:332-412 never frees a    *)
(* conversation block that is in use.  IInv is shown to be inductive, one  *)
(* lemma per conjunct; HttpConversation states the conjuncts.              *)
(***************************************************************************)
EXTENDS HttpConversation, FiniteSetTheorems, TLAPS

LEMMA Actors == Main \in Actor /\ Task \subseteq Actor /\ Main \notin Task
  BY ActorsAssumption DEF Actor

-----------------------------------------------------------------------------
(* The operators on the serialized word and on the work queue. *)

LEMMA ZeroWordType == ZeroWord \in Word
  BY DEF ZeroWord, Word

LEMMA FlagTypes ==
  ASSUME NEW w \in [Conversation -> Word], NEW c \in Conversation, NEW b \in BOOLEAN
  PROVE  /\ [w EXCEPT ![c].closeEnqueued = TRUE] \in [Conversation -> Word]
         /\ [w EXCEPT ![c].shouldClose = @ \/ b] \in [Conversation -> Word]
         /\ [w EXCEPT ![c].shouldClose = TRUE] \in [Conversation -> Word]
         /\ [w EXCEPT ![c] = ZeroWord] \in [Conversation -> Word]
  BY ZeroWordType DEF Word

LEMMA IncrementType ==
  ASSUME NEW w \in Word
  PROVE  /\ [w EXCEPT !.running = @ + 1] \in Word
         /\ [w EXCEPT !.running = @ + 1].running = w.running + 1
         /\ [w EXCEPT !.running = @ + 1].shouldClose = w.shouldClose
         /\ [w EXCEPT !.running = @ + 1].considerClose = w.considerClose
         /\ [w EXCEPT !.running = @ + 1].closeEnqueued = w.closeEnqueued
  BY DEF Word

\* What a replacement copy changes.
LEMMA ReplacementFacts ==
  ASSUME NEW w \in Word, NEW b \in BOOLEAN, b => w.running > 0
  PROVE  LET new == Replacement(w, b)
         IN  /\ new \in Word
             /\ new.running = IF b THEN w.running - 1 ELSE w.running
             /\ new.shouldClose = w.shouldClose
             /\ new.closeEnqueued = w.closeEnqueued
             /\ w.considerClose => new.considerClose
<1> DEFINE left == IF b THEN w.running - 1 ELSE w.running
           consider == w.considerClose \/ (left = 0 /\ w.shouldClose)
           new == [w EXCEPT !.running = left, !.considerClose = consider]
<1>1. left \in Nat /\ consider \in BOOLEAN /\ (w.considerClose => consider)
  BY DEF Word
<1>2. ASSUME NEW l \in Nat, NEW k \in BOOLEAN
      PROVE  LET n == [w EXCEPT !.running = l, !.considerClose = k]
             IN  /\ n \in Word /\ n.running = l /\ n.considerClose = k
                 /\ n.shouldClose = w.shouldClose /\ n.closeEnqueued = w.closeEnqueued
  BY DEF Word
<1> HIDE DEF left, consider
<1>3. /\ new \in Word /\ new.running = left /\ new.considerClose = consider
      /\ new.shouldClose = w.shouldClose /\ new.closeEnqueued = w.closeEnqueued
  BY <1>1, <1>2
<1> USE DEF left, consider
<1>4. Replacement(w, b) = new
  BY Zenon DEF Replacement
<1> QED BY <1>1, <1>3, <1>4

\* A subtask that ends changes the word, even if it found it at zero.
LEMMA ReplacementZero ==
  ASSUME NEW w \in Word, ~(w.running > 0), Replacement(w, TRUE) = w
  PROVE  FALSE
<1>1. w.running = 0 /\ w.running - 1 # w.running
  BY DEF Word
<1>2. Replacement(w, TRUE).running = w.running - 1
  BY <1>1 DEF Replacement, Word
<1> QED BY <1>1, <1>2

LEMMA AppendType ==
  ASSUME NEW q \in Seq(Element), NEW c \in Conversation,
         NEW k \in {"start", "consider", "close"}
  PROVE  LET e == [code |-> k, conv |-> c]
         IN  /\ Append(q, e) \in Seq(Element)
             /\ Len(Append(q, e)) = Len(q) + 1
             /\ DOMAIN Append(q, e) = DOMAIN q \cup {Len(q) + 1}
             /\ \A i \in DOMAIN q : Append(q, e)[i] = q[i]
             /\ Append(q, e)[Len(q) + 1] = e
<1>1. [code |-> k, conv |-> c] \in Element
  BY DEF Element
<1> QED BY <1>1

LEMMA TailType ==
  ASSUME NEW q \in Seq(Element), q # <<>>
  PROVE  /\ Tail(q) \in Seq(Element)
         /\ Len(Tail(q)) = Len(q) - 1
         /\ \A i \in DOMAIN Tail(q) : i + 1 \in DOMAIN q /\ Tail(q)[i] = q[i + 1]
         /\ 1 \in DOMAIN q /\ Head(q) = q[1]
  OBVIOUS

LEMMA ElementType ==
  ASSUME NEW q \in Seq(Element), NEW i \in DOMAIN q
  PROVE  q[i].conv \in Conversation
<1>1. q[i] \in Element
  OBVIOUS
<1> QED BY <1>1 DEF Element

-----------------------------------------------------------------------------
(* runningTasks and the tasks it counts. *)

LEMMA RunningFinite ==
  ASSUME NEW c \in Conversation
  PROVE  IsFiniteSet(Running(c)) /\ Cardinality(Running(c)) \in Nat
<1>1. Running(c) \subseteq Task
  BY DEF Running
<1>2. IsFiniteSet(Running(c))
  BY <1>1, FS_Subset, ActorsAssumption
<1> QED BY <1>2, FS_CardinalityType

\* A subtask that has not decremented runningTasks finds it above zero.
LEMMA RunningPositive ==
  ASSUME IInv, NEW t \in Task, cur[t] # NoConversation,
         ~(pc[t] = "enqueue" /\ ret[t] = "idle")
  PROVE  /\ cur[t] \in Conversation
         /\ word[cur[t]].running > 0
<1> DEFINE c == cur[t]
<1>1. c \in Conversation /\ life[c] = "open" /\ t \in Actor
  BY Actors DEF IInv, TypeOK, NoUseAfterFree
<1>2. t \in Running(c)
  BY DEF Running
<1>3. Cardinality(Running(c)) # 0
  BY <1>1, <1>2, RunningFinite, FS_EmptySet
<1>4. word[c].running >= Cardinality(Running(c))
  BY <1>1, RunningFinite DEF IInv, RunningTasksExact
<1>5. word[c].running \in Nat
  BY <1>1 DEF IInv, TypeOK, Word
<1> QED BY <1>1, <1>3, <1>4, <1>5, RunningFinite

-----------------------------------------------------------------------------
(* TypeOK *)

\* The actor that moves works on a conversation that is there.
LEMMA CurType ==
  ASSUME IInv, NEW a \in Actor, cur[a] # NoConversation
  PROVE  cur[a] \in Conversation /\ life[cur[a]] = "open"
  BY DEF IInv, TypeOK, NoUseAfterFree

LEMMA SocketTypes == ASSUME IInv, SocketStep PROVE TypeOK'
<1> USE DEF At, Goto, convVars, sharedVars, actorVars, MainPC, SerializePC
<1>0. TypeOK /\ MainPlaces
  BY DEF IInv
<1>1. CASE Select
  BY <1>0, <1>1, Actors DEF TypeOK, Select
<1>2. CASE SocketsDone
  BY <1>0, <1>2, Actors DEF TypeOK, SocketsDone
<1>3. CASE ReadFails
  <2>1. cur[Main] \in Conversation
    BY <1>0, <1>3, Actors DEF TypeOK, MainPlaces, ReadFails, ReadEnds
  <2>2. word' \in [Conversation -> Word]
    BY <1>0, <1>3, <2>1, FlagTypes DEF TypeOK, ReadFails, ReadEnds
  <2> QED BY <1>0, <1>3, <2>2, Actors DEF TypeOK, ReadFails, ReadEnds
<1>4. ASSUME NEW c \in Conversation, AcceptConversation(c) PROVE TypeOK'
  BY <1>0, <1>4, Actors DEF TypeOK, AcceptConversation
<1>5. ASSUME NEW c \in Conversation, PeerReadClosing(c) PROVE TypeOK'
  BY <1>0, <1>5, Actors DEF TypeOK, PeerReadClosing
<1>6. ASSUME NEW c \in Conversation, PeerReadOpen(c) PROVE TypeOK'
  BY <1>0, <1>6, Actors DEF TypeOK, PeerReadOpen
<1>7. ASSUME NEW n \in 0..MaxPerFragment, NEW rs \in [1..n -> Request],
             NEW ok \in BOOLEAN, ReadFragment(rs, ok)
      PROVE  TypeOK'
  <2> DEFINE c == cur[Main]
  <2>1. c \in Conversation
    BY <1>0, <1>7, Actors DEF TypeOK, MainPlaces, ReadFragment
  <2>2. queue' \in Seq(Element)
    BY <1>0, <1>7, <2>1, AppendType DEF TypeOK, ReadFragment, Enqueue
  <2>3. rs \in Seq(Request) /\ Len(rs) \in Nat
    BY BoundsAssumption
  <2>4. requests' \in [Conversation -> Seq(Request)]
    <3>1. requests[c] \o rs \in Seq(Request)
      BY <1>0, <2>1, <2>3 DEF TypeOK
    <3> QED BY <1>0, <1>7, <2>1, <3>1 DEF TypeOK, ReadFragment
  <2>5. owed' \in [Conversation -> Nat]
    <3>1. owed[c] + Len(rs) + (IF ok THEN 0 ELSE 1) \in Nat
      BY <1>0, <2>1, <2>3 DEF TypeOK
    <3> QED BY <1>0, <1>7, <2>1, <3>1 DEF TypeOK, ReadFragment
  <2>6. shouldError' \in [Conversation -> BOOLEAN]
    BY <1>0, <1>7, <2>1 DEF TypeOK, ReadFragment
  <2> QED BY <1>0, <1>7, <2>2, <2>4, <2>5, <2>6, Actors DEF TypeOK, ReadFragment
<1> QED BY <1>1, <1>2, <1>3, <1>4, <1>5, <1>6, <1>7 DEF SocketStep

LEMMA QueueTypes == ASSUME IInv, QueueStep PROVE TypeOK'
<1> USE DEF At, Goto, convVars, sharedVars, actorVars, MainPC
<1>0. TypeOK /\ MainPlaces
  BY DEF IInv
<1>a. pc[Main] \notin {"select", "sockets", "drain"} => cur[Main] \in Conversation
  BY <1>0, Actors DEF TypeOK, MainPlaces
<1>b. queue # <<>> => Tail(queue) \in Seq(Element)
  BY <1>0, TailType DEF TypeOK
<1>1. CASE DrainDone
  BY <1>0, <1>1, Actors DEF TypeOK, DrainDone
<1>2. CASE ErrorReply
  BY <1>0, <1>a, <1>2, Actors DEF TypeOK, ErrorReply, Received
<1>3. CASE NotFoundReply
  <2>1. word' \in [Conversation -> Word]
    BY <1>0, <1>a, <1>3, FlagTypes DEF TypeOK, NotFoundReply
  <2> QED BY <1>0, <1>a, <1>3, <2>1, Actors DEF TypeOK, NotFoundReply, Received
<1>4. CASE Dispatch
  BY <1>0, <1>a, <1>4, Actors DEF TypeOK, Dispatch, ServicePC
<1>5. CASE StartRunningLoad
  BY <1>0, <1>a, <1>5, Actors DEF TypeOK, StartRunningLoad
<1>6. CASE StartRunningCas
  <2> DEFINE c == cur[Main]
             old == snap[Main]
             new == [old EXCEPT !.running = @ + 1]
  <2>1. c \in Conversation /\ old \in Word /\ new \in Word
    <3>1. c \in Conversation /\ old \in Word
      BY <1>0, <1>a, <1>6, Actors DEF TypeOK, StartRunningCas, StartRunningSwap
    <3> QED BY <3>1, IncrementType
  <2>2. CASE word[c] = old
    <3>1. word' = [word EXCEPT ![c] = new] /\ pc' = [pc EXCEPT ![Main] = "startTask"]
      BY <1>6, <2>2 DEF StartRunningCas, StartRunningSwap
    <3>2. word' \in [Conversation -> Word]
      BY <1>0, <2>1, <3>1 DEF TypeOK
    <3> QED
      BY <1>0, <1>6, <2>2, <3>1, <3>2, Actors DEF TypeOK, StartRunningCas, StartRunningSwap
  <2>3. CASE word[c] # old
    <3>1. snap' = [snap EXCEPT ![Main] = word[c]] /\ UNCHANGED <<word, pc>>
      BY <1>6, <2>3 DEF StartRunningCas, StartRunningSwap
    <3>2. snap' \in [Actor -> Word]
      BY <1>0, <2>1, <3>1, Actors DEF TypeOK
    <3> QED BY <1>0, <1>6, <3>1, <3>2 DEF TypeOK, StartRunningCas, StartRunningSwap
  <2> QED BY <2>2, <2>3
<1>7. ASSUME NEW t \in Task, StartTask(t) PROVE TypeOK'
  BY <1>0, <1>a, <1>7, Actors DEF TypeOK, StartTask, TaskPC
<1>8. ASSUME NEW c \in Conversation, ConsiderClose(c) PROVE TypeOK'
  <2>1. CASE word[c].running = 0 /\ ~word[c].closeEnqueued
    <3>1. queue' \in Seq(Element)
      <4>1. queue # <<>> /\ queue' = Append(Tail(queue), [code |-> "close", conv |-> c])
        BY <1>8, <2>1 DEF ConsiderClose, Dequeue
      <4> QED BY <1>b, <4>1, AppendType
    <3>2. word' \in [Conversation -> Word]
      <4>1. word' = [word EXCEPT ![c].closeEnqueued = TRUE]
        BY <1>8, <2>1 DEF ConsiderClose
      <4>2. word \in [Conversation -> Word]
        BY <1>0 DEF TypeOK
      <4> QED BY <4>1, <4>2, FlagTypes
    <3>3. UNCHANGED <<convVars, working, owed, hungup, ready, actorVars>>
      BY <1>8 DEF ConsiderClose
    <3> QED BY <1>0, <3>1, <3>2, <3>3 DEF TypeOK
  <2>2. CASE ~(word[c].running = 0 /\ ~word[c].closeEnqueued)
    BY <1>0, <1>b, <1>8, <2>2 DEF TypeOK, ConsiderClose, Dequeue
  <2> QED BY <2>1, <2>2
<1>9. ASSUME NEW c \in Conversation, CloseAbandoned(c) PROVE TypeOK'
  BY <1>0, <1>b, <1>9 DEF TypeOK, CloseAbandoned, Dequeue
<1>10. ASSUME NEW c \in Conversation, CloseConversation(c) PROVE TypeOK'
  <2>1. word' \in [Conversation -> Word]
    BY <1>0, <1>10, FlagTypes DEF TypeOK, CloseConversation, Release
  <2> QED BY <1>0, <1>b, <1>10, <2>1 DEF TypeOK, CloseConversation, Release, Dequeue
<1>11. ASSUME NEW c \in Conversation, StartNothing(c) PROVE TypeOK'
  BY <1>0, <1>b, <1>11 DEF TypeOK, StartNothing, Dequeue
<1>12. ASSUME NEW c \in Conversation, StartError(c) PROVE TypeOK'
  BY <1>0, <1>b, <1>12, Actors DEF TypeOK, StartError, Dequeue
<1>13. ASSUME NEW c \in Conversation, StartRequest(c) PROVE TypeOK'
  <2>1. requests[c] \in Seq(Request) /\ requests[c] # <<>>
    BY <1>0, <1>13 DEF TypeOK, StartRequest
  <2>2. Tail(requests[c]) \in Seq(Request)
    BY <2>1
  <2>3. requests' \in [Conversation -> Seq(Request)]
    BY <1>0, <1>13, <2>2 DEF TypeOK, StartRequest
  <2>4. requestCount' \in [Conversation -> Nat]
    BY <1>0, <1>13 DEF TypeOK, StartRequest
  <2>5. /\ pending' \in [Conversation -> Service \cup {NoService}]
        /\ wanted' \in [Actor -> Service \cup {NoService}]
        /\ pc' \in [Actor -> MainPC \cup ServicePC \cup SerializePC \cup TaskPC]
    <3>1. CASE Head(requests[c]) \in Service
      <4> DEFINE r == Head(requests[c])
      <4>1. /\ pending' = [pending EXCEPT ![c] = r]
            /\ wanted' = [wanted EXCEPT ![Main] = r]
            /\ pc' = [pc EXCEPT ![Main] = "dispatch"]
        BY <1>13, <3>1 DEF StartRequest, PendingService
      <4> HIDE DEF r
      <4>2. r \in Service
        BY <3>1 DEF r
      <4> QED BY <1>0, <4>1, <4>2, Actors DEF TypeOK
    <3>2. CASE Head(requests[c]) \notin Service
      BY <1>0, <1>13, <3>2, Actors DEF TypeOK, StartRequest
    <3> QED BY <3>1, <3>2
  <2>6. queue' \in Seq(Element) /\ cur' \in [Actor -> Conversation \cup {NoConversation}]
    BY <1>0, <1>b, <1>13, Actors DEF TypeOK, StartRequest, Dequeue
  <2> QED
    BY <1>0, <1>13, <2>3, <2>4, <2>5, <2>6 DEF TypeOK, StartRequest
<1> QED
  BY <1>1, <1>2, <1>3, <1>4, <1>5, <1>6, <1>7, <1>8, <1>9, <1>10, <1>11, <1>12, <1>13
  DEF QueueStep

\* The steps of handleHttpService, handleServiceFailed and
\* serializeConsiderCloseEnqueue; the actor has a conversation in each.
LEMMA ServicePlace ==
  ASSUME IInv, NEW a \in Actor, ServiceStep(a)
  PROVE  /\ pc[a] \in ServicePC \cup SerializePC
         /\ cur[a] \in Conversation /\ life[cur[a]] = "open"
         /\ pc[a] \in SerializePC => ret[a] \in {"sockets", "idle", "failFree"}
         /\ ret[a] = "idle" /\ pc[a] \in SerializePC => a \in Task
<1>1. pc[a] \in ServicePC \cup SerializePC
  BY DEF ServiceStep, ServicePC, SerializePC, At, ServeCheck, FinishResponse,
         FreeResponse, ServiceDone, ServiceAbends, FailSave, FailClear, FailClose,
         FailFree, SerializeLoad, SerializeCas, SerializeSwap, SerializeEnqueue
<1>2. cur[a] # NoConversation /\ (a \in Task \/ a = Main)
  BY <1>1 DEF IInv, TaskPlaces, MainPlaces, ServicePC, SerializePC, Actor
<1>3. /\ pc[a] \in SerializePC => ret[a] \in {"sockets", "idle", "failFree"}
      /\ ret[a] = "idle" /\ pc[a] \in SerializePC => a \in Task
  BY <1>2 DEF IInv, TaskPlaces, MainPlaces
<1> QED BY <1>1, <1>2, <1>3, CurType

LEMMA ServiceTypes == ASSUME IInv, NEW a \in Actor, ServiceStep(a) PROVE TypeOK'
<1> USE DEF At, Goto, convVars, sharedVars, actorVars
<1> DEFINE c == cur[a]
<1>0. TypeOK /\ c \in Conversation
  BY ServicePlace DEF IInv
<1>1. CASE ServeCheck(a)
  BY <1>0, <1>1 DEF TypeOK, ServeCheck, ServicePC
<1>2. CASE FinishResponse(a)
  BY <1>0, <1>2 DEF TypeOK, FinishResponse, ServicePC, Received
<1>3. CASE FreeResponse(a)
  BY <1>0, <1>3 DEF TypeOK, FreeResponse, ServicePC
<1>4. CASE ServiceDone(a)
  BY <1>0, <1>4 DEF TypeOK, ServiceDone, ServiceReturns, MainPC, SerializePC
<1>5. CASE ServiceAbends(a)
  BY <1>0, <1>5 DEF TypeOK, ServiceAbends, ServicePC
<1>6. CASE FailSave(a)
  BY <1>0, <1>6 DEF TypeOK, FailSave, ServicePC
<1>7. CASE FailClear(a)
  BY <1>0, <1>7 DEF TypeOK, FailClear, ServicePC
<1>8. CASE FailClose(a)
  <2>1. word' \in [Conversation -> Word]
    BY <1>0, <1>8, FlagTypes DEF TypeOK, FailClose
  <2> QED BY <1>0, <1>8, <2>1 DEF TypeOK, FailClose, SerializePC
<1>9. CASE FailFree(a)
  BY <1>0, <1>9 DEF TypeOK, FailFree, ServicePC
<1>10. CASE SerializeLoad(a)
  BY <1>0, <1>10 DEF TypeOK, SerializeLoad, SerializePC
<1>11. CASE SerializeCas(a)
  <2> DEFINE new == Replacement(snap[a], ret[a] = "idle")
  <2>1. pc[a] = "cas" /\ ret[a] \in {"sockets", "idle", "failFree"}
    BY <1>11, ServicePlace DEF SerializeCas, SerializeSwap, SerializePC
  <2>2. SerializeReturns(a) =>
          /\ pc' \in [Actor -> MainPC \cup ServicePC \cup SerializePC \cup TaskPC]
          /\ cur' \in [Actor -> Conversation \cup {NoConversation}]
          /\ snap' \in [Actor -> Word]
    BY <1>0, <2>1, ZeroWordType
    DEF TypeOK, SerializeReturns, MainPC, ServicePC, TaskPC
  <2>3. UNCHANGED <<convVars, working, queue, owed, hungup, ready, ret, wanted,
                    serving, saved, slhFrees>>
    BY <1>11 DEF SerializeCas, SerializeSwap
  <2>4. CASE new = snap[a]
    <3>1. SerializeReturns(a) /\ UNCHANGED word
      BY <1>11, <2>4 DEF SerializeCas, SerializeSwap
    <3> QED BY <1>0, <2>2, <2>3, <3>1 DEF TypeOK
  <2>5. CASE new # snap[a] /\ word[c] = snap[a]
    <3>1. word' = [word EXCEPT ![c] = new]
      BY <1>11, <2>5 DEF SerializeCas, SerializeSwap
    <3>2. \/ SerializeReturns(a)
          \/ pc' = [pc EXCEPT ![a] = "enqueue"] /\ UNCHANGED <<cur, snap>>
      BY <1>11, <2>5 DEF SerializeCas, SerializeSwap
    <3>3. new \in Word
      <4>1. ret[a] = "idle" => a \in Task /\ cur[a] # NoConversation
        BY <1>0, <2>1, ServicePlace, ConversationsAssumption DEF SerializePC
      <4>2. ret[a] = "idle" => snap[a].running > 0
        BY <2>1, <2>5, <4>1, RunningPositive
      <4>3. snap[a] \in Word
        BY <1>0 DEF TypeOK
      <4> QED BY <4>2, <4>3, ReplacementFacts
    <3>4. word' \in [Conversation -> Word]
      BY <1>0, <3>1, <3>3 DEF TypeOK
    <3>5. pc' \in [Actor -> MainPC \cup ServicePC \cup SerializePC \cup TaskPC]
          /\ cur' \in [Actor -> Conversation \cup {NoConversation}]
          /\ snap' \in [Actor -> Word]
      BY <1>0, <2>2, <3>2 DEF TypeOK, SerializePC
    <3> QED BY <1>0, <2>3, <3>4, <3>5 DEF TypeOK
  <2>6. CASE new # snap[a] /\ word[c] # snap[a]
    <3>1. snap' = [snap EXCEPT ![a] = word[c]] /\ UNCHANGED <<word, pc, cur>>
      BY <1>11, <2>6 DEF SerializeCas, SerializeSwap
    <3>2. snap' \in [Actor -> Word]
      BY <1>0, <3>1 DEF TypeOK
    <3> QED BY <1>0, <2>3, <3>1, <3>2 DEF TypeOK
  <2> QED BY <2>4, <2>5, <2>6
<1>12. CASE SerializeEnqueue(a)
  <2>1. ret[a] \in {"sockets", "idle", "failFree"}
    BY <1>12, ServicePlace DEF SerializeEnqueue, SerializePC
  <2>2. queue' \in Seq(Element)
    BY <1>0, <1>12, AppendType DEF TypeOK, SerializeEnqueue, Enqueue
  <2>3. /\ pc' \in [Actor -> MainPC \cup ServicePC \cup SerializePC \cup TaskPC]
        /\ cur' \in [Actor -> Conversation \cup {NoConversation}]
        /\ snap' \in [Actor -> Word]
    BY <1>0, <1>12, <2>1, ZeroWordType
    DEF TypeOK, SerializeEnqueue, SerializeReturns, MainPC, ServicePC, TaskPC
  <2> QED BY <1>0, <1>12, <2>2, <2>3 DEF TypeOK, SerializeEnqueue
<1> QED
  BY <1>1, <1>2, <1>3, <1>4, <1>5, <1>6, <1>7, <1>8, <1>9, <1>10, <1>11, <1>12
  DEF ServiceStep

LEMMA TaskTypes == ASSUME IInv, NEW t \in Task, TaskStep(t) PROVE TypeOK'
<1> USE DEF At, Goto, convVars, sharedVars, actorVars
<1>0. TypeOK /\ t \in Actor
  BY Actors DEF IInv
<1>1. CASE TaskStart(t)
  BY <1>0, <1>1 DEF TypeOK, TaskStart, SerializePC, TaskPC
<1>2. CASE TaskCall(t)
  <2>1. cur[t] \in Conversation
    BY <1>0, <1>2, CurType DEF TaskCall, IInv, TaskPlaces
  <2> QED BY <1>0, <1>2, <2>1 DEF TypeOK, TaskCall, ServicePC
<1>3. CASE ServiceStep(t)
  BY <1>0, <1>3, ServiceTypes
<1> QED BY <1>1, <1>2, <1>3 DEF TaskStep

LEMMA TypeStep == ASSUME IInv, [Next]_vars PROVE TypeOK'
<1>1. CASE MainStep
  BY <1>1, SocketTypes, QueueTypes, ServiceTypes, Actors DEF MainStep
<1>2. CASE \E t \in Task : TaskStep(t)
  BY <1>2, TaskTypes
<1>3. ASSUME NEW c \in Conversation, PeerHangup(c) PROVE TypeOK'
  BY <1>3 DEF IInv, TypeOK, PeerHangup, convVars, sharedVars, actorVars
<1>4. CASE UNCHANGED vars
  BY <1>4 DEF IInv, TypeOK, vars, convVars, sharedVars, actorVars
<1> QED BY <1>1, <1>2, <1>3, <1>4 DEF Next

-----------------------------------------------------------------------------
(* TaskPlaces and MainPlaces *)

LEMMA ServicePlaces ==
  ASSUME IInv, NEW a \in Actor, ServiceStep(a) PROVE TaskPlaces' /\ MainPlaces'
<1> USE DEF At, Goto, actorVars
<1>0. /\ TypeOK /\ TaskPlaces /\ MainPlaces
      /\ cur[a] \in Conversation /\ cur[a] # NoConversation
      /\ pc[a] \in SerializePC => ret[a] \in {"sockets", "idle", "failFree"}
      /\ ret[a] = "idle" /\ pc[a] \in SerializePC => a \in Task
  BY ServicePlace, ConversationsAssumption DEF IInv
\* It is enough to look at the actor that moves.
<1> DEFINE Others == \A b \in Actor \ {a} :
                       pc'[b] = pc[b] /\ cur'[b] = cur[b] /\ ret'[b] = ret[b]
           Inner == /\ pc'[a] \in ServicePC \cup SerializePC
                    /\ cur'[a] = cur[a]
                    /\ pc'[a] \in SerializePC =>
                         IF pc[a] \in SerializePC THEN ret'[a] = ret[a]
                           ELSE ret'[a] = "failFree"
           Return == SerializeReturns(a) /\ pc[a] \in SerializePC /\ UNCHANGED ret
<1>1. Others /\ Inner => TaskPlaces' /\ MainPlaces'
  BY <1>0, Actors DEF TaskPlaces, MainPlaces, ServicePC, SerializePC, TaskPC, MainPC
<1>2. Return => TaskPlaces' /\ MainPlaces'
  <2> SUFFICES ASSUME Return PROVE TaskPlaces' /\ MainPlaces'
    OBVIOUS
  <2>1. Others /\ pc'[a] = ret[a] /\ ret'[a] = ret[a]
        /\ cur'[a] = IF ret[a] = "failFree" THEN cur[a] ELSE NoConversation
    BY <1>0 DEF TypeOK, SerializeReturns
  <2> QED
    BY <1>0, <2>1, Actors DEF TaskPlaces, MainPlaces, ServicePC, SerializePC, TaskPC, MainPC
<1>3. CASE ServeCheck(a)
  BY <1>0, <1>1, <1>3 DEF TypeOK, ServeCheck, ServicePC, SerializePC
<1>4. CASE FinishResponse(a)
  BY <1>0, <1>1, <1>4 DEF TypeOK, FinishResponse, ServicePC, SerializePC
<1>5. CASE FreeResponse(a)
  BY <1>0, <1>1, <1>5 DEF TypeOK, FreeResponse, ServicePC, SerializePC
<1>6. CASE ServiceDone(a)
  <2>1. CASE a = Main
    <3>1. /\ \A t \in Task : pc'[t] = pc[t] /\ cur'[t] = cur[t] /\ ret'[t] = ret[t]
          /\ pc'[Main] = "drain" /\ cur'[Main] = NoConversation
      BY <1>0, <1>6, <2>1, Actors DEF TypeOK, ServiceDone, ServiceReturns
    <3>2. TaskPlaces'
      BY <1>0, <3>1 DEF TaskPlaces, TaskPC, ServicePC, SerializePC
    <3> QED BY <3>1, <3>2 DEF MainPlaces, MainPC, SerializePC
  <2>2. CASE a # Main
    BY <1>0, <1>6, <2>2, Actors
    DEF TypeOK, ServiceDone, ServiceReturns, TaskPlaces, MainPlaces, SerializePC, Actor
  <2> QED BY <2>1, <2>2
<1>7. CASE ServiceAbends(a)
  BY <1>0, <1>1, <1>7 DEF TypeOK, ServiceAbends, ServicePC, SerializePC
<1>8. CASE FailSave(a)
  BY <1>0, <1>1, <1>8 DEF TypeOK, FailSave, ServicePC, SerializePC
<1>9. CASE FailClear(a)
  BY <1>0, <1>1, <1>9 DEF TypeOK, FailClear, ServicePC, SerializePC
<1>10. CASE FailClose(a)
  BY <1>0, <1>1, <1>10 DEF TypeOK, FailClose, ServicePC, SerializePC
<1>11. CASE FailFree(a)
  BY <1>0, <1>1, <1>11 DEF TypeOK, FailFree, ServicePC, SerializePC
<1>12. CASE SerializeLoad(a)
  BY <1>0, <1>1, <1>12 DEF TypeOK, SerializeLoad, ServicePC, SerializePC
<1>13. CASE SerializeCas(a)
  <2>1. pc[a] = "cas" /\ UNCHANGED ret
    BY <1>13 DEF SerializeCas, SerializeSwap
  <2>2. \/ SerializeReturns(a)
        \/ pc' = [pc EXCEPT ![a] = "enqueue"] /\ UNCHANGED cur
        \/ UNCHANGED <<pc, cur>>
    BY <1>13 DEF SerializeCas, SerializeSwap
  <2> QED BY <1>0, <1>1, <1>2, <2>1, <2>2 DEF TypeOK, SerializePC
<1>14. CASE SerializeEnqueue(a)
  BY <1>0, <1>2, <1>14 DEF SerializeEnqueue, SerializePC
<1> QED
  BY <1>3, <1>4, <1>5, <1>6, <1>7, <1>8, <1>9, <1>10, <1>11, <1>12, <1>13, <1>14
  DEF ServiceStep

LEMMA MainPlacesStep ==
  ASSUME IInv, SocketStep \/ QueueStep PROVE TaskPlaces' /\ MainPlaces'
<1> USE DEF At, Goto, actorVars, MainPC, ServicePC, SerializePC
<1>0. TypeOK /\ TaskPlaces /\ MainPlaces
  BY DEF IInv
\* Only the main task moves.
<1> DEFINE MainOnly == \A t \in Task :
                         pc'[t] = pc[t] /\ cur'[t] = cur[t] /\ ret'[t] = ret[t]
<1>t. MainOnly => TaskPlaces'
  BY <1>0 DEF TaskPlaces, TaskPC
<1> USE <1>0, <1>t, Actors, ConversationsAssumption DEF TypeOK
<1>1. CASE Select BY <1>1 DEF Select, MainPlaces
<1>2. CASE SocketsDone BY <1>2 DEF SocketsDone, MainPlaces
<1>3. CASE ReadFails BY <1>3 DEF ReadFails, ReadEnds, MainPlaces
<1>4. ASSUME NEW c \in Conversation, AcceptConversation(c) PROVE TaskPlaces' /\ MainPlaces'
  BY <1>4 DEF AcceptConversation, MainPlaces
<1>5. ASSUME NEW c \in Conversation, PeerReadClosing(c) PROVE TaskPlaces' /\ MainPlaces'
  BY <1>5 DEF PeerReadClosing, MainPlaces
<1>6. ASSUME NEW c \in Conversation, PeerReadOpen(c) PROVE TaskPlaces' /\ MainPlaces'
  BY <1>6 DEF PeerReadOpen, MainPlaces
<1>7. ASSUME NEW n \in 0..MaxPerFragment, NEW rs \in [1..n -> Request],
             NEW ok \in BOOLEAN, ReadFragment(rs, ok)
      PROVE  TaskPlaces' /\ MainPlaces'
  BY <1>7 DEF ReadFragment, MainPlaces
<1>8. CASE DrainDone BY <1>8 DEF DrainDone, MainPlaces
<1>9. CASE ErrorReply BY <1>9 DEF ErrorReply, MainPlaces
<1>10. CASE NotFoundReply BY <1>10 DEF NotFoundReply, MainPlaces
<1>11. CASE Dispatch BY <1>11 DEF Dispatch, MainPlaces
<1>12. CASE StartRunningLoad BY <1>12 DEF StartRunningLoad, MainPlaces
<1>13. CASE StartRunningCas
  <2>1. /\ pc[Main] = "incCas" /\ UNCHANGED <<cur, ret>>
        /\ pc' = [pc EXCEPT ![Main] = "startTask"] \/ UNCHANGED pc
    BY <1>13 DEF StartRunningCas, StartRunningSwap
  <2> QED BY <2>1 DEF MainPlaces
<1>14. ASSUME NEW t \in Task, StartTask(t) PROVE TaskPlaces' /\ MainPlaces'
  BY <1>14 DEF StartTask, MainPlaces, TaskPlaces, TaskPC
<1>15. ASSUME NEW c \in Conversation, ConsiderClose(c) PROVE TaskPlaces' /\ MainPlaces'
  BY <1>15 DEF ConsiderClose, MainPlaces
<1>16. ASSUME NEW c \in Conversation, CloseAbandoned(c) PROVE TaskPlaces' /\ MainPlaces'
  BY <1>16 DEF CloseAbandoned, MainPlaces
<1>17. ASSUME NEW c \in Conversation, CloseConversation(c) PROVE TaskPlaces' /\ MainPlaces'
  BY <1>17 DEF CloseConversation, Release, MainPlaces
<1>18. ASSUME NEW c \in Conversation, StartNothing(c) PROVE TaskPlaces' /\ MainPlaces'
  BY <1>18 DEF StartNothing, MainPlaces
<1>19. ASSUME NEW c \in Conversation, StartError(c) PROVE TaskPlaces' /\ MainPlaces'
  BY <1>19 DEF StartError, Dequeue, MainPlaces
<1>20. ASSUME NEW c \in Conversation, StartRequest(c) PROVE TaskPlaces' /\ MainPlaces'
  <2>1. /\ cur' = [cur EXCEPT ![Main] = c] /\ UNCHANGED ret
        /\ \E l \in {"dispatch", "notFoundReply", "notFoundClose"} :
             pc' = [pc EXCEPT ![Main] = l]
    BY <1>20 DEF StartRequest
  <2> QED BY <2>1 DEF MainPlaces
<1>21. SocketStep => TaskPlaces' /\ MainPlaces'
  BY ONLY <1>1, <1>2, <1>3, <1>4, <1>5, <1>6, <1>7 DEF SocketStep
<1>22. QueueStep => TaskPlaces' /\ MainPlaces'
  BY ONLY <1>8, <1>9, <1>10, <1>11, <1>12, <1>13, <1>14, <1>15, <1>16, <1>17, <1>18,
     <1>19, <1>20
  DEF QueueStep
<1> QED BY <1>21, <1>22

LEMMA PlacesStep == ASSUME IInv, [Next]_vars PROVE TaskPlaces' /\ MainPlaces'
<1>1. ASSUME NEW t \in Task, TaskStart(t) \/ TaskCall(t) PROVE TaskPlaces' /\ MainPlaces'
  <2>1. /\ pc[t] \in {"start", "call"} /\ UNCHANGED cur
        /\ \/ pc' = [pc EXCEPT ![t] = "load"] /\ ret' = [ret EXCEPT ![t] = "idle"]
           \/ pc' = [pc EXCEPT ![t] = "call"] /\ UNCHANGED ret
           \/ pc' = [pc EXCEPT ![t] = "serve"] /\ UNCHANGED ret
    BY <1>1 DEF TaskStart, TaskCall, At, Goto
  <2> QED
    BY <2>1, Actors
    DEF IInv, TypeOK, TaskPlaces, MainPlaces, MainPC, ServicePC, SerializePC, TaskPC
<1>2. ASSUME NEW c \in Conversation, PeerHangup(c) PROVE TaskPlaces' /\ MainPlaces'
  BY <1>2 DEF PeerHangup, actorVars, IInv, TaskPlaces, MainPlaces
<1>3. CASE UNCHANGED vars
  BY <1>3 DEF vars, actorVars, IInv, TaskPlaces, MainPlaces
<1> QED
  BY <1>1, <1>2, <1>3, MainPlacesStep, ServicePlaces, Actors DEF Next, MainStep, TaskStep

-----------------------------------------------------------------------------
(* The close protocol.  Steps that do not take part in it are treated      *)
(* together: QuietStep and PopStep say what such a step leaves alone.      *)

SafeParts ==
  /\ UnusedIsZero
  /\ RunningTasksExact
  /\ NoUseAfterFree
  /\ OneCloseInFlight
  /\ CloseIsConsidered
  /\ CloseIsLast

\* No actor but a moves.
OnlyMoves(a) ==
  \A b \in Actor \ {a} : pc'[b] = pc[b] /\ cur'[b] = cur[b] /\ ret'[b] = ret[b]

\* An actor moves, but not to or from the two places the invariant speaks of,
\* and what the main task turns to is an open conversation.
QuietMove(a) ==
  /\ OnlyMoves(a)
  /\ pc[a] \notin {"enqueue", "startTask"}
  /\ pc'[a] \notin {"enqueue", "startTask"}
  /\ \/ cur'[a] = cur[a]
     \/ /\ a = Main
        /\ \/ cur'[a] = NoConversation
           \/ cur'[a] \in Conversation /\ life[cur'[a]] = "open"

QuietStep(a) ==
  /\ QuietMove(a)
  /\ UNCHANGED <<life, queue>>
  /\ \A c \in Conversation :
       /\ word'[c].running = word[c].running
       /\ word'[c].considerClose = word[c].considerClose
       /\ life[c] # "open" => word'[c] = word[c]
  /\ queue = <<>> \/ (InSocketPass' => InSocketPass)

\* The main task takes an element off the queue.
PopStep ==
  /\ QuietMove(Main)
  /\ UNCHANGED <<life, word>>
  /\ queue # <<>> /\ queue' = Tail(queue)
  /\ ~InSocketPass'

\* The tasks a conversation counts change only when one of them moves to or
\* from it, or decrements.
LEMMA RunningFrame ==
  ASSUME NEW c \in Conversation,
         \A t \in Task :
           cur'[t] = c /\ ~(pc'[t] = "enqueue" /\ ret'[t] = "idle")
             <=> cur[t] = c /\ ~(pc[t] = "enqueue" /\ ret[t] = "idle")
  PROVE  Running(c)' = Running(c)
  BY DEF Running

LEMMA QuietRunning ==
  ASSUME IInv, NEW a \in Actor, QuietMove(a), NEW c \in Conversation
  PROVE  /\ Running(c)' = Running(c)
         /\ (pc[Main] = "startTask" /\ cur[Main] = c)' <=>
               pc[Main] = "startTask" /\ cur[Main] = c
<1>1. Running(c)' = Running(c)
  BY RunningFrame, Actors DEF QuietMove, OnlyMoves
<1>2. (pc[Main] = "startTask" /\ cur[Main] = c)' <=>
         pc[Main] = "startTask" /\ cur[Main] = c
  BY Actors DEF QuietMove, OnlyMoves
<1> QED BY <1>1, <1>2

LEMMA QuietCur ==
  ASSUME IInv, NEW a \in Actor, QuietMove(a), life' = life
  PROVE  \A b \in Actor : cur'[b] # NoConversation => life'[cur'[b]] = "open"
  BY DEF IInv, NoUseAfterFree, QuietMove, OnlyMoves

LEMMA QuietSafe == ASSUME IInv, NEW a \in Actor, QuietStep(a) PROVE SafeParts'
<1>0. SafeParts /\ QuietMove(a) /\ UNCHANGED <<life, queue>>
  BY DEF IInv, SafeParts, QuietStep
<1>1. UnusedIsZero'
  BY <1>0 DEF SafeParts, UnusedIsZero, QuietStep
<1>2. RunningTasksExact'
  BY <1>0, QuietRunning DEF SafeParts, RunningTasksExact, QuietStep
<1>3. NoUseAfterFree'
  BY <1>0, QuietCur DEF SafeParts, NoUseAfterFree
<1>4. OneCloseInFlight'
  BY <1>0 DEF SafeParts, OneCloseInFlight, CloseRequest, QuietMove, OnlyMoves
<1>5. \A i \in DOMAIN queue : queue[i].conv \in Conversation
  BY ElementType DEF IInv, TypeOK
<1>6. \A b \in Actor : pc[b] = "enqueue" => cur[b] \in Conversation
  BY CurType DEF IInv, TaskPlaces, MainPlaces, Actor, SerializePC
<1>7. CloseIsConsidered'
  BY <1>0, <1>5, <1>6
  DEF SafeParts, CloseIsConsidered, CloseRequest, QuietStep, QuietMove, OnlyMoves
<1>8. CloseIsLast'
  BY <1>0 DEF SafeParts, CloseIsLast, QuietStep
<1> QED BY <1>1, <1>2, <1>3, <1>4, <1>7, <1>8 DEF SafeParts

LEMMA PopSafe == ASSUME IInv, PopStep PROVE SafeParts'
<1>0. SafeParts /\ QuietMove(Main) /\ Main \in Actor /\ UNCHANGED <<life, word>>
  BY Actors DEF IInv, SafeParts, PopStep
<1>q. /\ queue \in Seq(Element) /\ queue' \in Seq(Element)
      /\ \A i \in DOMAIN queue' : i + 1 \in DOMAIN queue /\ queue'[i] = queue[i + 1]
  BY TailType DEF IInv, TypeOK, PopStep
<1>i. \A i \in DOMAIN queue' : i \in Nat
  BY <1>q
<1>1. UnusedIsZero'
  BY <1>0 DEF SafeParts, UnusedIsZero
<1>2. RunningTasksExact'
  BY <1>0, QuietRunning DEF SafeParts, RunningTasksExact
<1>3. NoUseAfterFree'
  BY <1>0, <1>q, QuietCur DEF SafeParts, NoUseAfterFree
<1>4. OneCloseInFlight'
  BY <1>0, <1>q, <1>i DEF SafeParts, OneCloseInFlight, CloseRequest, QuietMove, OnlyMoves
<1>5. CloseIsConsidered'
  BY <1>0, <1>q DEF SafeParts, CloseIsConsidered, CloseRequest, QuietMove, OnlyMoves
<1>6. CloseIsLast'
  BY <1>0, <1>q, <1>i DEF SafeParts, CloseIsLast, PopStep
<1> QED BY <1>1, <1>2, <1>3, <1>4, <1>5, <1>6 DEF SafeParts

\* HTTP_CONSIDER_CLOSE_CONVERSATION becomes HTTP_CLOSE_CONVERSATION.
LEMMA ConsiderSafe ==
  ASSUME IInv, NEW c \in Conversation, Dequeue("consider", c),
         queue' = Append(Tail(queue), [code |-> "close", conv |-> c]),
         word' = [word EXCEPT ![c].closeEnqueued = TRUE],
         UNCHANGED <<life, pc, cur, ret>>
  PROVE  SafeParts'
<1> DEFINE q == Tail(queue)
           n == Len(q) + 1
<1>0. SafeParts /\ TypeOK /\ pc[Main] = "drain"
  BY DEF IInv, SafeParts, Dequeue, At
<1>1. /\ queue[1].code = "consider" /\ queue[1].conv = c /\ 1 \in DOMAIN queue
      /\ q \in Seq(Element)
      /\ \A i \in DOMAIN q : i + 1 \in DOMAIN queue /\ q[i] = queue[i + 1] /\ i + 1 # 1
  BY <1>0, TailType DEF TypeOK, Dequeue
<1>2. /\ DOMAIN queue' = DOMAIN q \cup {n} /\ n \notin DOMAIN q
      /\ \A i \in DOMAIN q : queue'[i] = q[i]
      /\ queue'[n].code = "close" /\ queue'[n].conv = c
      /\ \A i \in DOMAIN q : i \in Nat /\ i < n
      /\ n \in Nat
  <2>1. /\ DOMAIN queue' = DOMAIN q \cup {n}
        /\ \A i \in DOMAIN q : queue'[i] = q[i]
        /\ queue'[n] = [code |-> "close", conv |-> c]
    BY <1>1, AppendType
  <2> QED BY <1>1, <2>1
<1>3. life[c] = "open"
  BY <1>0, <1>1 DEF SafeParts, NoUseAfterFree
<1>4. \A d \in Conversation :
        /\ word'[d].running = word[d].running
        /\ word'[d].considerClose = word[d].considerClose
        /\ d # c => word'[d] = word[d]
  BY <1>0 DEF TypeOK, Word
<1>5. UnusedIsZero'
  BY <1>0, <1>3, <1>4 DEF SafeParts, UnusedIsZero
<1>6. RunningTasksExact'
  BY <1>0, <1>4, RunningFrame DEF SafeParts, RunningTasksExact
<1>7. NoUseAfterFree'
  BY <1>0, <1>1, <1>2, <1>3 DEF SafeParts, NoUseAfterFree
\* No other close request of c: the one taken off the queue was the only one.
<1>8. /\ \A i \in DOMAIN q : ~(q[i].code # "start" /\ q[i].conv = c)
      /\ \A a \in Actor : ~(pc[a] = "enqueue" /\ cur[a] = c)
  BY <1>0, <1>1 DEF SafeParts, OneCloseInFlight, CloseRequest
<1>9. OneCloseInFlight'
  BY <1>0, <1>1, <1>2, <1>8 DEF SafeParts, OneCloseInFlight, CloseRequest
<1>10. CloseIsConsidered'
  <2>1. word[c].considerClose
    BY <1>0, <1>1 DEF SafeParts, CloseIsConsidered, CloseRequest
  <2>2. \A i \in DOMAIN q : q[i].conv \in Conversation
    BY <1>1, ElementType
  <2>3. \A a \in Actor : pc[a] = "enqueue" => cur[a] \in Conversation
    BY CurType DEF IInv, TaskPlaces, MainPlaces, Actor, SerializePC
  <2> QED
    BY <1>0, <1>1, <1>2, <1>4, <2>1, <2>2, <2>3 DEF SafeParts, CloseIsConsidered, CloseRequest
<1>11. CloseIsLast'
  <2>1. ~InSocketPass'
    BY <1>0 DEF InSocketPass, SerializePC
  <2>2. \A i, j \in DOMAIN q : q[i].code = "close" /\ q[j].conv = q[i].conv => j <= i
    BY <1>0, <1>1, <1>2 DEF SafeParts, CloseIsLast
  <2> QED BY <1>2, <1>8, <2>1, <2>2 DEF CloseIsLast
<1> QED BY <1>5, <1>6, <1>7, <1>9, <1>10, <1>11 DEF SafeParts

\* HTTP_CLOSE_CONVERSATION frees the block: nobody uses it any more.
LEMMA CloseSafe ==
  ASSUME IInv, NEW c \in Conversation, CloseConversation(c) PROVE SafeParts'
<1>0. /\ SafeParts /\ TypeOK /\ pc[Main] = "drain" /\ cur[Main] = NoConversation
      /\ UNCHANGED <<pc, cur, ret>> /\ Main \in Actor
  BY Actors
  DEF IInv, SafeParts, CloseConversation, Release, Dequeue, At, actorVars, MainPlaces
<1>1. /\ queue[1].code = "close" /\ queue[1].conv = c /\ 1 \in DOMAIN queue
      /\ queue' = Tail(queue) /\ queue' \in Seq(Element)
      /\ \A i \in DOMAIN queue' :
           i \in Nat /\ i + 1 \in DOMAIN queue /\ queue'[i] = queue[i + 1] /\ i + 1 > 1
  BY <1>0, TailType DEF TypeOK, CloseConversation, Release, Dequeue
<1>2. /\ word[c].running = 0
      /\ life' = [life EXCEPT ![c] = "freed"]
      /\ word' = [word EXCEPT ![c] = ZeroWord]
  BY DEF CloseConversation, Release
<1>3. life[c] = "open"
  BY <1>0, <1>1 DEF SafeParts, NoUseAfterFree
<1>4. Running(c) = {}
  <2>1. Cardinality(Running(c)) = 0
    BY <1>0, <1>2, <1>3, RunningFinite DEF SafeParts, RunningTasksExact
  <2> QED BY <2>1, RunningFinite, FS_EmptySet
<1>5. \A a \in Actor : cur[a] # c
  <2>1. \A a \in Actor : cur[a] = c => pc[a] # "enqueue"
    BY <1>0, <1>1 DEF SafeParts, OneCloseInFlight, CloseRequest
  <2>2. \A t \in Task : cur[t] # c
    BY <1>4, <2>1, Actors DEF Running
  <2> QED BY <1>0, <2>2, ConversationsAssumption DEF Actor
<1>6. \A i \in DOMAIN queue' : queue'[i].conv # c
  BY <1>0, <1>1 DEF SafeParts, CloseIsLast
<1>7. /\ \A d \in Conversation : d # c => life'[d] = life[d] /\ word'[d] = word[d]
      /\ life'[c] # "open" /\ word'[c] = ZeroWord
  BY <1>0, <1>2 DEF TypeOK
<1>8. \A i \in DOMAIN queue' : queue'[i].conv \in Conversation
  BY <1>1, ElementType
<1>9. UnusedIsZero'
  BY <1>0, <1>7 DEF SafeParts, UnusedIsZero
<1>10. RunningTasksExact'
  BY <1>0, <1>7, RunningFrame DEF SafeParts, RunningTasksExact
<1>11. NoUseAfterFree'
  <2>1. \A a \in Actor : cur[a] # NoConversation => cur[a] \in Conversation
    BY <1>0 DEF TypeOK
  <2> QED BY <1>0, <1>1, <1>5, <1>6, <1>7, <1>8, <2>1 DEF SafeParts, NoUseAfterFree
<1>12. OneCloseInFlight'
  BY <1>0, <1>1 DEF SafeParts, OneCloseInFlight, CloseRequest
<1>13. CloseIsConsidered'
  <2>1. \A a \in Actor : pc[a] = "enqueue" => cur[a] \in Conversation
    BY CurType DEF IInv, TaskPlaces, MainPlaces, Actor, SerializePC
  <2> QED
    BY <1>0, <1>1, <1>5, <1>6, <1>7, <1>8, <2>1 DEF SafeParts, CloseIsConsidered, CloseRequest
<1>14. CloseIsLast'
  BY <1>0, <1>1 DEF SafeParts, CloseIsLast, InSocketPass, SerializePC
<1> QED BY <1>9, <1>10, <1>11, <1>12, <1>13, <1>14 DEF SafeParts

\* A new connection: its block is zero and nobody refers to it.
LEMMA AcceptSafe ==
  ASSUME IInv, NEW c \in Conversation, AcceptConversation(c) PROVE SafeParts'
<1>0. /\ SafeParts /\ TypeOK /\ pc[Main] = "sockets" /\ cur[Main] = NoConversation
      /\ UNCHANGED <<word, queue, pc, cur, ret>> /\ Main \in Actor
      /\ life[c] = "unused" /\ life' = [life EXCEPT ![c] = "open"]
  BY Actors
  DEF IInv, SafeParts, AcceptConversation, At, sharedVars, actorVars, MainPlaces
<1>1. /\ \A d \in Conversation : d # c => life'[d] = life[d]
      /\ life'[c] = "open"
  BY <1>0 DEF TypeOK
<1>2. \A a \in Actor : cur[a] # c
  BY <1>0, ConversationsAssumption DEF SafeParts, NoUseAfterFree
<1>3. UnusedIsZero'
  BY <1>0, <1>1 DEF SafeParts, UnusedIsZero
<1>4. RunningTasksExact'
  <2>1. ASSUME NEW d \in Conversation PROVE Running(d)' = Running(d)
    BY <1>0, RunningFrame
  <2>2. Cardinality(Running(c)) = 0
    <3>1. Running(c) = {}
      BY <1>2, Actors DEF Running
    <3> QED BY <3>1, FS_EmptySet
  <2>3. word'[c].running = 0
    BY <1>0 DEF SafeParts, UnusedIsZero, ZeroWord
  <2> QED BY <1>0, <1>1, <2>1, <2>2, <2>3 DEF SafeParts, RunningTasksExact
<1>5. NoUseAfterFree'
  <2>1. \A i \in DOMAIN queue : queue[i].conv \in Conversation
    BY <1>0, ElementType DEF TypeOK
  <2>2. \A a \in Actor : cur[a] # NoConversation => cur[a] \in Conversation
    BY <1>0 DEF TypeOK
  <2> QED BY <1>0, <1>1, <2>1, <2>2 DEF SafeParts, NoUseAfterFree
<1>6. OneCloseInFlight' /\ CloseIsConsidered' /\ CloseIsLast'
  BY <1>0 DEF SafeParts, OneCloseInFlight, CloseRequest, CloseIsConsidered,
              CloseIsLast, InSocketPass
<1> QED BY <1>3, <1>4, <1>5, <1>6 DEF SafeParts

\* A work element of the conversation of a is put on the queue.
LEMMA EnqueueFacts ==
  ASSUME IInv, NEW c \in Conversation, NEW k \in {"start", "consider", "close"},
         Enqueue(c, k)
  PROVE  \E n \in Nat :
           /\ DOMAIN queue' = DOMAIN queue \cup {n} /\ n \notin DOMAIN queue
           /\ \A i \in DOMAIN queue : queue'[i] = queue[i] /\ i \in Nat /\ i < n
           /\ queue'[n].code = k /\ queue'[n].conv = c
<1> DEFINE n == Len(queue) + 1
<1>1. queue \in Seq(Element)
  BY DEF IInv, TypeOK
<1>2. /\ DOMAIN queue' = DOMAIN queue \cup {n}
      /\ \A i \in DOMAIN queue : queue'[i] = queue[i]
      /\ queue'[n] = [code |-> k, conv |-> c]
  BY <1>1, AppendType DEF Enqueue
<1>3. n \in Nat /\ \A i \in DOMAIN queue : i \in Nat /\ i < n
  BY <1>1
<1> QED BY <1>2, <1>3

LEMMA ReadSafe ==
  ASSUME IInv, NEW rs, NEW ok, ReadFragment(rs, ok) PROVE SafeParts'
<1> DEFINE c == cur[Main]
<1>0. /\ SafeParts /\ TypeOK /\ pc[Main] = "read" /\ Main \in Actor
      /\ c \in Conversation /\ life[c] = "open"
      /\ Enqueue(c, "start") /\ UNCHANGED <<life, word, ret>>
      /\ pc' = [pc EXCEPT ![Main] = "sockets"]
      /\ cur' = [cur EXCEPT ![Main] = NoConversation]
  BY Actors, CurType
  DEF IInv, SafeParts, ReadFragment, At, Goto, MainPlaces
<1>1. QuietMove(Main)
  BY <1>0 DEF QuietMove, OnlyMoves, TypeOK
<1>2. PICK n \in Nat :
        /\ DOMAIN queue' = DOMAIN queue \cup {n} /\ n \notin DOMAIN queue
        /\ \A i \in DOMAIN queue : queue'[i] = queue[i] /\ i \in Nat /\ i < n
        /\ queue'[n].code = "start" /\ queue'[n].conv = c
  BY <1>0, EnqueueFacts
<1>3. UnusedIsZero' /\ RunningTasksExact'
  BY <1>0, <1>1, QuietRunning DEF SafeParts, UnusedIsZero, RunningTasksExact
<1>4. NoUseAfterFree'
  BY <1>0, <1>1, <1>2, QuietCur DEF SafeParts, NoUseAfterFree
<1>5. OneCloseInFlight'
  BY <1>0, <1>1, <1>2
  DEF SafeParts, OneCloseInFlight, CloseRequest, QuietMove, OnlyMoves
<1>6. CloseIsConsidered'
  BY <1>0, <1>1, <1>2
  DEF SafeParts, CloseIsConsidered, CloseRequest, QuietMove, OnlyMoves
<1>7. CloseIsLast'
  BY <1>0, <1>2 DEF SafeParts, CloseIsLast, InSocketPass
<1> QED BY <1>3, <1>4, <1>5, <1>6, <1>7 DEF SafeParts

\* serializeStartRunning counts the subtask before it exists ...
LEMMA IncrementSafe ==
  ASSUME IInv, StartRunningCas, word[cur[Main]] = snap[Main] PROVE SafeParts'
<1> DEFINE c == cur[Main]
<1>0. /\ SafeParts /\ TypeOK /\ pc[Main] = "incCas" /\ Main \in Actor
      /\ c \in Conversation /\ life[c] = "open"
      /\ UNCHANGED <<life, queue, cur, ret>>
      /\ pc' = [pc EXCEPT ![Main] = "startTask"]
      /\ word' = [word EXCEPT ![c] = [word[c] EXCEPT !.running = @ + 1]]
  BY Actors, CurType
  DEF IInv, SafeParts, StartRunningCas, StartRunningSwap, At, Goto, MainPlaces, convVars
<1>1. /\ \A d \in Conversation : d # c => word'[d] = word[d]
      /\ word'[c].running = word[c].running + 1
      /\ \A d \in Conversation : word'[d].considerClose = word[d].considerClose
  BY <1>0 DEF TypeOK, Word
<1>2. \A d \in Conversation : Running(d)' = Running(d)
  BY <1>0, Actors, RunningFrame DEF TypeOK
<1>3. RunningTasksExact'
  <2>1. ASSUME NEW d \in Conversation, life[d] = "open"
        PROVE  word'[d].running = Cardinality(Running(d)') + (IF d = c THEN 1 ELSE 0)
    <3>1. word[d].running = Cardinality(Running(d))
      BY <1>0, <2>1, RunningFinite DEF SafeParts, RunningTasksExact
    <3> QED BY <1>1, <1>2, <3>1, RunningFinite
  <2>2. pc'[Main] = "startTask" /\ cur'[Main] = c
    BY <1>0 DEF TypeOK
  <2> QED BY <1>0, <2>1, <2>2 DEF RunningTasksExact
<1>4. UnusedIsZero' /\ NoUseAfterFree'
  BY <1>0, <1>1 DEF SafeParts, UnusedIsZero, NoUseAfterFree
<1>5. \A a \in Actor : pc'[a] = "enqueue" <=> pc[a] = "enqueue"
  BY <1>0 DEF TypeOK
<1>6. OneCloseInFlight'
  BY <1>0, <1>5 DEF SafeParts, OneCloseInFlight, CloseRequest
<1>7. CloseIsConsidered'
  <2>1. \A i \in DOMAIN queue : queue[i].conv \in Conversation
    BY <1>0, ElementType DEF TypeOK
  <2>2. \A a \in Actor : pc[a] = "enqueue" => cur[a] \in Conversation
    BY CurType DEF IInv, TaskPlaces, MainPlaces, Actor, SerializePC
  <2> QED BY <1>0, <1>1, <1>5, <2>1, <2>2 DEF SafeParts, CloseIsConsidered, CloseRequest
<1>8. CloseIsLast'
  BY <1>0 DEF SafeParts, CloseIsLast, InSocketPass, SerializePC, TypeOK
<1> QED BY <1>3, <1>4, <1>6, <1>7, <1>8 DEF SafeParts

\* ... and startHttpTask makes it.
LEMMA StartTaskSafe ==
  ASSUME IInv, NEW t \in Task, StartTask(t) PROVE SafeParts'
<1>c. PICK c \in Conversation : c = cur[Main]
  BY Actors, CurType DEF IInv, StartTask, At, MainPlaces
<1>0. /\ SafeParts /\ TypeOK /\ pc[Main] = "startTask" /\ pc[t] = "idle"
      /\ Main \in Actor /\ t \in Actor /\ t # Main
      /\ c \in Conversation /\ life[c] = "open" /\ cur[t] = NoConversation
      /\ c = cur[Main] /\ UNCHANGED <<life, word, queue, ret>>
      /\ pc' = [pc EXCEPT ![Main] = "drain", ![t] = "start"]
      /\ cur' = [cur EXCEPT ![Main] = NoConversation, ![t] = c]
  BY <1>c, Actors, CurType
  DEF IInv, SafeParts, StartTask, At, MainPlaces, TaskPlaces, convVars, sharedVars
<1>1. /\ pc'[Main] = "drain" /\ pc'[t] = "start"
      /\ cur'[Main] = NoConversation /\ cur'[t] = c
      /\ \A a \in Actor \ {Main, t} : pc'[a] = pc[a] /\ cur'[a] = cur[a]
  BY <1>0 DEF TypeOK
<1>2. \A u \in Task \ {t} : pc'[u] = pc[u] /\ cur'[u] = cur[u]
  BY <1>1, Actors
<1>3. c # NoConversation
  BY <1>0, ConversationsAssumption
<1>r. Running(c)' = Running(c) \cup {t} /\ t \notin Running(c)
  <2>1. t \notin Running(c)
    BY <1>0, <1>3 DEF Running
  <2>2. t \in Running(c)'
    BY <1>1 DEF Running
  <2>3. ASSUME NEW u \in Task \ {t} PROVE u \in Running(c)' <=> u \in Running(c)
    BY <1>0, <1>2 DEF Running
  <2>4. Running(c) \subseteq Task /\ Running(c)' \subseteq Task
    BY DEF Running
  <2> QED BY <2>1, <2>2, <2>3, <2>4
<1>s. ASSUME NEW d \in Conversation, d # c PROVE Running(d)' = Running(d)
  <2>1. d # NoConversation
    BY ConversationsAssumption
  <2>2. \A u \in Task : cur'[u] = d /\ ~(pc'[u] = "enqueue" /\ ret'[u] = "idle")
                         <=> cur[u] = d /\ ~(pc[u] = "enqueue" /\ ret[u] = "idle")
    BY <1>0, <1>1, <1>2, <1>s, <2>1
  <2> QED BY <2>2, RunningFrame
<1>4. RunningTasksExact'
  <2>1. Cardinality(Running(c)') = Cardinality(Running(c)) + 1
    BY <1>r, RunningFinite, FS_AddElement
  <2>2. word[c].running = Cardinality(Running(c)) + 1
    BY <1>0 DEF SafeParts, RunningTasksExact
  <2>3. \A d \in Conversation : life[d] = "open" /\ d # c =>
          word[d].running = Cardinality(Running(d)) + 0
    BY <1>0 DEF SafeParts, RunningTasksExact
  <2>4. ASSUME NEW d \in Conversation, life[d] = "open"
        PROVE  word[d].running = Cardinality(Running(d)')
    <3>1. CASE d = c
      BY <2>1, <2>2, <3>1 DEF Running
    <3>2. CASE d # c
      <4>1. Running(d)' = Running(d)
        BY <1>s, <3>2
      <4>2. word[d].running = Cardinality(Running(d))
        BY <2>3, <2>4, <3>2, RunningFinite
      <4> QED BY <4>1, <4>2
    <3> QED BY <3>1, <3>2
  <2>5. \A d \in Conversation : word[d].running \in Nat
    BY <1>0 DEF TypeOK, Word
  <2>6. pc'[Main] # "startTask" /\ UNCHANGED <<life, word>>
    BY <1>0, <1>1
  <2>7. ASSUME NEW d \in Conversation, life'[d] = "open"
        PROVE  word'[d].running = Cardinality(Running(d)') + 0
    BY <2>4, <2>5, <2>6, <2>7
  <2> QED BY <2>6, <2>7 DEF RunningTasksExact
<1>5. UnusedIsZero' /\ NoUseAfterFree'
  BY <1>0, <1>1 DEF SafeParts, UnusedIsZero, NoUseAfterFree
<1>e. \A a \in Actor : pc'[a] = "enqueue" => pc[a] = "enqueue" /\ cur'[a] = cur[a]
  BY <1>1
<1>6. OneCloseInFlight' /\ CloseIsConsidered'
  <2>1. UNCHANGED <<word, queue>> /\ OneCloseInFlight /\ CloseIsConsidered
    BY <1>0 DEF SafeParts
  <2>2. OneCloseInFlight'
    BY <1>e, <2>1 DEF OneCloseInFlight, CloseRequest
  <2>3. CloseIsConsidered'
    BY <1>e, <2>1 DEF CloseIsConsidered, CloseRequest
  <2> QED BY <2>2, <2>3
<1>7. CloseIsLast'
  <2>1. ~InSocketPass'
    BY <1>1 DEF InSocketPass, SerializePC
  <2> QED BY <1>0, <2>1 DEF SafeParts, CloseIsLast
<1> QED BY <1>4, <1>5, <1>6, <1>7 DEF SafeParts

\* The compare-and-swap of serializeConsiderCloseEnqueue.
LEMMA SwapSafe ==
  ASSUME IInv, NEW a \in Actor, SerializeCas(a),
         word[cur[a]] = snap[a], Replacement(snap[a], ret[a] = "idle") # snap[a]
  PROVE  SafeParts'
<1>c. PICK c \in Conversation : c = cur[a]
  BY ServicePlace DEF ServiceStep
<1>0. /\ SafeParts /\ TypeOK /\ pc[a] = "cas" /\ life[c] = "open" /\ c = cur[a]
      /\ ret[a] \in {"sockets", "idle", "failFree"}
      /\ ret[a] = "idle" => a \in Task
      /\ UNCHANGED <<life, queue, ret>>
  BY <1>c, ServicePlace
  DEF IInv, SafeParts, ServiceStep, SerializeCas, SerializeSwap, At, SerializePC, convVars
<1>n. PICK new : new = Replacement(word[c], ret[a] = "idle")
  OBVIOUS
<1>1. /\ new \in Word /\ word[c] \in Word
      /\ new.running = IF ret[a] = "idle" THEN word[c].running - 1 ELSE word[c].running
      /\ word[c].considerClose => new.considerClose
      /\ ret[a] = "idle" => word[c].running > 0
  <2>1. word[c] \in Word
    BY <1>0 DEF TypeOK
  <2>2. ret[a] = "idle" => word[c].running > 0
    BY <1>0, RunningPositive, ConversationsAssumption
  <2> QED BY <1>n, <2>1, <2>2, ReplacementFacts
<1>2. /\ word' = [word EXCEPT ![c] = new]
      /\ \/ SerializeReturns(a)
         \/ /\ pc' = [pc EXCEPT ![a] = "enqueue"] /\ UNCHANGED cur
            /\ new.considerClose # word[c].considerClose
  BY <1>0, <1>n DEF SerializeCas, SerializeSwap, Goto
<1>3. /\ OnlyMoves(a)
      /\ \/ /\ pc'[a] = ret[a]
            /\ cur'[a] = IF ret[a] = "failFree" THEN c ELSE NoConversation
         \/ /\ pc'[a] = "enqueue" /\ cur'[a] = c
            /\ new.considerClose # word[c].considerClose
  BY <1>0, <1>2 DEF TypeOK, OnlyMoves, SerializeReturns, Goto
<1>4. /\ word'[c] = new
      /\ \A d \in Conversation : d # c => word'[d] = word[d]
      /\ \A d \in Conversation : word[d].considerClose => word'[d].considerClose
  BY <1>0, <1>1, <1>2 DEF TypeOK
<1>5. ASSUME NEW d \in Conversation
      PROVE  IF d = c /\ ret[a] = "idle"
               THEN a \in Running(d) /\ Running(d)' = Running(d) \ {a}
               ELSE Running(d)' = Running(d)
  <2>1. c # NoConversation /\ d # NoConversation
    BY ConversationsAssumption
  <2>2. \A t \in Task \ {a} : t \in Running(d)' <=> t \in Running(d)
    BY <1>3, Actors DEF Running, OnlyMoves
  <2>3. Running(d) \subseteq Task /\ Running(d)' \subseteq Task
    BY DEF Running
  <2>4. CASE d = c /\ ret[a] = "idle"
    <3>1. a \in Running(d) /\ a \notin Running(d)'
      BY <1>0, <1>3, <2>1, <2>4 DEF Running
    <3> QED BY <2>2, <2>3, <2>4, <3>1
  <2>5. CASE ~(d = c /\ ret[a] = "idle")
    <3>1. a \in Task => (a \in Running(d)' <=> a \in Running(d))
      <4>1. CASE ret[a] = "idle"
        BY <1>0, <1>3, <2>1, <2>5, <4>1 DEF Running
      <4>2. CASE ret[a] = "failFree"
        BY <1>0, <1>3, <2>1, <4>2 DEF Running
      <4>3. CASE ret[a] = "sockets"
        BY <1>0, <4>3, Actors DEF IInv, TaskPlaces, SerializePC
      <4> QED BY <1>0, <4>1, <4>2, <4>3
    <3> QED BY <2>2, <2>3, <2>5, <3>1
  <2> QED BY <2>4, <2>5
<1>6. ~(pc[Main] = "startTask" /\ a = Main) /\ ~(pc'[Main] = "startTask" /\ a = Main)
  BY <1>0, <1>3
<1>7. UnusedIsZero'
  BY <1>0, <1>4 DEF SafeParts, UnusedIsZero
<1>8. RunningTasksExact'
  <2> DEFINE starting(d) == IF pc[Main] = "startTask" /\ cur[Main] = d THEN 1 ELSE 0
  <2>1. \A d \in Conversation :
          (pc'[Main] = "startTask" /\ cur'[Main] = d) <=> (pc[Main] = "startTask" /\ cur[Main] = d)
    BY <1>3, <1>6, Actors DEF OnlyMoves
  <2>2. \A d \in Conversation : starting(d) \in Nat
    OBVIOUS
  <2>3. ASSUME NEW d \in Conversation, life[d] = "open"
        PROVE  word'[d].running = Cardinality(Running(d)') + starting(d)
    <3> HIDE DEF starting
    <3>1. word[d].running = Cardinality(Running(d)) + starting(d)
      BY <1>0, <2>3 DEF SafeParts, RunningTasksExact, starting
    <3>2. CASE d = c /\ ret[a] = "idle"
      <4>1. Cardinality(Running(d)') = Cardinality(Running(d)) - 1
        BY <1>5, <3>2, RunningFinite, FS_RemoveElement
      <4>2. word'[d].running = word[d].running - 1
        BY <1>1, <1>4, <3>2
      <4> QED BY <2>2, <3>1, <4>1, <4>2, RunningFinite
    <3>3. CASE ~(d = c /\ ret[a] = "idle")
      <4>1. Running(d)' = Running(d)
        BY <1>5, <3>3
      <4>2. word'[d].running = word[d].running
        BY <1>1, <1>4, <3>3
      <4> QED BY <3>1, <4>1, <4>2
    <3> QED BY <3>2, <3>3
  <2> QED BY <1>0, <2>1, <2>3 DEF RunningTasksExact
<1>9. NoUseAfterFree'
  BY <1>0, <1>3 DEF SafeParts, NoUseAfterFree, OnlyMoves
\* Whoever sets considerCloseEnqueued is the first to ask for the close.
<1>10. pc'[a] = "enqueue" =>
         /\ ~word[c].considerClose /\ new.considerClose /\ cur'[a] = c
  <2>1. new.considerClose \in BOOLEAN /\ word[c].considerClose \in BOOLEAN
    BY <1>1 DEF Word
  <2> QED BY <1>0, <1>1, <1>3, <2>1
<1>11. OneCloseInFlight'
  <2>1. ~word[c].considerClose =>
          /\ \A i \in DOMAIN queue : ~(CloseRequest(i) /\ queue[i].conv = c)
          /\ \A b \in Actor : ~(pc[b] = "enqueue" /\ cur[b] = c)
    BY <1>0 DEF SafeParts, CloseIsConsidered
  <2>2. \A b \in Actor : b # a => pc'[b] = pc[b] /\ cur'[b] = cur[b]
    BY <1>3 DEF OnlyMoves
  <2> QED
    BY <1>0, <1>10, <2>1, <2>2 DEF SafeParts, OneCloseInFlight, CloseRequest
<1>12. CloseIsConsidered'
  <2>1. \A i \in DOMAIN queue : queue[i].conv \in Conversation
    BY <1>0, ElementType DEF TypeOK
  <2>2. \A b \in Actor : pc[b] = "enqueue" => cur[b] \in Conversation
    BY CurType DEF IInv, TaskPlaces, MainPlaces, Actor, SerializePC
  <2>3. \A b \in Actor : pc'[b] = "enqueue" => word'[cur'[b]].considerClose
    <3> TAKE b \in Actor
    <3>1. CASE b = a
      BY <1>4, <1>10, <3>1
    <3>2. CASE b # a
      BY <1>0, <1>3, <1>4, <2>2, <3>2 DEF SafeParts, CloseIsConsidered, OnlyMoves
    <3> QED BY <3>1, <3>2
  <2>4. \A i \in DOMAIN queue : CloseRequest(i) => word'[queue[i].conv].considerClose
    BY <1>0, <1>4, <2>1 DEF SafeParts, CloseIsConsidered
  <2> QED BY <1>0, <2>3, <2>4 DEF CloseIsConsidered, CloseRequest
<1>13. CloseIsLast'
  <2>1. InSocketPass' => InSocketPass
    <3>1. CASE a = Main
      BY <1>0, <1>3, <3>1, Actors DEF InSocketPass, SerializePC
    <3>2. CASE a # Main
      BY <1>3, <3>2, Actors DEF InSocketPass, OnlyMoves
    <3> QED BY <3>1, <3>2
  <2> QED BY <1>0, <2>1 DEF SafeParts, CloseIsLast
<1> QED BY <1>7, <1>8, <1>9, <1>11, <1>12, <1>13 DEF SafeParts

\* HTTP_CONSIDER_CLOSE_CONVERSATION is put on the queue.
LEMMA EnqueueSafe ==
  ASSUME IInv, NEW a \in Actor, SerializeEnqueue(a) PROVE SafeParts'
<1>c. PICK c \in Conversation : c = cur[a]
  BY ServicePlace DEF ServiceStep
<1>0. /\ SafeParts /\ TypeOK /\ pc[a] = "enqueue" /\ life[c] = "open" /\ c = cur[a]
      /\ ret[a] \in {"sockets", "idle", "failFree"}
      /\ ret[a] = "idle" => a \in Task
      /\ UNCHANGED <<life, word, ret>>
      /\ Enqueue(c, "consider") /\ SerializeReturns(a)
  BY <1>c, ServicePlace
  DEF IInv, SafeParts, ServiceStep, SerializeEnqueue, At, SerializePC, convVars
<1>1. /\ OnlyMoves(a)
      /\ pc'[a] = ret[a]
      /\ cur'[a] = IF ret[a] = "failFree" THEN c ELSE NoConversation
  BY <1>0 DEF TypeOK, OnlyMoves, SerializeReturns, Goto
<1>2. PICK n \in Nat :
        /\ DOMAIN queue' = DOMAIN queue \cup {n} /\ n \notin DOMAIN queue
        /\ \A i \in DOMAIN queue : queue'[i] = queue[i] /\ i \in Nat /\ i < n
        /\ queue'[n].code = "consider" /\ queue'[n].conv = c
  BY <1>0, EnqueueFacts
<1>3. ASSUME NEW d \in Conversation PROVE Running(d)' = Running(d)
  <2>1. d # NoConversation
    BY ConversationsAssumption
  <2>2. a \in Task => ret[a] # "sockets"
    BY <1>0 DEF IInv, TaskPlaces, SerializePC
  <2>3. \A t \in Task : cur'[t] = d /\ ~(pc'[t] = "enqueue" /\ ret'[t] = "idle")
                         <=> cur[t] = d /\ ~(pc[t] = "enqueue" /\ ret[t] = "idle")
    BY <1>0, <1>1, <2>1, <2>2, Actors DEF OnlyMoves
  <2> QED BY <2>3, RunningFrame
<1>4. RunningTasksExact' /\ UnusedIsZero'
  <2>1. \A d \in Conversation :
          (pc'[Main] = "startTask" /\ cur'[Main] = d) <=> (pc[Main] = "startTask" /\ cur[Main] = d)
    BY <1>0, <1>1, Actors DEF OnlyMoves
  <2> QED
    BY <1>0, <1>3, <2>1 DEF SafeParts, RunningTasksExact, UnusedIsZero
<1>5. NoUseAfterFree'
  BY <1>0, <1>1, <1>2 DEF SafeParts, NoUseAfterFree, OnlyMoves
<1>6. \A b \in Actor : pc'[b] = "enqueue" => b # a /\ pc[b] = "enqueue" /\ cur'[b] = cur[b]
  BY <1>0, <1>1 DEF OnlyMoves
\* The one that was on its way with a is the one that is queued now.
<1>7. /\ \A i \in DOMAIN queue : ~(queue[i].code # "start" /\ queue[i].conv = c)
      /\ \A b \in Actor : pc'[b] = "enqueue" => cur'[b] # c
  BY <1>0, <1>6 DEF SafeParts, OneCloseInFlight, CloseRequest
<1>8. OneCloseInFlight'
  BY <1>0, <1>2, <1>6, <1>7 DEF SafeParts, OneCloseInFlight, CloseRequest
<1>9. CloseIsConsidered'
  <2>1. word[c].considerClose
    BY <1>0 DEF SafeParts, CloseIsConsidered
  <2> QED BY <1>0, <1>2, <1>6, <2>1 DEF SafeParts, CloseIsConsidered, CloseRequest
<1>10. CloseIsLast'
  <2>1. InSocketPass' => InSocketPass
    <3>1. CASE a = Main
      BY <1>0, <1>1, <3>1, Actors DEF InSocketPass, SerializePC
    <3>2. CASE a # Main
      BY <1>1, <3>2, Actors DEF InSocketPass, OnlyMoves
    <3> QED BY <3>1, <3>2
  <2> QED BY <1>0, <1>2, <1>7, <2>1 DEF SafeParts, CloseIsLast
<1> QED BY <1>4, <1>5, <1>8, <1>9, <1>10 DEF SafeParts

-----------------------------------------------------------------------------
(* The steps that are quiet. *)

LEMMA ServiceSafe == ASSUME IInv, NEW a \in Actor, ServiceStep(a) PROVE SafeParts'
<1> USE DEF At, Goto, convVars, sharedVars, actorVars
<1>c. PICK c \in Conversation : c = cur[a] /\ life[c] = "open"
  BY ServicePlace
<1>0. /\ TypeOK /\ word[c] \in Word
      /\ pc[a] \in SerializePC => ret[a] \in {"sockets", "idle", "failFree"}
      /\ ret[a] = "idle" /\ pc[a] \in SerializePC => a \in Task
  BY ServicePlace DEF IInv, TypeOK
\* It is enough that the actor stays clear of the queue and of the start of a
\* subtask, and that it does not enter the pass over the sockets.
<1> DEFINE Stay == /\ OnlyMoves(a)
                   /\ {pc[a], pc'[a]} \cap {"enqueue", "startTask"} = {}
                   /\ UNCHANGED <<life, queue>>
                   /\ cur'[a] = cur[a] \/ (a = Main /\ cur'[a] = NoConversation)
                   /\ a = Main => (InSocketPass' => InSocketPass)
<1>1. Stay /\ UNCHANGED word => SafeParts'
  <2> SUFFICES ASSUME Stay, UNCHANGED word PROVE QuietStep(a)
    BY QuietSafe
  <2>1. InSocketPass' => InSocketPass
    BY Actors DEF OnlyMoves, InSocketPass
  <2> QED BY <2>1 DEF QuietStep, QuietMove
<1>2. CASE ServeCheck(a)
  <2>1. Stay
    BY <1>0, <1>2 DEF TypeOK, ServeCheck, OnlyMoves, InSocketPass, SerializePC
  <2> QED BY <1>1, <1>2, <2>1 DEF ServeCheck
<1>3. CASE FinishResponse(a)
  <2>1. Stay
    BY <1>0, <1>3 DEF TypeOK, FinishResponse, OnlyMoves, InSocketPass, SerializePC
  <2> QED BY <1>1, <1>3, <2>1 DEF FinishResponse
<1>4. CASE FreeResponse(a)
  <2>1. Stay
    BY <1>0, <1>4 DEF TypeOK, FreeResponse, OnlyMoves, InSocketPass, SerializePC
  <2> QED BY <1>1, <1>4, <2>1 DEF FreeResponse
<1>5. CASE ServiceDone(a)
  <2>1. Stay
    <3>1. CASE a = Main
      BY <1>0, <1>5, <3>1
      DEF TypeOK, ServiceDone, ServiceReturns, OnlyMoves, InSocketPass, SerializePC
    <3>2. CASE a # Main
      BY <1>0, <1>5, <3>2 DEF TypeOK, ServiceDone, ServiceReturns, OnlyMoves
    <3> QED BY <3>1, <3>2
  <2> QED BY <1>1, <1>5, <2>1 DEF ServiceDone
<1>6. CASE ServiceAbends(a)
  <2>1. Stay
    BY <1>0, <1>6 DEF TypeOK, ServiceAbends, OnlyMoves, InSocketPass, SerializePC
  <2> QED BY <1>1, <1>6, <2>1 DEF ServiceAbends
<1>7. CASE FailSave(a)
  <2>1. Stay
    BY <1>0, <1>7 DEF TypeOK, FailSave, OnlyMoves, InSocketPass, SerializePC
  <2> QED BY <1>1, <1>7, <2>1 DEF FailSave
<1>8. CASE FailClear(a)
  <2>1. Stay
    BY <1>0, <1>8 DEF TypeOK, FailClear, OnlyMoves, InSocketPass, SerializePC
  <2> QED BY <1>1, <1>8, <2>1 DEF FailClear
<1>9. CASE FailClose(a)
  <2>1. Stay
    BY <1>0, <1>9 DEF TypeOK, FailClose, OnlyMoves, InSocketPass, SerializePC
  <2>2. InSocketPass' => InSocketPass
    BY <2>1, Actors DEF OnlyMoves, InSocketPass
  <2>3. word' = [word EXCEPT ![c].shouldClose = TRUE]
    BY <1>c, <1>9 DEF FailClose
  <2>4. \A d \in Conversation :
          /\ word'[d].running = word[d].running
          /\ word'[d].considerClose = word[d].considerClose
          /\ life[d] # "open" => word'[d] = word[d]
    BY <1>c, <1>0, <2>3 DEF TypeOK, Word
  <2> QED BY <2>1, <2>2, <2>4, QuietSafe DEF QuietStep, QuietMove
<1>10. CASE FailFree(a)
  <2>1. Stay
    BY <1>0, <1>10 DEF TypeOK, FailFree, OnlyMoves, InSocketPass, SerializePC
  <2> QED BY <1>1, <1>10, <2>1 DEF FailFree
<1>11. CASE SerializeLoad(a)
  <2>1. Stay
    BY <1>0, <1>11 DEF TypeOK, SerializeLoad, OnlyMoves, InSocketPass, SerializePC
  <2> QED BY <1>1, <1>11, <2>1 DEF SerializeLoad
<1>12. CASE SerializeCas(a)
  <2> DEFINE new == Replacement(snap[a], ret[a] = "idle")
  <2>1. CASE new # snap[a] /\ word[cur[a]] = snap[a]
    BY <1>12, <2>1, SwapSafe
  <2>2. CASE new # snap[a] /\ word[cur[a]] # snap[a]
    <3>1. UNCHANGED <<word, pc, cur, ret, life, queue>> /\ pc[a] = "cas"
      BY <1>12, <2>2 DEF SerializeCas, SerializeSwap
    <3>2. Stay
      BY <3>1 DEF OnlyMoves, InSocketPass
    <3> QED BY <1>1, <3>1, <3>2
  <2>3. CASE new = snap[a]
    <3>1. UNCHANGED <<word, ret, life, queue>> /\ pc[a] = "cas" /\ SerializeReturns(a)
      BY <1>12, <2>3 DEF SerializeCas, SerializeSwap
    <3>2. ret[a] # "idle"
      <4>1. snap[a] \in Word
        BY <1>0 DEF TypeOK
      <4>2. ret[a] = "idle" => cur[a] # NoConversation
        BY <1>c, ConversationsAssumption
      <4>3. CASE snap[a].running > 0
        <5>1. new.running = IF ret[a] = "idle" THEN snap[a].running - 1
                                               ELSE snap[a].running
          BY <4>1, <4>3, ReplacementFacts
        <5> QED BY <2>3, <4>1, <5>1 DEF Word
      <4>4. CASE ~(snap[a].running > 0)
        BY <1>0, <3>1, <2>3, <4>1, <4>4, ReplacementZero
      <4> QED BY <4>3, <4>4
    <3>3. ret[a] \in {"sockets", "failFree"}
      BY <1>0, <3>1, <3>2 DEF SerializePC
    <3>4. OnlyMoves(a) /\ pc'[a] = ret[a]
          /\ cur'[a] = IF ret[a] = "failFree" THEN cur[a] ELSE NoConversation
      BY <1>0, <3>1 DEF TypeOK, OnlyMoves, SerializeReturns
    <3>5. a = Main => (InSocketPass' => InSocketPass)
      BY <3>1, <3>3, <3>4 DEF InSocketPass, SerializePC
    <3>6. ret[a] = "sockets" => a = Main
      BY <3>1 DEF IInv, TaskPlaces, SerializePC, Actor
    <3> QED BY <1>1, <3>1, <3>3, <3>4, <3>5, <3>6
  <2> QED BY <2>1, <2>2, <2>3
<1>13. CASE SerializeEnqueue(a)
  BY <1>13, EnqueueSafe
<1> QED
  BY <1>2, <1>3, <1>4, <1>5, <1>6, <1>7, <1>8, <1>9, <1>10, <1>11, <1>12, <1>13
  DEF ServiceStep

LEMMA MainSafe == ASSUME IInv, SocketStep \/ QueueStep PROVE SafeParts'
<1> USE DEF At, Goto, convVars, sharedVars, actorVars
<1>0. TypeOK /\ Main \in Actor
  BY Actors DEF IInv
<1>a. pc[Main] \notin {"select", "sockets", "drain"} =>
        cur[Main] \in Conversation /\ life[cur[Main]] = "open"
  BY <1>0, CurType DEF IInv, MainPlaces
\* A step of the main task that leaves the queue alone.
<1> DEFINE Stay == /\ OnlyMoves(Main)
                   /\ {pc[Main], pc'[Main]} \cap {"enqueue", "startTask"} = {}
                   /\ UNCHANGED <<life, queue>>
                   /\ \/ cur'[Main] \in {cur[Main], NoConversation}
                      \/ cur'[Main] \in Conversation /\ life[cur'[Main]] = "open"
                   /\ queue = <<>> \/ (InSocketPass' => InSocketPass)
<1>1. Stay /\ UNCHANGED word => SafeParts'
  BY <1>0, QuietSafe DEF QuietStep, QuietMove
<1>2. ASSUME Stay, NEW c \in Conversation, life[c] = "open", NEW b \in BOOLEAN,
             word' = [word EXCEPT ![c].shouldClose = @ \/ b]
      PROVE  SafeParts'
  <2>1. \A d \in Conversation :
          /\ word'[d].running = word[d].running
          /\ word'[d].considerClose = word[d].considerClose
          /\ life[d] # "open" => word'[d] = word[d]
    BY <1>0, <1>2 DEF TypeOK, Word
  <2> QED BY <1>0, <1>2, <2>1, QuietSafe DEF QuietStep, QuietMove
<1>3. CASE Select
  <2>1. Stay /\ UNCHANGED word
    BY <1>0, <1>3 DEF TypeOK, Select, OnlyMoves, InSocketPass
  <2> QED BY <1>1, <2>1
<1>4. CASE SocketsDone
  <2>1. Stay /\ UNCHANGED word
    BY <1>0, <1>4 DEF TypeOK, SocketsDone, OnlyMoves, InSocketPass, SerializePC
  <2> QED BY <1>1, <2>1
<1>5. CASE ReadFails
  <2>1. Stay
    BY <1>0, <1>5 DEF TypeOK, ReadFails, ReadEnds, OnlyMoves, InSocketPass
  <2>2. word' = [word EXCEPT ![cur[Main]].shouldClose = @ \/ TRUE]
    BY <1>5 DEF ReadFails, ReadEnds
  <2>3. pc[Main] = "read"
    BY <1>5 DEF ReadFails, ReadEnds
  <2> QED BY <1>2, <1>a, <2>1, <2>2, <2>3
<1>6. ASSUME NEW c \in Conversation, PeerReadClosing(c) PROVE SafeParts'
  <2>1. Stay /\ UNCHANGED word
    BY <1>0, <1>6 DEF TypeOK, PeerReadClosing, OnlyMoves, InSocketPass
  <2> QED BY <1>1, <2>1
<1>7. ASSUME NEW c \in Conversation, PeerReadOpen(c) PROVE SafeParts'
  <2>1. Stay /\ UNCHANGED word
    BY <1>0, <1>7 DEF TypeOK, PeerReadOpen, OnlyMoves, InSocketPass
  <2> QED BY <1>1, <2>1
<1>8. CASE DrainDone
  <2>1. Stay /\ UNCHANGED word
    BY <1>0, <1>8 DEF TypeOK, DrainDone, OnlyMoves, InSocketPass
  <2> QED BY <1>1, <2>1
<1>9. CASE ErrorReply
  <2>1. Stay /\ UNCHANGED word
    BY <1>0, <1>9 DEF TypeOK, ErrorReply, OnlyMoves, InSocketPass, SerializePC
  <2> QED BY <1>1, <2>1
<1>10. CASE NotFoundReply
  <2>1. Stay
    BY <1>0, <1>10 DEF TypeOK, NotFoundReply, OnlyMoves, InSocketPass, SerializePC
  <2>2. pc[Main] = "notFoundReply" => UNCHANGED word
    BY <1>10 DEF NotFoundReply
  <2>3. pc[Main] = "notFoundClose" =>
          word' = [word EXCEPT ![cur[Main]].shouldClose = TRUE]
    BY <1>10 DEF NotFoundReply
  <2>4. pc[Main] = "notFoundClose" =>
          word' = [word EXCEPT ![cur[Main]].shouldClose = @ \/ TRUE]
    BY <2>3
  <2>5. pc[Main] \in {"notFoundReply", "notFoundClose"}
    BY <1>10 DEF NotFoundReply
  <2> QED BY <1>1, <1>2, <1>a, <2>1, <2>2, <2>4, <2>5
<1>11. CASE Dispatch
  <2>1. Stay /\ UNCHANGED word
    BY <1>0, <1>11 DEF TypeOK, Dispatch, OnlyMoves, InSocketPass, SerializePC
  <2> QED BY <1>1, <2>1
<1>12. CASE StartRunningLoad
  <2>1. Stay /\ UNCHANGED word
    BY <1>0, <1>12 DEF TypeOK, StartRunningLoad, OnlyMoves, InSocketPass, SerializePC
  <2> QED BY <1>1, <2>1
<1>13. CASE StartRunningCas
  <2>1. CASE word[cur[Main]] = snap[Main]
    BY <1>13, <2>1, IncrementSafe
  <2>2. CASE word[cur[Main]] # snap[Main]
    <3>1. UNCHANGED <<word, pc, cur, ret, life, queue>> /\ pc[Main] = "incCas"
      BY <1>13, <2>2 DEF StartRunningCas, StartRunningSwap
    <3>2. Stay
      BY <3>1 DEF OnlyMoves, InSocketPass
    <3> QED BY <1>1, <3>1, <3>2
  <2> QED BY <2>1, <2>2
\* The main task turns to the element it takes off the queue, or to nothing.
<1>14. ASSUME NEW c \in Conversation,
              StartNothing(c) \/ CloseAbandoned(c) \/ StartError(c) \/ StartRequest(c)
       PROVE  SafeParts'
  <2>1. /\ queue # <<>> /\ queue' = Tail(queue) /\ pc[Main] = "drain"
        /\ Head(queue).conv = c /\ UNCHANGED <<life, word, ret>>
    BY <1>14 DEF StartNothing, CloseAbandoned, StartError, StartRequest, Dequeue
  <2>2. /\ UNCHANGED pc \/ \E l \in {"errorReply", "dispatch", "notFoundReply", "notFoundClose"} :
                             pc' = [pc EXCEPT ![Main] = l]
        /\ UNCHANGED cur \/ cur' = [cur EXCEPT ![Main] = c]
    BY <1>14 DEF StartNothing, CloseAbandoned, StartError, StartRequest
  <2>3. life[c] = "open"
    BY <1>0, <2>1, TailType DEF IInv, NoUseAfterFree, TypeOK
  <2>4. QuietMove(Main) /\ ~InSocketPass'
    BY <1>0, <2>1, <2>2, <2>3 DEF TypeOK, QuietMove, OnlyMoves, InSocketPass, SerializePC
  <2> QED BY <2>1, <2>4, PopSafe DEF PopStep
<1>15. ASSUME NEW c \in Conversation, ConsiderClose(c) PROVE SafeParts'
  <2>1. CASE word[c].running = 0 /\ ~word[c].closeEnqueued
    BY <1>15, <2>1, ConsiderSafe DEF ConsiderClose
  <2>2. CASE ~(word[c].running = 0 /\ ~word[c].closeEnqueued)
    <3>1. /\ queue # <<>> /\ queue' = Tail(queue) /\ pc[Main] = "drain"
          /\ UNCHANGED <<life, word, ret, pc, cur>>
      BY <1>15, <2>2 DEF ConsiderClose, Dequeue
    <3>2. QuietMove(Main) /\ ~InSocketPass'
      BY <3>1 DEF QuietMove, OnlyMoves, InSocketPass, SerializePC
    <3> QED BY <3>1, <3>2, PopSafe DEF PopStep
  <2> QED BY <2>1, <2>2
<1>16. SocketStep => SafeParts'
  BY ONLY IInv, <1>3, <1>4, <1>5, <1>6, <1>7, AcceptSafe, ReadSafe DEF SocketStep
<1>17. QueueStep => SafeParts'
  BY ONLY IInv, <1>8, <1>9, <1>10, <1>11, <1>12, <1>13, <1>14, <1>15, StartTaskSafe, CloseSafe
  DEF QueueStep
<1> QED BY <1>16, <1>17

LEMMA SafeStep == ASSUME IInv, [Next]_vars PROVE SafeParts'
<1>1. ASSUME NEW t \in Task, TaskStart(t) \/ TaskCall(t) PROVE SafeParts'
  <2>1. /\ pc[t] \in {"start", "call"} /\ UNCHANGED <<cur, life, word, queue>>
        /\ \/ pc' = [pc EXCEPT ![t] = "load"] /\ ret' = [ret EXCEPT ![t] = "idle"]
           \/ pc' = [pc EXCEPT ![t] = "call"] /\ UNCHANGED ret
           \/ pc' = [pc EXCEPT ![t] = "serve"] /\ UNCHANGED ret
    BY <1>1 DEF TaskStart, TaskCall, At, Goto, convVars, sharedVars
  <2>2. QuietMove(t) /\ (InSocketPass' => InSocketPass)
    BY <2>1, Actors DEF IInv, TypeOK, QuietMove, OnlyMoves, InSocketPass
  <2> QED BY <2>1, <2>2, QuietSafe, Actors DEF QuietStep
<1>2. CASE UNCHANGED <<life, word, queue, pc, cur, ret>>
  <2>1. \A c \in Conversation : Running(c)' = Running(c)
    BY <1>2, RunningFrame
  <2> QED
    BY <1>2, <2>1
    DEF IInv, SafeParts, UnusedIsZero, RunningTasksExact, NoUseAfterFree,
        OneCloseInFlight, CloseIsConsidered, CloseIsLast, CloseRequest, InSocketPass
<1>3. ASSUME NEW c \in Conversation, PeerHangup(c) PROVE SafeParts'
  BY <1>2, <1>3 DEF PeerHangup, convVars, sharedVars, actorVars
<1>4. CASE UNCHANGED vars
  BY <1>2, <1>4 DEF vars, convVars, sharedVars, actorVars
<1> QED BY <1>1, <1>3, <1>4, MainSafe, ServiceSafe, Actors DEF Next, MainStep, TaskStep

-----------------------------------------------------------------------------
(* The theorems. *)

LEMMA InitIInv == Init => IInv
<1> SUFFICES ASSUME Init PROVE IInv
  OBVIOUS
<1> USE Actors, ZeroWordType DEF Init
<1>1. TypeOK
  <2>1. 0 \in Nat /\ <<>> \in Seq(Request) /\ <<>> \in Seq(Element)
    OBVIOUS
  <2> QED BY <2>1 DEF TypeOK, MainPC, TaskPC
<1>2. TaskPlaces /\ MainPlaces
  BY DEF TaskPlaces, MainPlaces, MainPC, TaskPC, SerializePC, Actor
<1>3. UnusedIsZero /\ RunningTasksExact
  BY DEF UnusedIsZero, RunningTasksExact
<1>4. NoUseAfterFree /\ OneCloseInFlight /\ CloseIsConsidered /\ CloseIsLast
  BY DEF NoUseAfterFree, OneCloseInFlight, CloseIsConsidered, CloseIsLast
<1> QED BY <1>1, <1>2, <1>3, <1>4 DEF IInv

\* IInv is inductive: the argument why the close protocol of
\* h/httpserver.h:332-412 is sound, whatever the interleaving.
THEOREM Invariance == Spec => []IInv
<1>1. IInv /\ [Next]_vars => IInv'
  BY TypeStep, PlacesStep, SafeStep DEF IInv, SafeParts
<1> QED BY <1>1, InitIInv, PTL DEF Spec

\* Every variable keeps its type: runningTasks (h/httpserver.h:343) is never
\* decremented below zero.
THEOREM TypeCorrect == Spec => []TypeOK
<1>1. IInv => TypeOK
  BY DEF IInv
<1> QED BY <1>1, Invariance, PTL

\* c/httpserver.c:6121-6240: whatever subtasks, abends and socket events
\* interleave, a conversation block is freed only when no task works on it and
\* no element of the work queue refers to it.
THEOREM FreedWhenUnused == Spec => []NoUseAfterFree
<1>1. IInv => NoUseAfterFree
  BY DEF IInv
<1> QED BY <1>1, Invariance, PTL

\* c/httpserver.c:3446-3520 and 5352-5394: runningTasks counts the subtasks
\* that still use the conversation, no update is lost.
THEOREM CounterExact == Spec => []RunningTasksExact
<1>1. IInv => RunningTasksExact
  BY DEF IInv
<1> QED BY <1>1, Invariance, PTL

\* h/httpserver.h:339-342: never two close requests of one conversation.
THEOREM CloseOnce == Spec => []OneCloseInFlight
<1>1. IInv => OneCloseInFlight
  BY DEF IInv
<1> QED BY <1>1, Invariance, PTL

\* What FlagsStick says of one step.
FlagsKept ==
  \A c \in Conversation : life'[c] = "open" =>
    /\ word[c].shouldClose => word'[c].shouldClose
    /\ word[c].considerClose => word'[c].considerClose
    /\ word[c].closeEnqueued => word'[c].closeEnqueued

\* One block is stored, with flags that include the ones it had.
LEMMA FlagsStored ==
  ASSUME IInv, NEW c \in Conversation, NEW new \in Word,
         word' = [word EXCEPT ![c] = new],
         word[c].shouldClose => new.shouldClose,
         word[c].considerClose => new.considerClose,
         word[c].closeEnqueued => new.closeEnqueued
  PROVE  FlagsKept
  BY DEF FlagsKept, IInv, TypeOK

LEMMA FlagsStep == ASSUME IInv, [Next]_vars PROVE FlagsKept
<1> USE DEF sharedVars
<1>0. TypeOK /\ Main \in Actor /\ Task \subseteq Actor
  BY Actors DEF IInv
<1>1. UNCHANGED word => FlagsKept
  BY DEF FlagsKept
<1>2. CASE ReadFails
  BY <1>0, <1>2 DEF FlagsKept, TypeOK, Word, ReadFails, ReadEnds
<1>3. CASE NotFoundReply
  BY <1>0, <1>3 DEF FlagsKept, TypeOK, Word, NotFoundReply
<1>4. ASSUME NEW c \in Conversation, ConsiderClose(c) PROVE FlagsKept
  <2>1. word' = [word EXCEPT ![c].closeEnqueued = TRUE] \/ UNCHANGED word
    BY <1>4 DEF ConsiderClose
  <2>2. CASE word' = [word EXCEPT ![c].closeEnqueued = TRUE]
    <3>1. word \in [Conversation -> Word]
      BY <1>0 DEF TypeOK
    <3>2. \A d \in Conversation :
            /\ word'[d].shouldClose = word[d].shouldClose
            /\ word'[d].considerClose = word[d].considerClose
            /\ word[d].closeEnqueued => word'[d].closeEnqueued
      BY <2>2, <3>1 DEF Word
    <3> QED BY <3>2 DEF FlagsKept
  <2> QED BY <1>1, <2>1, <2>2
<1>5. ASSUME NEW c \in Conversation, CloseConversation(c) PROVE FlagsKept
  <2>1. /\ life' = [life EXCEPT ![c] = "freed"]
        /\ word' = [word EXCEPT ![c] = ZeroWord]
    BY <1>5 DEF CloseConversation, Release
  <2> QED BY <1>0, <2>1 DEF FlagsKept, TypeOK
<1>6. CASE StartRunningCas
  <2>1. CASE word[cur[Main]] = snap[Main]
    <3>1. PICK c \in Conversation : c = cur[Main]
      BY <1>6, CurType, Actors DEF IInv, MainPlaces, StartRunningCas, StartRunningSwap, At
    <3>2. PICK new : new = [word[c] EXCEPT !.running = @ + 1]
      OBVIOUS
    <3>3. word' = [word EXCEPT ![c] = new]
      BY <1>6, <2>1, <3>1, <3>2 DEF StartRunningCas, StartRunningSwap
    <3>4. /\ new \in Word /\ new.shouldClose = word[c].shouldClose
          /\ new.considerClose = word[c].considerClose
          /\ new.closeEnqueued = word[c].closeEnqueued
      <4>1. word[c] \in Word
        BY <1>0 DEF TypeOK
      <4> QED BY <3>2, <4>1, IncrementType
    <3> QED BY <3>3, <3>4, FlagsStored
  <2>2. CASE word[cur[Main]] # snap[Main]
    BY <1>1, <1>6, <2>2 DEF StartRunningCas, StartRunningSwap
  <2> QED BY <2>1, <2>2
<1>7. ASSUME NEW a \in Actor, ServiceStep(a) PROVE FlagsKept
  <2>1. CASE FailClose(a)
    BY <1>0, <2>1 DEF FlagsKept, TypeOK, Word, FailClose
  <2>2. CASE SerializeCas(a) /\ ~UNCHANGED word
    <3>1. PICK c \in Conversation : c = cur[a]
      BY <1>7, ServicePlace
    <3>2. word[c] = snap[a] /\ pc[a] = "cas"
      BY <2>2, <3>1 DEF SerializeCas, SerializeSwap, At
    <3>3. PICK new : new = Replacement(word[c], ret[a] = "idle")
      OBVIOUS
    <3>4. word' = [word EXCEPT ![c] = new]
      BY <2>2, <3>1, <3>2, <3>3 DEF SerializeCas, SerializeSwap
    <3>5. ret[a] = "idle" => word[c].running > 0
      <4>1. ret[a] = "idle" => a \in Task
        BY <1>7, <3>2, ServicePlace DEF SerializePC
      <4> QED BY <3>1, <3>2, <4>1, RunningPositive, ConversationsAssumption
    <3>6. /\ new \in Word /\ new.shouldClose = word[c].shouldClose
          /\ word[c].considerClose => new.considerClose
          /\ new.closeEnqueued = word[c].closeEnqueued
      <4>1. word[c] \in Word
        BY <1>0 DEF TypeOK
      <4> QED BY <3>3, <3>5, <4>1, ReplacementFacts
    <3> QED BY <3>4, <3>6, FlagsStored
  <2>3. FailClose(a) \/ SerializeCas(a) \/ UNCHANGED word
    BY <1>7
    DEF ServiceStep, ServeCheck, FinishResponse, FreeResponse, ServiceDone, ServiceAbends,
        FailSave, FailClear, FailFree, SerializeLoad, SerializeEnqueue
  <2> QED BY <1>1, <2>1, <2>2, <2>3
<1>8. SocketStep => ReadFails \/ UNCHANGED word
  BY DEF SocketStep, Select, SocketsDone, AcceptConversation, PeerReadClosing,
         PeerReadOpen, ReadFragment
<1>9. QueueStep => \/ NotFoundReply \/ StartRunningCas \/ UNCHANGED word
                   \/ \E c \in Conversation : ConsiderClose(c) \/ CloseConversation(c)
  BY DEF QueueStep, DrainDone, ErrorReply, Dispatch, StartRunningLoad, StartTask,
         CloseAbandoned, StartNothing, StartError, StartRequest
<1>10. ASSUME NEW t \in Task, TaskStep(t) PROVE FlagsKept
  BY <1>0, <1>1, <1>7, <1>10 DEF TaskStep, TaskStart, TaskCall
<1>11. CASE UNCHANGED vars
  BY <1>1, <1>11 DEF vars
<1>12. ASSUME NEW c \in Conversation, PeerHangup(c) PROVE FlagsKept
  BY <1>1, <1>12 DEF PeerHangup
<1> QED
  BY <1>0, <1>1, <1>2, <1>3, <1>4, <1>5, <1>6, <1>7, <1>8, <1>9, <1>10, <1>11, <1>12
  DEF Next, MainStep

\* h/httpserver.h:335-342: a flag of an open conversation, once set, is never
\* reset by a compare-and-swap prepared from an older copy of the word.
THEOREM FlagsNeverReset == Spec => FlagsStick
<1>1. IInv /\ [Next]_vars => [FlagsKept]_vars
  BY FlagsStep
<1>2. [][FlagsKept]_vars <=> FlagsStick
  BY DEF FlagsKept, FlagsStick
<1> QED BY <1>1, <1>2, Invariance, PTL DEF Spec

-----------------------------------------------------------------------------
(* RightService: with a client that waits for its response before it sends  *)
(* the next request, a conversation has one request at a time: it is with   *)
(* the parser, or one actor holds it, and only then is a response owed.  So *)
(* pendingService is not overwritten before the actor has read it.          *)

\* Where an actor has a request whose service it has not called, and whose
\* response is not sent.
BeforeCall == {"dispatch", "incLoad", "incCas", "startTask", "start", "call"}
Answering == BeforeCall \cup {"notFoundReply", "notFoundClose", "serve", "running"}
Holds(a, c) == pc[a] \in Answering /\ cur[a] = c

ActorServed(a) ==
  /\ serving[a] \in {NoService, wanted[a]}
  /\ serving[a] # NoService =>
       pc[a] \in ServicePC \/ (pc[a] \in SerializePC /\ ret[a] = "failFree")
Served == \A a \in Actor : ActorServed(a)

PendingIsWanted == \A a \in Actor : pc[a] \in BeforeCall => pending[cur[a]] = wanted[a]

ErrorStays == pc[Main] = "errorReply" => shouldError[cur[Main]]

OneRequestOf(c) ==
  /\ owed[c] <= 1 /\ Len(requests[c]) <= 1
  /\ \A a, b \in Actor : Holds(a, c) /\ Holds(b, c) => a = b
  /\ requests[c] # <<>> => owed[c] = 1 /\ \A a \in Actor : ~Holds(a, c)
  /\ \A a \in Actor : Holds(a, c) => owed[c] = 1
OneRequest ==
  \A c \in Conversation : life[c] = "open" /\ ~shouldError[c] => OneRequestOf(c)

UnusedOwesNothing ==
  \A c \in Conversation : life[c] = "unused" => owed[c] = 0 /\ requests[c] = <<>>

RequestInv == Served /\ PendingIsWanted /\ ErrorStays /\ OneRequest /\ UnusedOwesNothing

\* One actor moves.
Others(a) ==
  \A x \in Actor \ {a} :
    /\ pc'[x] = pc[x] /\ cur'[x] = cur[x] /\ ret'[x] = ret[x]
    /\ wanted'[x] = wanted[x] /\ serving'[x] = serving[x]

LEMMA HolderPlace ==
  ASSUME IInv, NEW a \in Actor, pc[a] \in Answering
  PROVE  cur[a] \in Conversation /\ life[cur[a]] = "open"
<1>1. cur[a] # NoConversation
  BY Actors DEF IInv, TaskPlaces, MainPlaces, Answering, BeforeCall, Actor
<1> QED BY <1>1, CurType

LEMMA ServedMoved ==
  ASSUME Served, NEW a \in Actor, Others(a), ActorServed(a)'
  PROVE  Served'
BY DEF Served, ActorServed, Others

\* Nothing of it changes.
LEMMA RequestsUntouched ==
  ASSUME RequestInv,
         UNCHANGED <<life, shouldError, requests, owed, pending, pc, ret, cur, wanted, serving>>
  PROVE  RequestInv'
<1>1. Served' /\ PendingIsWanted' /\ ErrorStays'
  BY DEF RequestInv, Served, ActorServed, PendingIsWanted, ErrorStays
<1>2. OneRequest' /\ UnusedOwesNothing'
  BY DEF RequestInv, OneRequest, OneRequestOf, UnusedOwesNothing, Holds
<1> QED BY <1>1, <1>2 DEF RequestInv

\* An actor that takes no request moves; the requests stay where they are.
Quiet(a) ==
  /\ pc'[a] \in Answering => pc[a] \in Answering /\ cur'[a] = cur[a]
  /\ pc'[a] \in BeforeCall => pc[a] \in BeforeCall /\ wanted'[a] = wanted[a]
  /\ pc'[a] = "errorReply" => shouldError[cur'[a]]

LEMMA QuietHolds ==
  ASSUME NEW a \in Actor, Others(a), Quiet(a), NEW x \in Actor, NEW c, Holds(x, c)'
  PROVE  Holds(x, c)
BY DEF Others, Quiet, Holds

LEMMA RequestsQuiet ==
  ASSUME IInv, RequestInv, NEW a \in Actor, Others(a), Quiet(a), ActorServed(a)',
         UNCHANGED <<life, shouldError, requests, owed, pending>>
  PROVE  RequestInv'
<1>1. Served'
  BY ServedMoved DEF RequestInv
<1>2. PendingIsWanted'
  <2> SUFFICES ASSUME NEW x \in Actor, pc'[x] \in BeforeCall PROVE pending[cur'[x]] = wanted'[x]
    BY DEF PendingIsWanted
  <2>1. pc[x] \in BeforeCall /\ cur'[x] = cur[x] /\ wanted'[x] = wanted[x]
    BY DEF Others, Quiet, Answering
  <2> QED BY <2>1 DEF RequestInv, PendingIsWanted
<1>3. ErrorStays'
  BY Actors DEF RequestInv, ErrorStays, Others, Quiet
<1>4. OneRequest'
  <2> SUFFICES ASSUME NEW c \in Conversation, life[c] = "open", ~shouldError[c]
               PROVE  OneRequestOf(c)'
    BY DEF OneRequest
  <2>1. OneRequestOf(c)
    BY DEF RequestInv, OneRequest
  <2>2. \A x \in Actor : Holds(x, c)' => Holds(x, c)
    BY QuietHolds
  <2> QED BY <2>1, <2>2 DEF OneRequestOf
<1>5. UnusedOwesNothing'
  BY DEF RequestInv, UnusedOwesNothing
<1> QED BY <1>1, <1>2, <1>3, <1>4, <1>5 DEF RequestInv

\* An actor sends the response to the request it holds.
LEMMA RequestsAnswered ==
  ASSUME IInv, RequestInv, NEW a \in Actor, Others(a), ActorServed(a)',
         pc[a] \in Answering, pc'[a] \notin Answering, pc'[a] # "errorReply",
         Received(cur[a]), UNCHANGED <<life, shouldError, requests, pending>>
  PROVE  RequestInv'
<1> DEFINE d == cur[a]
<1>1. d \in Conversation /\ life[d] = "open"
  BY HolderPlace
<1>2. owed \in [Conversation -> Nat]
  BY DEF IInv, TypeOK
<1>3. Served'
  BY ServedMoved DEF RequestInv
<1>4. PendingIsWanted'
  BY DEF RequestInv, PendingIsWanted, Others, Answering
<1>5. ErrorStays'
  BY Actors DEF RequestInv, ErrorStays, Others
<1>6. \A x \in Actor, c \in Conversation : Holds(x, c)' => x # a /\ Holds(x, c)
  BY DEF Others, Holds
<1>7. OneRequest'
  <2> SUFFICES ASSUME NEW c \in Conversation, life[c] = "open", ~shouldError[c]
               PROVE  OneRequestOf(c)'
    BY DEF OneRequest
  <2>1. OneRequestOf(c)
    BY DEF RequestInv, OneRequest
  <2>2. CASE c # d
    <3>1. owed'[c] = owed[c]
      BY <1>1, <1>2, <2>2 DEF Received
    <3> QED BY <1>6, <2>1, <3>1 DEF OneRequestOf
  <2>3. CASE c = d
    <3>1. Holds(a, c)
      BY <2>3 DEF Holds
    <3>2. owed[c] = 1 /\ requests[c] = <<>> /\ \A x \in Actor : Holds(x, c) => x = a
      BY <2>1, <3>1 DEF OneRequestOf
    <3>3. owed'[c] = 0
      BY <1>1, <1>2, <2>3, <3>2 DEF Received
    <3>4. \A x \in Actor : ~Holds(x, c)'
      BY <1>6, <3>2
    <3>5. requests'[c] = <<>> /\ Len(<<>>) = 0
      BY <3>2
    <3> QED BY <3>3, <3>4, <3>5 DEF OneRequestOf
  <2> QED BY <2>2, <2>3
<1>8. UnusedOwesNothing'
  <2> SUFFICES ASSUME NEW c \in Conversation, life[c] = "unused"
               PROVE  owed'[c] = 0 /\ requests[c] = <<>>
    BY DEF UnusedOwesNothing
  <2>1. c # d /\ owed[c] = 0 /\ requests[c] = <<>>
    BY <1>1 DEF RequestInv, UnusedOwesNothing
  <2> QED BY <1>1, <1>2, <2>1 DEF Received
<1> QED BY <1>3, <1>4, <1>5, <1>7, <1>8 DEF RequestInv

\* handleHttpService, handleServiceFailed, serializeConsiderCloseEnqueue.
LEMMA RequestsService ==
  ASSUME IInv, RequestInv, NEW a \in Actor, ServiceStep(a)
  PROVE  RequestInv'
<1> USE DEF At, Goto, convVars, sharedVars
<1>0. TypeOK /\ ActorServed(a)
  BY DEF IInv, RequestInv, Served
<1> DEFINE Kept == UNCHANGED <<life, shouldError, requests, owed, pending>>
<1>1. ASSUME Kept, Others(a), Quiet(a), ActorServed(a)' PROVE RequestInv'
  BY <1>1, RequestsQuiet
<1>2. CASE ServeCheck(a)
  <2>1. Kept /\ Others(a)
    BY <1>0, <1>2 DEF ServeCheck, Others, TypeOK
  <2>2. pc[a] = "serve" /\ pc'[a] \in {"failSave", "running"}
        /\ UNCHANGED <<cur, ret, wanted, serving>>
    BY <1>0, <1>2 DEF ServeCheck, TypeOK
  <2>3. Quiet(a) /\ ActorServed(a)'
    BY <1>0, <2>2 DEF Quiet, Answering, BeforeCall, ActorServed, ServicePC
  <2> QED BY <1>1, <2>1, <2>3
<1>3. CASE FinishResponse(a)
  <2>1. pc[a] = "running" /\ pc'[a] = "finishing" /\ Received(cur[a])
        /\ UNCHANGED <<convVars, cur, ret, wanted, serving>>
    BY <1>0, <1>3 DEF FinishResponse, TypeOK
  <2>2. Others(a)
    BY <1>0, <1>3 DEF FinishResponse, Others, TypeOK
  <2>3. ActorServed(a)'
    BY <1>0, <2>1 DEF ActorServed, ServicePC
  <2>4. pc[a] \in Answering /\ pc'[a] \notin Answering /\ pc'[a] # "errorReply"
    BY <2>1 DEF Answering, BeforeCall
  <2> QED BY <2>1, <2>2, <2>3, <2>4, RequestsAnswered
<1>4. CASE FreeResponse(a)
  <2>1. Kept /\ Others(a)
    BY <1>0, <1>4 DEF FreeResponse, Others, TypeOK
  <2>2. pc'[a] = "finished" /\ UNCHANGED <<cur, ret, wanted, serving>>
    BY <1>0, <1>4 DEF FreeResponse, TypeOK
  <2>3. Quiet(a) /\ ActorServed(a)'
    BY <1>0, <2>2 DEF Quiet, Answering, BeforeCall, ActorServed, ServicePC
  <2> QED BY <1>1, <2>1, <2>3
<1>5. CASE ServiceDone(a)
  <2>1. Kept /\ Others(a)
    BY <1>0, <1>5 DEF ServiceDone, ServiceReturns, Others, TypeOK
  <2>2. pc'[a] \in {"drain", "load"} /\ serving'[a] = NoService
    BY <1>0, <1>5 DEF ServiceDone, ServiceReturns, TypeOK
  <2>3. Quiet(a) /\ ActorServed(a)'
    BY <2>2 DEF Quiet, Answering, BeforeCall, ActorServed
  <2> QED BY <1>1, <2>1, <2>3
<1>6. CASE ServiceAbends(a) \/ FailSave(a) \/ FailClear(a) \/ FailFree(a)
  <2>1. Kept /\ Others(a)
    BY <1>0, <1>6 DEF ServiceAbends, FailSave, FailClear, FailFree, Others, TypeOK
  <2>2. pc'[a] \in {"failSave", "failClear", "failClose", "failed"}
        /\ UNCHANGED <<cur, ret, wanted, serving>>
    BY <1>0, <1>6 DEF ServiceAbends, FailSave, FailClear, FailFree, TypeOK
  <2>3. Quiet(a) /\ ActorServed(a)'
    BY <1>0, <2>2 DEF Quiet, Answering, BeforeCall, ActorServed, ServicePC
  <2> QED BY <1>1, <2>1, <2>3
<1>7. CASE FailClose(a)
  <2>1. Kept /\ Others(a)
    BY <1>0, <1>7 DEF FailClose, Others, TypeOK
  <2>2. pc'[a] = "load" /\ ret'[a] = "failFree" /\ UNCHANGED <<cur, wanted, serving>>
    BY <1>0, <1>7 DEF FailClose, TypeOK
  <2>3. Quiet(a) /\ ActorServed(a)'
    BY <1>0, <2>2 DEF Quiet, Answering, BeforeCall, ActorServed, SerializePC
  <2> QED BY <1>1, <2>1, <2>3
\* Within the serialization, or back from it.
<1>8. ASSUME pc[a] \in SerializePC, Kept, UNCHANGED <<ret, wanted, serving>>,
             \/ pc'[a] \in SerializePC
             \/ pc'[a] = ret[a]
      PROVE  Quiet(a) /\ ActorServed(a)'
  <2>1. ret[a] \in {"sockets", "idle", "failFree"}
    BY <1>0 DEF TypeOK
  <2>2. Quiet(a)
    BY <1>8, <2>1 DEF Quiet, Answering, BeforeCall, SerializePC
  <2>3. serving[a] # NoService => ret[a] = "failFree"
    BY <1>0, <1>8 DEF ActorServed, SerializePC, ServicePC
  <2> QED BY <1>0, <1>8, <2>2, <2>3 DEF ActorServed, ServicePC
<1>9. CASE SerializeLoad(a)
  <2>1. Kept /\ Others(a)
    BY <1>0, <1>9 DEF SerializeLoad, Others, TypeOK
  <2>2. pc[a] \in SerializePC /\ pc'[a] \in SerializePC /\ UNCHANGED <<ret, wanted, serving>>
    BY <1>0, <1>9 DEF SerializeLoad, SerializePC, TypeOK
  <2> QED BY <1>1, <1>8, <2>1, <2>2
<1>10. CASE SerializeCas(a)
  <2>1. /\ pc[a] = "cas" /\ Kept /\ UNCHANGED <<ret, wanted, serving>>
        /\ \/ SerializeReturns(a)
           \/ pc' = [pc EXCEPT ![a] = "enqueue"] /\ cur' = cur
           \/ UNCHANGED <<pc, cur>>
    BY <1>10 DEF SerializeCas, SerializeSwap
  <2>2. Others(a) /\ (pc'[a] \in SerializePC \/ pc'[a] = ret[a])
    BY <1>0, <2>1 DEF SerializeReturns, SerializePC, Others, TypeOK
  <2>3. pc[a] \in SerializePC
    BY <2>1 DEF SerializePC
  <2> QED BY <1>1, <1>8, <2>1, <2>2, <2>3
<1>11. CASE SerializeEnqueue(a)
  <2>1. pc[a] = "enqueue" /\ Kept /\ UNCHANGED <<ret, wanted, serving>> /\ SerializeReturns(a)
    BY <1>11 DEF SerializeEnqueue
  <2>2. Others(a) /\ pc'[a] = ret[a]
    BY <1>0, <2>1 DEF SerializeReturns, Others, TypeOK
  <2>3. pc[a] \in SerializePC
    BY <2>1 DEF SerializePC
  <2> QED BY <1>1, <1>8, <2>1, <2>2, <2>3
<1> QED BY <1>2, <1>3, <1>4, <1>5, <1>6, <1>7, <1>9, <1>10, <1>11 DEF ServiceStep

LEMMA RequestsTask ==
  ASSUME IInv, RequestInv, NEW t \in Task, TaskStep(t)
  PROVE  RequestInv'
<1> USE DEF At, Goto, convVars, sharedVars
<1>0. TypeOK /\ ActorServed(t) /\ t \in Actor
  BY Actors DEF IInv, RequestInv, Served
<1>1. CASE TaskStart(t)
  <2>1. /\ UNCHANGED <<life, shouldError, requests, owed, pending, cur, wanted, serving>>
        /\ pc[t] = "start" /\ pc'[t] \in {"load", "call"}
    BY <1>0, <1>1 DEF TaskStart, TypeOK
  <2>2. Others(t)
    BY <1>0, <1>1 DEF TaskStart, Others, TypeOK
  <2>3. serving[t] = NoService
    BY <1>0, <2>1 DEF ActorServed, ServicePC, SerializePC
  <2>4. Quiet(t) /\ ActorServed(t)'
    BY <2>1, <2>3 DEF Quiet, Answering, BeforeCall, ActorServed
  <2> QED BY <1>0, <2>1, <2>2, <2>4, RequestsQuiet
<1>2. CASE TaskCall(t)
  <2>1. /\ UNCHANGED <<life, shouldError, requests, owed, pending, cur, wanted, ret>>
        /\ pc[t] = "call" /\ pc'[t] = "serve" /\ serving'[t] = pending[cur[t]]
    BY <1>0, <1>2 DEF TaskCall, TypeOK
  <2>2. Others(t)
    BY <1>0, <1>2 DEF TaskCall, Others, TypeOK
  <2>3. pending[cur[t]] = wanted[t]
    BY <1>0, <2>1 DEF RequestInv, PendingIsWanted, BeforeCall
  <2>4. Quiet(t) /\ ActorServed(t)'
    BY <2>1, <2>3 DEF Quiet, Answering, BeforeCall, ActorServed, ServicePC
  <2> QED BY <1>0, <2>1, <2>2, <2>4, RequestsQuiet
<1>3. CASE ServiceStep(t)
  BY <1>0, <1>3, RequestsService
<1> QED BY <1>1, <1>2, <1>3 DEF TaskStep

\* Of the main task: no service is called between the reads and dispatches.
LEMMA MainServesNone ==
  ASSUME RequestInv, pc[Main] \in MainPC
  PROVE  serving[Main] = NoService
<1>1. ActorServed(Main)
  BY Actors DEF RequestInv, Served
<1> QED BY <1>1 DEF ActorServed, MainPC, ServicePC, SerializePC

\* The main task moves on without a request.
LEMMA RequestsMain ==
  ASSUME IInv, RequestInv, Others(Main), Quiet(Main), pc[Main] \in MainPC,
         UNCHANGED <<life, shouldError, requests, owed, pending, serving>>
  PROVE  RequestInv'
<1>1. ActorServed(Main)'
  BY MainServesNone DEF ActorServed
<1> QED BY <1>1, RequestsQuiet, Actors

LEMMA RequestsAccepted ==
  ASSUME IInv, RequestInv, NEW c \in Conversation, AcceptConversation(c)
  PROVE  RequestInv'
<1>1. /\ life[c] = "unused" /\ life' = [life EXCEPT ![c] = "open"]
      /\ UNCHANGED <<shouldError, requests, owed, pending, pc, ret, cur, wanted, serving>>
  BY DEF AcceptConversation, At, actorVars
<1>2. life \in [Conversation -> {"unused", "open", "freed"}]
  BY DEF IInv, TypeOK
<1>3. Served' /\ PendingIsWanted' /\ ErrorStays'
  BY <1>1 DEF RequestInv, Served, ActorServed, PendingIsWanted, ErrorStays
<1>4. owed[c] = 0 /\ requests[c] = <<>>
  BY <1>1 DEF RequestInv, UnusedOwesNothing
<1>5. \A a \in Actor : ~Holds(a, c)
  BY <1>1, HolderPlace DEF Holds
<1>6. OneRequest'
  <2> SUFFICES ASSUME NEW d \in Conversation, life'[d] = "open", ~shouldError[d]
               PROVE  OneRequestOf(d)'
    BY <1>1 DEF OneRequest
  <2>1. OneRequestOf(d)
    <3>1. CASE d = c
      BY <1>4, <1>5, <3>1 DEF OneRequestOf
    <3>2. CASE d # c
      BY <1>1, <1>2, <3>2 DEF RequestInv, OneRequest
    <3> QED BY <3>1, <3>2
  <2> QED BY <1>1, <2>1 DEF OneRequestOf, Holds
<1>7. UnusedOwesNothing'
  BY <1>1, <1>2 DEF RequestInv, UnusedOwesNothing
<1> QED BY <1>3, <1>6, <1>7 DEF RequestInv

\* The client sends a request when it has received all its responses.
LEMMA RequestsRead ==
  ASSUME ~PipelinedClient, IInv, RequestInv,
         NEW n \in 0..MaxPerFragment, NEW rs \in [1..n -> Request], NEW ok \in BOOLEAN,
         ReadFragment(rs, ok)
  PROVE  RequestInv'
<1> DEFINE d == cur[Main]
<1>0. n \in Nat /\ rs \in Seq(Request) /\ Len(rs) = n
  BY BoundsAssumption
<1>1. /\ pc[Main] = "read" /\ MaySend(d, rs)
      /\ requests' = [requests EXCEPT ![d] = @ \o rs]
      /\ shouldError' = [shouldError EXCEPT ![d] = @ \/ ~ok]
      /\ owed' = [owed EXCEPT ![d] = @ + Len(rs) + (IF ok THEN 0 ELSE 1)]
      /\ cur' = [cur EXCEPT ![Main] = NoConversation]
      /\ pc' = [pc EXCEPT ![Main] = "sockets"]
      /\ UNCHANGED <<life, pending, ret, wanted, serving>>
  BY DEF ReadFragment, At, Goto
<1>2. d \in Conversation /\ life[d] = "open"
  <2>1. d # NoConversation
    BY <1>1 DEF IInv, MainPlaces
  <2> QED BY <2>1, CurType, Actors
<1>3. TypeOK
  BY DEF IInv
<1>4. Others(Main)
  BY <1>1, <1>3 DEF Others, TypeOK
<1>5. pc'[Main] = "sockets" /\ Main \in Actor
  BY <1>1, <1>3, Actors DEF TypeOK
<1>6. \A x \in Actor, c \in Conversation : Holds(x, c)' => Holds(x, c)
  BY <1>4, <1>5 DEF Others, Holds, Answering, BeforeCall
<1>7. Served'
  <2>1. serving[Main] = NoService
    BY <1>1, MainServesNone DEF MainPC
  <2>2. ActorServed(Main)'
    BY <1>1, <2>1 DEF ActorServed
  <2> QED BY <1>4, <2>2, ServedMoved, Actors DEF RequestInv
<1>8. PendingIsWanted'
  BY <1>1, <1>4, <1>5 DEF RequestInv, PendingIsWanted, Others, BeforeCall
<1>9. ErrorStays'
  BY <1>5 DEF ErrorStays
<1>10. owed[d] = 0 /\ Len(rs) <= 1
  BY <1>1 DEF MaySend
<1>11. OneRequest'
  <2> SUFFICES ASSUME NEW c \in Conversation, life[c] = "open", ~shouldError'[c]
               PROVE  OneRequestOf(c)'
    BY <1>1 DEF OneRequest
  <2>1. CASE c # d
    <3>1. ~shouldError[c] /\ owed'[c] = owed[c] /\ requests'[c] = requests[c]
      BY <1>1, <1>2, <1>3, <2>1 DEF TypeOK
    <3>2. OneRequestOf(c)
      BY <3>1 DEF RequestInv, OneRequest
    <3> QED BY <1>6, <3>1, <3>2 DEF OneRequestOf
  <2>2. CASE c = d
    <3>1. ~shouldError[c] /\ ok
      BY <1>1, <1>2, <1>3, <2>2 DEF TypeOK
    <3>2. OneRequestOf(c)
      BY <3>1 DEF RequestInv, OneRequest
    <3>3. requests[c] = <<>> /\ \A a \in Actor : ~Holds(a, c)
      BY <1>10, <2>2, <3>2 DEF OneRequestOf
    <3>4. requests'[c] = <<>> \o rs
      BY <1>1, <1>2, <1>3, <2>2, <3>3 DEF TypeOK
    <3>5. requests'[c] = rs
      BY <1>0, <3>4
    <3>6. owed'[c] = n
      BY <1>0, <1>1, <1>2, <1>3, <1>10, <2>2, <3>1 DEF TypeOK
    <3>7. rs # <<>> => n = 1
      BY <1>0, <1>10
    <3>8. n <= 1
      BY <1>0, <1>10
    <3>9. \A a \in Actor : ~Holds(a, c)'
      BY <1>6, <3>3
    <3> QED BY <1>0, <3>5, <3>6, <3>7, <3>8, <3>9 DEF OneRequestOf
  <2> QED BY <2>1, <2>2
<1>12. UnusedOwesNothing'
  <2> SUFFICES ASSUME NEW c \in Conversation, life[c] = "unused"
               PROVE  owed'[c] = 0 /\ requests'[c] = <<>>
    BY <1>1 DEF UnusedOwesNothing
  <2>1. c # d /\ owed[c] = 0 /\ requests[c] = <<>>
    BY <1>2 DEF RequestInv, UnusedOwesNothing
  <2> QED BY <1>1, <1>2, <1>3, <2>1 DEF TypeOK
<1> QED BY <1>7, <1>8, <1>9, <1>11, <1>12 DEF RequestInv

LEMMA RequestsSocket ==
  ASSUME ~PipelinedClient, IInv, RequestInv, SocketStep
  PROVE  RequestInv'
<1> USE DEF At, Goto, convVars, sharedVars
<1>0. TypeOK /\ Main \in Actor
  BY Actors DEF IInv
<1>1. CASE Select \/ SocketsDone \/ ReadFails
  <2>1. /\ UNCHANGED <<life, shouldError, requests, owed, pending, serving>>
        /\ pc[Main] \in {"select", "sockets", "read"}
    BY <1>1 DEF Select, SocketsDone, ReadFails, ReadEnds
  <2>2. Others(Main)
    BY <1>0, <1>1 DEF Select, SocketsDone, ReadFails, ReadEnds, Others, TypeOK
  <2>3. pc'[Main] \in {"sockets", "drain"}
    BY <1>0, <1>1 DEF Select, SocketsDone, ReadFails, ReadEnds, TypeOK
  <2>4. Quiet(Main)
    BY <2>3 DEF Quiet, Answering, BeforeCall
  <2>5. pc[Main] \in MainPC
    BY <2>1 DEF MainPC
  <2> QED BY <2>1, <2>2, <2>4, <2>5, RequestsMain
<1>2. ASSUME NEW c \in Conversation, PeerReadClosing(c) \/ PeerReadOpen(c)
      PROVE  RequestInv'
  <2>1. /\ UNCHANGED <<life, shouldError, requests, owed, pending, serving>>
        /\ pc[Main] = "sockets"
    BY <1>2 DEF PeerReadClosing, PeerReadOpen
  <2>2. Others(Main)
    BY <1>0, <1>2 DEF PeerReadClosing, PeerReadOpen, Others, TypeOK
  <2>3. pc'[Main] \in {"load", "read"}
    BY <1>0, <1>2 DEF PeerReadClosing, PeerReadOpen, TypeOK
  <2>4. Quiet(Main)
    BY <2>3 DEF Quiet, Answering, BeforeCall
  <2>5. pc[Main] \in MainPC
    BY <2>1 DEF MainPC
  <2> QED BY <2>1, <2>2, <2>4, <2>5, RequestsMain
<1> QED BY <1>1, <1>2, RequestsAccepted, RequestsRead DEF SocketStep

\* doHttpResponseWork: the main task takes the one request and stores its
\* service in the conversation.
LEMMA RequestsTaken ==
  ASSUME IInv, RequestInv, NEW c \in Conversation, StartRequest(c)
  PROVE  RequestInv'
<1> DEFINE r == Head(requests[c])
<1>0. TypeOK /\ Main \in Actor
  BY Actors DEF IInv
<1>1. /\ pc[Main] = "drain" /\ ~shouldError[c] /\ requests[c] # <<>>
      /\ queue # <<>> /\ Head(queue).conv = c
      /\ requests' = [requests EXCEPT ![c] = Tail(@)]
      /\ cur' = [cur EXCEPT ![Main] = c]
      /\ UNCHANGED <<life, shouldError, owed, ret, serving>>
  BY DEF StartRequest, Dequeue, At
<1>2. \/ /\ r \in Service
         /\ pending' = [pending EXCEPT ![c] = r]
         /\ wanted' = [wanted EXCEPT ![Main] = r]
         /\ pc' = [pc EXCEPT ![Main] = "dispatch"]
      \/ /\ \/ pc' = [pc EXCEPT ![Main] = "notFoundReply"]
            \/ pc' = [pc EXCEPT ![Main] = "notFoundClose"]
         /\ UNCHANGED <<pending, wanted>>
  BY DEF StartRequest, PendingService, Goto
<1> HIDE DEF r
<1>3. life[c] = "open"
  <2>1. 1 \in DOMAIN queue /\ queue[1] = Head(queue)
    BY <1>0, <1>1 DEF TypeOK
  <2> QED BY <1>1, <2>1 DEF IInv, NoUseAfterFree
<1>4. OneRequestOf(c)
  BY <1>1, <1>3 DEF RequestInv, OneRequest
<1>5. owed[c] = 1 /\ \A a \in Actor : ~Holds(a, c)
  BY <1>1, <1>4 DEF OneRequestOf
<1>6. requests'[c] = <<>>
  <2>1. requests[c] \in Seq(Request) /\ Len(requests[c]) <= 1 /\ requests[c] # <<>>
    BY <1>0, <1>1, <1>4 DEF TypeOK, OneRequestOf
  <2>2. Tail(requests[c]) = <<>>
    BY <2>1
  <2> QED BY <1>0, <1>1, <2>2 DEF TypeOK
<1>7. Others(Main)
  BY <1>0, <1>1, <1>2 DEF Others, TypeOK
<1>8. /\ cur'[Main] = c
      /\ \/ pc'[Main] = "dispatch" /\ pending'[c] = r /\ wanted'[Main] = r
         \/ pc'[Main] \in {"notFoundReply", "notFoundClose"}
  <2>1. cur'[Main] = c
    BY <1>0, <1>1 DEF TypeOK
  <2> QED BY <1>0, <1>2, <2>1 DEF TypeOK
<1>9. Served'
  <2>1. serving[Main] = NoService
    BY <1>1, MainServesNone DEF MainPC
  <2>2. ActorServed(Main)'
    BY <1>1, <2>1 DEF ActorServed
  <2> QED BY <1>0, <1>7, <2>2, ServedMoved DEF RequestInv
<1>10. PendingIsWanted'
  <2> SUFFICES ASSUME NEW x \in Actor, pc'[x] \in BeforeCall
               PROVE  pending'[cur'[x]] = wanted'[x]
    BY DEF PendingIsWanted
  <2>1. CASE x = Main
    <3>1. pc'[x] = "dispatch"
      BY <1>8, <2>1 DEF BeforeCall
    <3> QED BY <1>8, <2>1, <3>1
  <2>2. CASE x # Main
    <3>1. pc[x] \in BeforeCall /\ cur'[x] = cur[x] /\ wanted'[x] = wanted[x]
      BY <1>7, <2>2 DEF Others
    <3>2. cur[x] # c
      BY <1>5, <3>1 DEF Holds, Answering
    <3>3. cur[x] \in Conversation
      BY <3>1, HolderPlace DEF Answering
    <3>4. pending'[cur[x]] = pending[cur[x]]
      BY <1>0, <1>2, <3>2, <3>3 DEF TypeOK
    <3> QED BY <3>1, <3>4 DEF RequestInv, PendingIsWanted
  <2> QED BY <2>1, <2>2
<1>11. ErrorStays'
  BY <1>8 DEF ErrorStays
<1>12. \A x \in Actor, d \in Conversation : Holds(x, d)' => Holds(x, d) \/ (x = Main /\ d = c)
  BY <1>7, <1>8 DEF Others, Holds
<1>13. OneRequest'
  <2> SUFFICES ASSUME NEW d \in Conversation, life[d] = "open", ~shouldError[d]
               PROVE  OneRequestOf(d)'
    BY <1>1 DEF OneRequest
  <2>1. CASE d = c
    <3>1. \A x \in Actor : Holds(x, c)' => x = Main
      BY <1>5, <1>12
    <3>2. owed'[c] = 1 /\ Len(<<>>) = 0
      BY <1>1, <1>5
    <3> QED BY <1>6, <2>1, <3>1, <3>2 DEF OneRequestOf
  <2>2. CASE d # c
    <3>1. requests'[d] = requests[d] /\ owed'[d] = owed[d]
      BY <1>0, <1>1, <2>2 DEF TypeOK
    <3>2. OneRequestOf(d)
      BY DEF RequestInv, OneRequest
    <3> QED BY <1>12, <2>2, <3>1, <3>2 DEF OneRequestOf
  <2> QED BY <2>1, <2>2
<1>14. UnusedOwesNothing'
  <2> SUFFICES ASSUME NEW d \in Conversation, life[d] = "unused"
               PROVE  owed[d] = 0 /\ requests'[d] = <<>>
    BY <1>1 DEF UnusedOwesNothing
  <2>1. d # c /\ owed[d] = 0 /\ requests[d] = <<>>
    BY <1>3 DEF RequestInv, UnusedOwesNothing
  <2> QED BY <1>0, <1>1, <2>1 DEF TypeOK
<1> QED BY <1>9, <1>10, <1>11, <1>13, <1>14 DEF RequestInv

\* startHttpTask: the request passes from the main task to a subtask.
LEMMA RequestsHandedOver ==
  ASSUME IInv, RequestInv, NEW t \in Task, StartTask(t)
  PROVE  RequestInv'
<1>0. TypeOK /\ Main \in Actor /\ t \in Actor /\ t # Main
  BY Actors DEF IInv
<1>1. /\ pc[Main] = "startTask" /\ pc[t] = "idle"
      /\ pc' = [pc EXCEPT ![Main] = "drain", ![t] = "start"]
      /\ cur' = [cur EXCEPT ![Main] = NoConversation, ![t] = cur[Main]]
      /\ wanted' = [wanted EXCEPT ![Main] = NoService, ![t] = wanted[Main]]
      /\ UNCHANGED <<life, shouldError, requests, owed, pending, ret, serving>>
  BY DEF StartTask, At, convVars
<1>2. /\ pc'[Main] = "drain" /\ pc'[t] = "start"
      /\ cur'[t] = cur[Main] /\ wanted'[t] = wanted[Main]
  BY <1>0, <1>1 DEF TypeOK
<1>3. \A x \in Actor \ {Main, t} :
        /\ pc'[x] = pc[x] /\ cur'[x] = cur[x] /\ ret'[x] = ret[x]
        /\ wanted'[x] = wanted[x] /\ serving'[x] = serving[x]
  BY <1>0, <1>1 DEF TypeOK
<1>4. serving[Main] = NoService /\ serving[t] = NoService
  <2>1. ActorServed(t)
    BY <1>0 DEF RequestInv, Served
  <2>2. serving[Main] = NoService
    BY <1>1, MainServesNone DEF MainPC
  <2> QED BY <1>1, <2>1, <2>2 DEF ActorServed, ServicePC, SerializePC
<1>5. Served'
  <2> SUFFICES ASSUME NEW x \in Actor PROVE ActorServed(x)'
    BY DEF Served
  <2>1. ActorServed(x)
    BY DEF RequestInv, Served
  <2>2. CASE x \in {Main, t}
    BY <1>1, <1>4, <2>2 DEF ActorServed
  <2>3. CASE x \notin {Main, t}
    BY <1>3, <2>1, <2>3 DEF ActorServed
  <2> QED BY <2>2, <2>3
<1>6. PendingIsWanted'
  <2> SUFFICES ASSUME NEW x \in Actor, pc'[x] \in BeforeCall
               PROVE  pending'[cur'[x]] = wanted'[x]
    BY DEF PendingIsWanted
  <2>1. x # Main
    BY <1>2 DEF BeforeCall
  <2>2. CASE x = t
    <3>1. pc[Main] \in BeforeCall
      BY <1>1 DEF BeforeCall
    <3> QED BY <1>0, <1>1, <1>2, <2>2, <3>1 DEF RequestInv, PendingIsWanted
  <2>3. CASE x # t
    <3>1. pc[x] \in BeforeCall /\ cur'[x] = cur[x] /\ wanted'[x] = wanted[x]
      BY <1>3, <2>1, <2>3
    <3>2. pending[cur[x]] = wanted[x]
      BY <3>1 DEF RequestInv, PendingIsWanted
    <3> QED BY <1>1, <3>1, <3>2
  <2> QED BY <2>2, <2>3
<1>7. ErrorStays'
  BY <1>2 DEF ErrorStays
<1>8. \A x \in Actor, d \in Conversation :
        Holds(x, d)' => \/ x = t /\ Holds(Main, d)
                        \/ x \notin {Main, t} /\ Holds(x, d)
  <2> SUFFICES ASSUME NEW x \in Actor, NEW d \in Conversation, Holds(x, d)'
               PROVE  \/ x = t /\ Holds(Main, d)
                      \/ x \notin {Main, t} /\ Holds(x, d)
    OBVIOUS
  <2>1. x # Main
    BY <1>2 DEF Holds, Answering, BeforeCall
  <2>2. CASE x = t
    BY <1>1, <1>2, <2>2 DEF Holds, Answering, BeforeCall
  <2>3. CASE x # t
    BY <1>3, <2>1, <2>3 DEF Holds
  <2> QED BY <2>2, <2>3
<1>9. OneRequest'
  <2> SUFFICES ASSUME NEW d \in Conversation, life[d] = "open", ~shouldError[d]
               PROVE  OneRequestOf(d)'
    BY <1>1 DEF OneRequest
  <2>1. OneRequestOf(d)
    BY DEF RequestInv, OneRequest
  <2>2. ASSUME NEW x \in Actor, NEW y \in Actor, Holds(x, d)', Holds(y, d)'
        PROVE  x = y
    BY <1>0, <1>8, <2>1, <2>2 DEF OneRequestOf
  <2>3. \A x \in Actor : Holds(x, d)' => \E y \in Actor : Holds(y, d)
    BY <1>0, <1>8
  <2> QED BY <1>1, <2>1, <2>2, <2>3 DEF OneRequestOf
<1>10. UnusedOwesNothing'
  BY <1>1 DEF RequestInv, UnusedOwesNothing
<1> QED BY <1>5, <1>6, <1>7, <1>9, <1>10 DEF RequestInv

\* httpCloseConversation: by IInv' no actor is at work on the block it frees.
LEMMA RequestsClosed ==
  ASSUME IInv, IInv', RequestInv, NEW c \in Conversation, CloseConversation(c)
  PROVE  RequestInv'
<1>0. TypeOK /\ Main \in Actor
  BY Actors DEF IInv
<1>1. /\ pc[Main] = "drain"
      /\ life' = [life EXCEPT ![c] = "freed"]
      /\ shouldError' = [shouldError EXCEPT ![c] = FALSE]
      /\ requests' = [requests EXCEPT ![c] = <<>>]
      /\ pending' = [pending EXCEPT ![c] = NoService]
      /\ UNCHANGED <<owed, pc, ret, cur, wanted, serving>>
  BY DEF CloseConversation, Release, Dequeue, At, actorVars
<1>2. life'[c] = "freed"
  BY <1>0, <1>1 DEF TypeOK
<1>3. \A x \in Actor : pc[x] \in Answering => cur[x] \in Conversation /\ cur[x] # c
  <2> SUFFICES ASSUME NEW x \in Actor, pc[x] \in Answering
               PROVE  cur[x] \in Conversation /\ cur[x] # c
    OBVIOUS
  <2>1. cur[x] \in Conversation
    BY HolderPlace
  <2>2. cur'[x] # NoConversation
    BY <1>1, <2>1, ConversationsAssumption
  <2>3. life'[cur'[x]] = "open"
    BY <2>2 DEF IInv, NoUseAfterFree
  <2> QED BY <1>1, <1>2, <2>1, <2>3
<1>4. Served'
  BY <1>1 DEF RequestInv, Served, ActorServed
<1>5. PendingIsWanted'
  <2> SUFFICES ASSUME NEW x \in Actor, pc[x] \in BeforeCall
               PROVE  pending'[cur[x]] = wanted[x]
    BY <1>1 DEF PendingIsWanted
  <2>1. cur[x] \in Conversation /\ cur[x] # c
    BY <1>3 DEF Answering
  <2>2. pending'[cur[x]] = pending[cur[x]]
    BY <1>0, <1>1, <2>1 DEF TypeOK
  <2> QED BY <2>2 DEF RequestInv, PendingIsWanted
<1>6. ErrorStays'
  BY <1>1 DEF ErrorStays
<1>7. OneRequest'
  <2> SUFFICES ASSUME NEW d \in Conversation, life'[d] = "open", ~shouldError'[d]
               PROVE  OneRequestOf(d)'
    BY DEF OneRequest
  <2>1. /\ d # c /\ life[d] = "open" /\ ~shouldError[d]
        /\ requests'[d] = requests[d] /\ owed'[d] = owed[d]
    BY <1>0, <1>1, <1>2 DEF TypeOK
  <2>2. OneRequestOf(d)
    BY <2>1 DEF RequestInv, OneRequest
  <2> QED BY <1>1, <2>1, <2>2 DEF OneRequestOf, Holds
<1>8. UnusedOwesNothing'
  BY <1>0, <1>1, <1>2 DEF RequestInv, UnusedOwesNothing, TypeOK
<1> QED BY <1>4, <1>5, <1>6, <1>7, <1>8 DEF RequestInv

LEMMA RequestsQueue ==
  ASSUME IInv, IInv', RequestInv, QueueStep
  PROVE  RequestInv'
<1> USE DEF At, Goto, convVars, sharedVars, actorVars
<1>0. TypeOK /\ Main \in Actor
  BY Actors DEF IInv
<1> DEFINE Kept == UNCHANGED <<life, shouldError, requests, owed, pending>>
<1>1. CASE DrainDone
  <2>1. Kept /\ UNCHANGED serving /\ pc[Main] \in MainPC
    BY <1>1 DEF DrainDone, MainPC
  <2>2. Others(Main) /\ pc'[Main] = "select"
    BY <1>0, <1>1 DEF DrainDone, Others, TypeOK
  <2>3. Quiet(Main)
    BY <2>2 DEF Quiet, Answering, BeforeCall
  <2> QED BY <2>1, <2>2, <2>3, RequestsMain
<1>2. CASE ErrorReply
  <2> DEFINE d == cur[Main]
  <2>1. /\ UNCHANGED <<life, shouldError, requests, pending, wanted, serving, ret>>
        /\ pc[Main] = "errorReply" /\ Received(d)
    BY <1>2 DEF ErrorReply
  <2>2. pc'[Main] = "drain" /\ Others(Main)
    BY <1>0, <1>2 DEF ErrorReply, Others, TypeOK
  <2>3. d \in Conversation /\ life[d] = "open" /\ shouldError[d]
    <3>1. d # NoConversation
      BY <2>1 DEF IInv, MainPlaces
    <3> QED BY <1>0, <2>1, <3>1, CurType DEF RequestInv, ErrorStays
  <2>4. \A c \in Conversation : c # d => owed'[c] = owed[c]
    BY <1>0, <2>1, <2>3 DEF Received, TypeOK
  <2>5. Served'
    <3>1. serving[Main] = NoService
      BY <2>1, MainServesNone DEF MainPC
    <3>2. ActorServed(Main)'
      BY <2>1, <3>1 DEF ActorServed
    <3> QED BY <1>0, <2>2, <3>2, ServedMoved DEF RequestInv
  <2>6. PendingIsWanted' /\ ErrorStays'
    BY <2>1, <2>2 DEF RequestInv, PendingIsWanted, ErrorStays, Others, BeforeCall
  <2>7. \A x \in Actor, c \in Conversation : Holds(x, c)' => Holds(x, c)
    BY <2>2 DEF Others, Holds, Answering, BeforeCall
  <2>8. OneRequest'
    <3> SUFFICES ASSUME NEW c \in Conversation, life[c] = "open", ~shouldError[c]
                 PROVE  OneRequestOf(c)'
      BY <2>1 DEF OneRequest
    <3>1. OneRequestOf(c) /\ owed'[c] = owed[c]
      BY <2>3, <2>4 DEF RequestInv, OneRequest
    <3> QED BY <2>1, <2>7, <3>1 DEF OneRequestOf
  <2>9. UnusedOwesNothing'
    <3> SUFFICES ASSUME NEW c \in Conversation, life[c] = "unused"
                 PROVE  owed'[c] = 0 /\ requests[c] = <<>>
      BY <2>1 DEF UnusedOwesNothing
    <3> QED BY <2>3, <2>4 DEF RequestInv, UnusedOwesNothing
  <2> QED BY <2>5, <2>6, <2>8, <2>9 DEF RequestInv
<1>3. CASE NotFoundReply
  <2>1. /\ UNCHANGED <<life, shouldError, requests, pending, wanted, serving>>
        /\ pc[Main] \in {"notFoundReply", "notFoundClose"} /\ Received(cur[Main])
    BY <1>3 DEF NotFoundReply
  <2>2. pc'[Main] = "drain" /\ Others(Main)
    BY <1>0, <1>3 DEF NotFoundReply, Others, TypeOK
  <2>3. ActorServed(Main)'
    BY <2>1, MainServesNone DEF ActorServed, MainPC
  <2>4. pc[Main] \in Answering /\ pc'[Main] \notin Answering /\ pc'[Main] # "errorReply"
    BY <2>1, <2>2 DEF Answering, BeforeCall
  <2> QED BY <1>0, <2>1, <2>2, <2>3, <2>4, RequestsAnswered
<1>4. CASE Dispatch
  <2>1. /\ Kept /\ UNCHANGED <<cur, wanted, ret>> /\ pc[Main] = "dispatch"
        /\ \/ pc'[Main] = "incLoad" /\ serving'[Main] = serving[Main]
           \/ pc'[Main] = "serve" /\ serving'[Main] = wanted[Main]
    BY <1>0, <1>4 DEF Dispatch, TypeOK
  <2>2. Others(Main)
    BY <1>0, <1>4 DEF Dispatch, Others, TypeOK
  <2>3. serving[Main] = NoService
    BY <2>1, MainServesNone DEF MainPC
  <2>4. Quiet(Main) /\ ActorServed(Main)'
    BY <2>1, <2>3 DEF Quiet, Answering, BeforeCall, ActorServed, ServicePC
  <2> QED BY <1>0, <2>1, <2>2, <2>4, RequestsQuiet
<1>5. CASE StartRunningLoad \/ StartRunningCas
  <2>1. /\ Kept /\ UNCHANGED <<cur, wanted, serving>>
        /\ pc[Main] \in {"incLoad", "incCas"}
    BY <1>5 DEF StartRunningLoad, StartRunningCas, StartRunningSwap
  <2>2. pc'[Main] \in {"incCas", "startTask"} /\ Others(Main)
    BY <1>0, <1>5 DEF StartRunningLoad, StartRunningCas, StartRunningSwap, Others, TypeOK
  <2>3. Quiet(Main)
    BY <2>1, <2>2 DEF Quiet, Answering, BeforeCall
  <2>4. pc[Main] \in MainPC
    BY <2>1 DEF MainPC
  <2> QED BY <2>1, <2>2, <2>3, <2>4, RequestsMain
<1>6. ASSUME NEW c \in Conversation, StartError(c) PROVE RequestInv'
  <2>1. Kept /\ UNCHANGED serving /\ pc[Main] = "drain" /\ shouldError[c]
    BY <1>6 DEF StartError, Dequeue
  <2>2. pc'[Main] = "errorReply" /\ cur'[Main] = c /\ Others(Main)
    BY <1>0, <1>6 DEF StartError, Others, TypeOK
  <2>3. Quiet(Main)
    BY <2>1, <2>2 DEF Quiet, Answering, BeforeCall
  <2>4. pc[Main] \in MainPC
    BY <2>1 DEF MainPC
  <2> QED BY <2>1, <2>2, <2>3, <2>4, RequestsMain
<1>7. ASSUME NEW c \in Conversation, ConsiderClose(c) \/ CloseAbandoned(c) \/ StartNothing(c)
      PROVE  RequestInv'
  <2>1. UNCHANGED <<life, shouldError, requests, owed, pending, pc, ret, cur, wanted, serving>>
    BY <1>7 DEF ConsiderClose, CloseAbandoned, StartNothing
  <2> QED BY <2>1, RequestsUntouched
<1> QED
  BY <1>1, <1>2, <1>3, <1>4, <1>5, <1>6, <1>7, RequestsTaken, RequestsHandedOver,
     RequestsClosed
  DEF QueueStep

LEMMA RequestsStep ==
  ASSUME ~PipelinedClient, IInv, IInv', RequestInv, [Next]_vars
  PROVE  RequestInv'
<1> USE DEF vars, convVars, sharedVars, actorVars
<1>1. CASE UNCHANGED vars
  BY <1>1, RequestsUntouched
<1>2. ASSUME NEW c \in Conversation, PeerHangup(c) PROVE RequestInv'
  <2>1. UNCHANGED <<life, shouldError, requests, owed, pending, pc, ret, cur, wanted, serving>>
    BY <1>2 DEF PeerHangup
  <2> QED BY <2>1, RequestsUntouched
<1>3. CASE MainStep
  BY <1>3, RequestsSocket, RequestsQueue, RequestsService, Actors DEF MainStep
<1> QED BY <1>1, <1>2, <1>3, RequestsTask DEF Next

LEMMA InitRequests == Init => RequestInv
<1> SUFFICES ASSUME Init PROVE RequestInv
  OBVIOUS
<1>1. \A a \in Actor : serving[a] = NoService /\ pc[a] \in {"select", "idle"}
  BY DEF Init
<1>2. Served /\ PendingIsWanted /\ ErrorStays
  BY <1>1, Actors
  DEF Served, ActorServed, PendingIsWanted, ErrorStays, BeforeCall
<1>3. \A c \in Conversation : life[c] = "unused" /\ owed[c] = 0 /\ requests[c] = <<>>
  BY DEF Init
<1>4. OneRequest /\ UnusedOwesNothing
  BY <1>3 DEF OneRequest, UnusedOwesNothing
<1> QED BY <1>2, <1>4 DEF RequestInv

\* IInv and RequestInv together are inductive for a client that does not
\* pipeline its requests.
THEOREM RequestInvariant == ASSUME ~PipelinedClient PROVE Spec => []RequestInv
<1>1. IInv /\ RequestInv /\ [Next]_vars => IInv' /\ RequestInv'
  <2>1. IInv /\ [Next]_vars => IInv'
    BY TypeStep, PlacesStep, SafeStep DEF IInv, SafeParts
  <2> QED BY <2>1, RequestsStep
<1> QED BY <1>1, InitIInv, InitRequests, PTL DEF Spec

-----------------------------------------------------------------------------
(* MissedOnlyIfOvertaken, for any client.  An actor that holds a routed     *)
(* request has the right service before it, in pendingService or as the one *)
(* it was called with; only taking a further request of the conversation    *)
(* spoils that, and taking it makes requestCount two or more for good.      *)

Called == {"serve", "running", "finishing", "finished"}
Routed == BeforeCall \cup Called

Aimed(a) ==
  /\ pc[a] \in BeforeCall => pending[cur[a]] = wanted[a]
  /\ pc[a] \in Called => serving[a] = wanted[a]
Overtaken(a) == a \in Task /\ requestCount[cur[a]] > 1

Routing(a) == pc[a] \in Routed => requestCount[cur[a]] > 0 /\ (Aimed(a) \/ Overtaken(a))
RoutingInv == \A a \in Actor : Routing(a)

LEMMA RoutedPlace ==
  ASSUME IInv, NEW a \in Actor, pc[a] \in Routed
  PROVE  cur[a] \in Conversation /\ life[cur[a]] = "open"
<1>1. cur[a] # NoConversation
  BY Actors DEF IInv, TaskPlaces, MainPlaces, Routed, Called, BeforeCall, Actor
<1> QED BY <1>1, CurType

\* One actor moves and no request is taken.
LEMMA RoutingMoved ==
  ASSUME RoutingInv, NEW a \in Actor, Others(a), Routing(a)', UNCHANGED <<pending, requestCount>>
  PROVE  RoutingInv'
<1> SUFFICES ASSUME NEW x \in Actor, x # a PROVE Routing(x)'
  BY DEF RoutingInv
<1>1. Routing(x)
  BY DEF RoutingInv
<1> QED BY <1>1 DEF Others, Routing, Aimed, Overtaken

LEMMA RoutingUntouched ==
  ASSUME RoutingInv, UNCHANGED <<pending, requestCount, pc, cur, wanted, serving>>
  PROVE  RoutingInv'
BY DEF RoutingInv, Routing, Aimed, Overtaken

LEMMA RoutingService ==
  ASSUME IInv, RoutingInv, NEW a \in Actor, ServiceStep(a)
  PROVE  RoutingInv'
<1> USE DEF At, Goto, convVars, sharedVars
<1>0. TypeOK /\ Routing(a)
  BY DEF IInv, RoutingInv
<1>1. UNCHANGED <<pending, requestCount>>
  BY DEF ServiceStep, ServeCheck, FinishResponse, FreeResponse, ServiceDone, ServiceAbends,
     FailSave, FailClear, FailClose, FailFree, SerializeLoad, SerializeCas, SerializeSwap,
     SerializeEnqueue
<1>2. CASE ServeCheck(a) \/ FinishResponse(a) \/ FreeResponse(a)
  <2>1. Others(a)
    BY <1>0, <1>2 DEF ServeCheck, FinishResponse, FreeResponse, Others, TypeOK
  <2>2. /\ pc[a] \in Called /\ pc'[a] \in Called \cup {"failSave"}
        /\ UNCHANGED <<cur, wanted, serving>>
    BY <1>0, <1>2 DEF ServeCheck, FinishResponse, FreeResponse, TypeOK, Called
  <2>3. Routing(a)'
    BY <1>0, <1>1, <2>2 DEF Routing, Aimed, Overtaken, Routed, Called, BeforeCall
  <2> QED BY <1>1, <2>1, <2>3, RoutingMoved
<1>3. CASE ServiceDone(a) \/ ServiceAbends(a) \/ FailSave(a) \/ FailClear(a) \/ FailClose(a)
           \/ FailFree(a) \/ SerializeLoad(a)
  <2>1. CASE ServiceDone(a)
    <3>1. Others(a) /\ pc'[a] \in {"drain", "load"}
      BY <1>0, <2>1 DEF ServiceDone, ServiceReturns, Others, TypeOK
    <3>2. Routing(a)'
      BY <3>1 DEF Routing, Routed, Called, BeforeCall
    <3> QED BY <1>1, <3>1, <3>2, RoutingMoved
  <2>2. CASE ServiceAbends(a) \/ FailSave(a) \/ FailClear(a) \/ FailClose(a) \/ FailFree(a)
             \/ SerializeLoad(a)
    <3>1. Others(a)
      BY <1>0, <2>2 DEF ServiceAbends, FailSave, FailClear, FailClose, FailFree, SerializeLoad,
         Others, TypeOK
    <3>2. pc'[a] \in {"failSave", "failClear", "failClose", "load", "failed", "cas"}
      BY <1>0, <2>2 DEF ServiceAbends, FailSave, FailClear, FailClose, FailFree, SerializeLoad,
         TypeOK
    <3>3. Routing(a)'
      BY <3>2 DEF Routing, Routed, Called, BeforeCall
    <3> QED BY <1>1, <3>1, <3>3, RoutingMoved
  <2> QED BY <1>3, <2>1, <2>2
<1>4. CASE SerializeCas(a) \/ SerializeEnqueue(a)
  <2>1. /\ pc[a] \in SerializePC /\ UNCHANGED <<wanted, serving, ret>>
        /\ \/ SerializeReturns(a)
           \/ pc' = [pc EXCEPT ![a] = "enqueue"] /\ cur' = cur
           \/ UNCHANGED <<pc, cur>>
    BY <1>4 DEF SerializeCas, SerializeSwap, SerializeEnqueue, SerializePC
  <2>2. Others(a)
    BY <1>0, <2>1 DEF SerializeReturns, Others, TypeOK
  <2>3. pc'[a] \in SerializePC \cup {"idle", "sockets", "failFree"}
    BY <1>0, <2>1 DEF SerializeReturns, SerializePC, TypeOK
  <2>4. Routing(a)'
    BY <2>3 DEF Routing, Routed, Called, BeforeCall, SerializePC
  <2> QED BY <1>1, <2>2, <2>4, RoutingMoved
<1> QED BY <1>2, <1>3, <1>4 DEF ServiceStep

LEMMA RoutingTask ==
  ASSUME IInv, RoutingInv, NEW t \in Task, TaskStep(t)
  PROVE  RoutingInv'
<1> USE DEF At, Goto, convVars, sharedVars
<1>0. TypeOK /\ t \in Actor /\ Routing(t)
  BY Actors DEF IInv, RoutingInv
<1>1. CASE TaskStart(t)
  <2>1. /\ UNCHANGED <<pending, requestCount, cur, wanted, serving>>
        /\ pc[t] = "start" /\ pc'[t] \in {"load", "call"}
    BY <1>0, <1>1 DEF TaskStart, TypeOK
  <2>2. Others(t)
    BY <1>0, <1>1 DEF TaskStart, Others, TypeOK
  <2>3. Routing(t)'
    BY <1>0, <2>1 DEF Routing, Aimed, Overtaken, Routed, Called, BeforeCall
  <2> QED BY <1>0, <2>1, <2>2, <2>3, RoutingMoved
<1>2. CASE TaskCall(t)
  <2>1. /\ UNCHANGED <<pending, requestCount, cur, wanted>>
        /\ pc[t] = "call" /\ pc'[t] = "serve" /\ serving'[t] = pending[cur[t]]
    BY <1>0, <1>2 DEF TaskCall, TypeOK
  <2>2. Others(t)
    BY <1>0, <1>2 DEF TaskCall, Others, TypeOK
  <2>3. Routing(t)'
    BY <1>0, <2>1 DEF Routing, Aimed, Overtaken, Routed, Called, BeforeCall
  <2> QED BY <1>0, <2>1, <2>2, <2>3, RoutingMoved
<1>3. CASE ServiceStep(t)
  BY <1>0, <1>3, RoutingService
<1> QED BY <1>1, <1>2, <1>3 DEF TaskStep

LEMMA RoutingTaken ==
  ASSUME IInv, RoutingInv, NEW c \in Conversation, StartRequest(c)
  PROVE  RoutingInv'
<1> USE DEF At, Goto
<1>0. TypeOK /\ Main \in Actor /\ Task = Actor \ {Main}
  BY Actors, ActorsAssumption DEF IInv, Actor
<1>1. /\ requestCount' = [requestCount EXCEPT ![c] = @ + 1]
      /\ requestCount[c] \in Nat /\ requestCount'[c] = requestCount[c] + 1
  BY <1>0 DEF StartRequest, TypeOK
<1>2. \A d \in Conversation : d # c => pending'[d] = pending[d] /\ requestCount'[d] = requestCount[d]
  BY <1>0 DEF StartRequest, TypeOK
<1>3. Others(Main)
  BY <1>0 DEF StartRequest, Dequeue, Others, TypeOK
<1>4. Routing(Main)'
  <2>1. /\ cur'[Main] = c /\ pc'[Main] \in {"dispatch", "notFoundReply", "notFoundClose"}
        /\ pc'[Main] = "dispatch" => pending'[c] = Head(requests[c]) /\ wanted'[Main] = Head(requests[c])
    BY <1>0 DEF StartRequest, Dequeue, PendingService, TypeOK
  <2> QED BY <1>1, <2>1 DEF Routing, Aimed, Routed, Called, BeforeCall
<1>5. ASSUME NEW x \in Task, pc'[x] \in Routed PROVE Routing(x)'
  <2>1. pc[x] \in Routed /\ x # Main /\ x \in Actor
    BY <1>0, <1>3, <1>5 DEF Others
  <2>2. Routing(x) /\ cur[x] \in Conversation
    BY <2>1, RoutedPlace DEF RoutingInv
  <2>3. pc'[x] = pc[x] /\ cur'[x] = cur[x] /\ wanted'[x] = wanted[x] /\ serving'[x] = serving[x]
    BY <1>3, <2>1 DEF Others
  <2>4. CASE cur[x] = c
    BY <1>1, <2>1, <2>2, <2>3, <2>4 DEF Routing, Overtaken
  <2>5. CASE cur[x] # c
    BY <1>2, <2>1, <2>2, <2>3, <2>5 DEF Routing, Aimed, Overtaken
  <2> QED BY <2>4, <2>5
<1> QED BY <1>0, <1>4, <1>5 DEF RoutingInv, Routing

LEMMA RoutingHandedOver ==
  ASSUME IInv, RoutingInv, NEW t \in Task, StartTask(t)
  PROVE  RoutingInv'
<1>0. TypeOK /\ Main \in Actor /\ t \in Actor /\ t # Main /\ Main \notin Task
  BY Actors DEF IInv
<1>1. /\ UNCHANGED <<pending, requestCount, serving>> /\ pc[Main] = "startTask"
      /\ pc'[Main] = "drain" /\ pc'[t] = "start"
      /\ cur'[t] = cur[Main] /\ wanted'[t] = wanted[Main]
      /\ \A x \in Actor \ {t, Main} :
           pc'[x] = pc[x] /\ cur'[x] = cur[x] /\ wanted'[x] = wanted[x]
  BY <1>0 DEF StartTask, At, convVars, TypeOK
<1>2. Routing(Main)
  BY <1>0 DEF RoutingInv
<1>3. Routing(t)' /\ Routing(Main)'
  BY <1>0, <1>1, <1>2 DEF Routing, Aimed, Overtaken, Routed, Called, BeforeCall
<1>4. ASSUME NEW x \in Actor \ {t, Main} PROVE Routing(x)'
  <2>1. Routing(x)
    BY DEF RoutingInv
  <2> QED BY <1>1, <2>1 DEF Routing, Aimed, Overtaken
<1> QED BY <1>3, <1>4 DEF RoutingInv

LEMMA RoutingClosed ==
  ASSUME IInv, IInv', RoutingInv, NEW c \in Conversation, CloseConversation(c)
  PROVE  RoutingInv'
<1>0. TypeOK
  BY DEF IInv
<1>1. /\ life'[c] = "freed"
      /\ \A d \in Conversation : d # c => pending'[d] = pending[d] /\ requestCount'[d] = requestCount[d]
      /\ UNCHANGED <<pc, cur, wanted, serving>>
  BY <1>0 DEF CloseConversation, Release, actorVars, TypeOK
<1> SUFFICES ASSUME NEW x \in Actor, pc[x] \in Routed PROVE Routing(x)'
  BY <1>1 DEF RoutingInv, Routing
<1>2. cur[x] \in Conversation
  BY RoutedPlace
<1>3. cur[x] # c
  <2>1. cur'[x] # NoConversation
    BY <1>1, <1>2, ConversationsAssumption
  <2>2. life'[cur'[x]] = "open"
    BY <2>1 DEF IInv, NoUseAfterFree
  <2> QED BY <1>1, <2>2
<1>4. Routing(x)
  BY DEF RoutingInv
<1> QED BY <1>1, <1>2, <1>3, <1>4 DEF Routing, Aimed, Overtaken

LEMMA RoutingMain ==
  ASSUME IInv, IInv', RoutingInv, SocketStep \/ QueueStep
  PROVE  RoutingInv'
<1> USE DEF At, Goto, convVars, sharedVars, actorVars
<1>0. TypeOK /\ Main \in Actor /\ Routing(Main)
  BY Actors DEF IInv, RoutingInv
<1>1. ASSUME UNCHANGED <<pending, requestCount>>, Others(Main), pc'[Main] \notin Routed
      PROVE  RoutingInv'
  <2>1. Routing(Main)'
    BY <1>1 DEF Routing
  <2> QED BY <1>0, <1>1, <2>1, RoutingMoved
<1>2. CASE SocketStep
  <2>1. CASE \E c \in Conversation : AcceptConversation(c)
    BY <2>1, RoutingUntouched DEF AcceptConversation
  <2>2. CASE Select \/ SocketsDone \/ ReadFails
    <3>1. UNCHANGED <<pending, requestCount>> /\ Others(Main)
      BY <1>0, <2>2 DEF Select, SocketsDone, ReadFails, ReadEnds, Others, TypeOK
    <3>2. pc'[Main] \in {"sockets", "drain"}
      BY <1>0, <2>2 DEF Select, SocketsDone, ReadFails, ReadEnds, TypeOK
    <3> QED BY <1>1, <3>1, <3>2 DEF Routed, Called, BeforeCall
  <2>3. ASSUME NEW c \in Conversation, PeerReadClosing(c) \/ PeerReadOpen(c) PROVE RoutingInv'
    <3>1. UNCHANGED <<pending, requestCount>> /\ Others(Main)
      BY <1>0, <2>3 DEF PeerReadClosing, PeerReadOpen, Others, TypeOK
    <3>2. pc'[Main] \in {"load", "read"}
      BY <1>0, <2>3 DEF PeerReadClosing, PeerReadOpen, TypeOK
    <3> QED BY <1>1, <3>1, <3>2 DEF Routed, Called, BeforeCall
  <2>4. ASSUME NEW rs, NEW ok, ReadFragment(rs, ok) PROVE RoutingInv'
    <3>1. UNCHANGED <<pending, requestCount>> /\ Others(Main) /\ pc'[Main] = "sockets"
      BY <1>0, <2>4 DEF ReadFragment, Others, TypeOK
    <3> QED BY <1>1, <3>1 DEF Routed, Called, BeforeCall
  <2> QED BY <1>2, <2>1, <2>2, <2>3, <2>4 DEF SocketStep
<1>3. CASE DrainDone \/ ErrorReply \/ NotFoundReply
  <2>1. UNCHANGED <<pending, requestCount>> /\ Others(Main)
    BY <1>0, <1>3 DEF DrainDone, ErrorReply, NotFoundReply, Others, TypeOK
  <2>2. pc'[Main] \in {"select", "drain"}
    BY <1>0, <1>3 DEF DrainDone, ErrorReply, NotFoundReply, TypeOK
  <2> QED BY <1>1, <2>1, <2>2 DEF Routed, Called, BeforeCall
<1>4. CASE Dispatch
  <2>1. /\ UNCHANGED <<pending, requestCount, cur, wanted>> /\ pc[Main] = "dispatch"
        /\ \/ pc'[Main] = "incLoad"
           \/ pc'[Main] = "serve" /\ serving'[Main] = wanted[Main]
    BY <1>0, <1>4 DEF Dispatch, TypeOK
  <2>2. Others(Main)
    BY <1>0, <1>4 DEF Dispatch, Others, TypeOK
  <2>3. Routing(Main)'
    BY <1>0, <2>1 DEF Routing, Aimed, Overtaken, Routed, Called, BeforeCall
  <2> QED BY <1>0, <2>1, <2>2, <2>3, RoutingMoved
<1>5. CASE StartRunningLoad \/ StartRunningCas
  <2>1. /\ UNCHANGED <<pending, requestCount, cur, wanted, serving>>
        /\ pc[Main] \in {"incLoad", "incCas"}
    BY <1>5 DEF StartRunningLoad, StartRunningCas, StartRunningSwap
  <2>2. pc'[Main] \in {"incCas", "startTask"} /\ Others(Main)
    BY <1>0, <1>5 DEF StartRunningLoad, StartRunningCas, StartRunningSwap, Others, TypeOK
  <2>3. Routing(Main)'
    BY <1>0, <2>1, <2>2 DEF Routing, Aimed, Overtaken, Routed, Called, BeforeCall
  <2> QED BY <1>0, <2>1, <2>2, <2>3, RoutingMoved
<1>6. ASSUME NEW c \in Conversation, StartError(c) PROVE RoutingInv'
  <2>1. UNCHANGED <<pending, requestCount>> /\ Others(Main) /\ pc'[Main] = "errorReply"
    BY <1>0, <1>6 DEF StartError, Dequeue, Others, TypeOK
  <2> QED BY <1>1, <2>1 DEF Routed, Called, BeforeCall
<1>7. ASSUME NEW c \in Conversation, ConsiderClose(c) \/ CloseAbandoned(c) \/ StartNothing(c)
      PROVE  RoutingInv'
  <2>1. UNCHANGED <<pending, requestCount, pc, cur, wanted, serving>>
    BY <1>7 DEF ConsiderClose, CloseAbandoned, StartNothing
  <2> QED BY <2>1, RoutingUntouched
<1> QED
  BY <1>2, <1>3, <1>4, <1>5, <1>6, <1>7, RoutingTaken, RoutingHandedOver, RoutingClosed
  DEF QueueStep

\* c/httpserver.c:5411, 5587: whatever the client sends and however the
\* subtasks run, the main task calls the service a request was routed to, and a
\* subtask calls another one only if the main task took a further request of
\* the connection (h/httpserver.h:406, pendingService).
THEOREM WrongServiceOnlyIfOvertaken == Spec => []MissedOnlyIfOvertaken
<1>1. Init => RoutingInv
  <2> SUFFICES ASSUME Init PROVE RoutingInv
    OBVIOUS
  <2>1. \A a \in Actor : pc[a] \in {"select", "idle"}
    BY DEF Init
  <2> QED BY <2>1 DEF RoutingInv, Routing, Routed, Called, BeforeCall
<1>2. IInv /\ RoutingInv /\ [Next]_vars => IInv' /\ RoutingInv'
  <2>1. IInv /\ [Next]_vars => IInv'
    BY TypeStep, PlacesStep, SafeStep DEF IInv, SafeParts
  <2>2. ASSUME IInv, IInv', RoutingInv, [Next]_vars PROVE RoutingInv'
    <3>1. CASE UNCHANGED vars
      BY <2>2, <3>1, RoutingUntouched DEF vars, convVars, actorVars
    <3>2. ASSUME NEW c \in Conversation, PeerHangup(c) PROVE RoutingInv'
      BY <2>2, <3>2, RoutingUntouched DEF PeerHangup, convVars, actorVars
    <3>3. CASE MainStep
      BY <2>2, <3>3, RoutingMain, RoutingService, Actors DEF MainStep
    <3> QED BY <2>2, <3>1, <3>2, <3>3, RoutingTask DEF Next
  <2> QED BY <2>1, <2>2
<1>3. RoutingInv => MissedOnlyIfOvertaken
  BY DEF RoutingInv, Routing, Aimed, Overtaken, Routed, Called, MissedOnlyIfOvertaken
<1> QED BY <1>1, <1>2, <1>3, InitIInv, PTL DEF Spec
=============================================================================
