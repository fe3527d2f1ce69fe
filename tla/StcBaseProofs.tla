---------------------------- MODULE StcBaseProofs ----------------------------
(***************************************************************************)
(* What holds of StcBase for any number of tasks, work elements, modules   *)
(* and sockets, on each of the systems.                                    *)
(*                                                                         *)
(* NoLostWakeup: the invariant follows the main task round its loop.  From *)
(* the end of a wait to the end of the draining the queue may hold work    *)
(* without a post, because readTheQueue is TRUE and every element is       *)
(* handled; at the end of the draining the queue is empty, and from there  *)
(* to the end of the wait whoever inserts will post, after the reset.      *)
(***************************************************************************)
EXTENDS StcBase, SequenceTheorems, TLAPS

\* The part of the state the wake-ups depend on.
WakeType ==
  /\ queue \in Seq(Work) /\ event \in Nat
  /\ posting \in [Worker -> BOOLEAN]
  /\ modules \in [Module -> {"none", "silent", "full"}]

\* Once the loop is called every module has a handler; before, there is no work.
Started ==
  /\ phase = "register" => queue = <<>>
  /\ phase = "start" => queue = <<>>
  /\ phase # "register" => \A m \in Module : modules[m] = "full"

\* In these phases the queue will be read to its end before the next wait.
WillRead ==
  phase \in {"stopTest", "reset", "sockets", "drain"} => readTheQueue

\* In these it will not.
Waking ==
  (phase \in {"test", "select"} /\ queue # <<>>) =>
    event > 0 \/ \E p \in Worker : posting[p]

WakeInv == WakeType /\ Started /\ WillRead /\ Waking

LEMMA PostedPositive ==
  ASSUME event \in Nat
  PROVE  Posted \in Nat /\ Posted > 0 /\ Reset \in Nat
BY DEF Posted, Reset

LEMMA WakeInit == Init => WakeInv
<1> SUFFICES ASSUME Init PROVE WakeInv
  OBVIOUS
<1> QED BY DEF Init, WakeInv, WakeType, Started, WillRead, Waking

\* The steps that leave queue, event, posting, modules and the main task's
\* place alone: those of sockets, of the console and of the environment.
LEMMA WakeUntouched ==
  ASSUME WakeInv, UNCHANGED <<modules, workVars, phase, readTheQueue>>
  PROVE  WakeInv'
BY DEF WakeInv, WakeType, Started, WillRead, Waking, workVars

\* The steps that post, whatever else they leave alone.
LEMMA WakePosted ==
  ASSUME WakeInv, event' = Posted,
         UNCHANGED <<modules, queue, posting, phase, readTheQueue>>
  PROVE  WakeInv'
<1>1. event' \in Nat /\ event' > 0
  BY PostedPositive DEF WakeInv, WakeType
<1> QED BY <1>1 DEF WakeInv, WakeType, Started, WillRead, Waking

\* The steps of the workers.
LEMMA WakeWorker ==
  ASSUME WakeInv, BaseAssumption, ~EarlyWork, NEW p \in Worker,
         Post(p) \/ \E w \in Work : Insert(p, w)
  PROVE  WakeInv'
<1>1. CASE Post(p)
  <2>1. event' \in Nat /\ event' > 0
    BY <1>1, PostedPositive DEF Post, WakeInv, WakeType
  <2> QED BY <1>1, <2>1 DEF Post, mainVars, WakeInv, WakeType, Started, WillRead, Waking
<1>2. ASSUME NEW w \in Work, Insert(p, w) PROVE WakeInv'
  <2>1. queue' \in Seq(Work) /\ posting' \in [Worker -> BOOLEAN] /\ posting'[p]
    BY <1>2 DEF Insert, InsertWork, WakeInv, WakeType
  <2>2. phase' = phase /\ phase \notin {"register", "start"}
    BY <1>2 DEF Insert, mainVars
  <2>3. UNCHANGED <<modules, event, readTheQueue>>
    BY <1>2 DEF Insert, mainVars
  <2> QED BY <2>1, <2>2, <2>3 DEF WakeInv, WakeType, Started, WillRead, Waking
<1> QED BY <1>1, <1>2

\* The steps of the main task, but those that handle sockets.
LEMMA WakeStart ==
  ASSUME WakeInv, BaseAssumption, AllHandled,
         \/ \E m \in Module, kind \in {"silent", "full"} : Register(m, kind)
         \/ CallMainLoop \/ ResetAtStart
  PROVE  WakeInv'
<1>1. ASSUME NEW m \in Module, NEW kind \in {"silent", "full"}, Register(m, kind) PROVE WakeInv'
  BY <1>1 DEF Register, workVars, mainVars, WakeInv, WakeType, Started, WillRead, Waking
<1>2. CASE CallMainLoop
  BY <1>2 DEF CallMainLoop, Main, workVars, WakeInv, WakeType, Started, WillRead, Waking
<1>3. CASE ResetAtStart
  <2>1. event' \in Nat
    BY <1>3, PostedPositive DEF ResetAtStart, ResetEvent, WakeInv, WakeType
  <2> QED BY <1>3, <2>1
       DEF ResetAtStart, ResetEvent, Main, WakeInv, WakeType, Started, WillRead, Waking
<1> QED BY <1>1, <1>2, <1>3

LEMMA WakeLoop ==
  ASSUME WakeInv, BaseAssumption,
         \/ TestStop \/ SelectWork \/ SelectSockets \/ SelectTimeout \/ SelectFail
         \/ TestStopAgain \/ ResetInLoop \/ SocketsDone \/ Shutdown
         \/ \E s \in Socket : HandleNull(s)
  PROVE  WakeInv'
<1> USE DEF Main, WakeInv, WakeType, Started, WillRead, Waking
<1>1. CASE TestStop
  BY <1>1 DEF TestStop, workVars
<1>2. CASE SelectWork
  <2>1. event' \in Nat
    BY <1>2 DEF SelectWork, Selected, Consumed
  <2> QED BY <1>2, <2>1 DEF SelectWork, Selected
<1>3. CASE SelectSockets
  BY <1>3 DEF SelectSockets, Selected
<1>4. CASE SelectTimeout
  BY <1>4 DEF SelectTimeout, Selected
<1>5. CASE SelectFail
  BY <1>5 DEF SelectFail, workVars
<1>6. CASE TestStopAgain
  BY <1>6 DEF TestStopAgain, workVars
<1>7. CASE ResetInLoop
  <2>1. event' \in Nat
    BY <1>7, PostedPositive DEF ResetInLoop, ResetEvent
  <2> QED BY <1>7, <2>1 DEF ResetInLoop, ResetEvent
<1>8. CASE SocketsDone
  BY <1>8 DEF SocketsDone, workVars
<1>9. CASE Shutdown
  BY <1>9 DEF Shutdown, workVars
<1>10. CASE \E s \in Socket : HandleNull(s)
  BY <1>10 DEF HandleNull, workVars
<1> QED BY <1>1, <1>2, <1>3, <1>4, <1>5, <1>6, <1>7, <1>8, <1>9, <1>10

LEMMA WakeDrain ==
  ASSUME WakeInv, BaseAssumption,
         HandleWork \/ (\E w \in Work : HandleWorkMore(w)) \/ DropWork \/ DrainDone
  PROVE  WakeInv'
<1> USE DEF WakeInv, WakeType, Started, WillRead, Waking
<1>1. queue # <<>> => Head(queue) \in Work /\ Tail(queue) \in Seq(Work)
  BY HeadTailProperties
<1>2. CASE HandleWork
  BY <1>1, <1>2 DEF HandleWork, Removed, mainVars
<1>3. ASSUME NEW w \in Work, HandleWorkMore(w) PROVE WakeInv'
  <2>1. event' \in Nat
    BY <1>3, PostedPositive DEF HandleWorkMore
  <2>2. queue' \in Seq(Work)
    BY <1>1, <1>3 DEF HandleWorkMore
  <2> QED BY <1>3, <2>1, <2>2 DEF HandleWorkMore, mainVars
<1>4. CASE DropWork
  <2>1. modules[Target(Head(queue))] = "full"
    BY <1>1, <1>4 DEF DropWork, Main, BaseAssumption
  <2> QED BY <2>1, <1>4 DEF DropWork
<1>5. CASE DrainDone
  BY <1>5 DEF DrainDone, Main, workVars
<1> QED BY <1>2, <1>3, <1>4, <1>5

\* The steps of the sockets, of the console and of the environment.
LEMMA WakeOthers ==
  ASSUME WakeInv, BaseAssumption,
         \/ \E s \in Socket : HandleRead(s) \/ HandleError(s) \/ HandleClose(s) \/ Arrive(s)
         \/ \E s, new \in Socket : HandleAccept(s, new)
         \/ ResetSocketEvent
         \/ \E verb \in {"modify", "stop"} : Command(verb)
         \/ ConsoleStep
  PROVE  WakeInv'
<1>1. ASSUME NEW s \in Socket, Handled(s) PROVE WakeInv'
  BY <1>1, WakeUntouched DEF Handled
<1>2. CASE \E s \in Socket : Arrive(s)
  BY <1>2, WakeUntouched DEF Arrive, mainVars
<1>3. CASE ResetSocketEvent
  BY <1>3, WakeUntouched DEF ResetSocketEvent
<1>4. CASE \E verb \in {"modify", "stop"} : Command(verb)
  BY <1>4, WakeUntouched DEF Command, mainVars
<1>5. CASE ConsoleStep
  <2>1. CASE PostStop
    BY <2>1, WakePosted DEF PostStop, Console, mainVars
  <2>2. CASE ConsoleTest \/ ServeModify \/ ServeStop \/ ServeDone \/ ConsoleWake
    <3>1. UNCHANGED <<modules, workVars, phase, readTheQueue>>
      BY <2>2 DEF ConsoleTest, ServeModify, ServeStop, ServeDone, ConsoleWake, Console,
           mainVars, workVars
    <3> QED BY <3>1, WakeUntouched
  <2> QED BY <1>5, <2>1, <2>2 DEF ConsoleStep
<1> QED BY <1>1, <1>2, <1>3, <1>4, <1>5 DEF HandleRead, HandleError, HandleClose, HandleAccept

LEMMA WakeStep ==
  ASSUME WakeInv, BaseAssumption, AllHandled, ~EarlyWork, [Next]_vars
  PROVE  WakeInv'
<1>1. CASE MainStep
  BY <1>1, WakeStart, WakeLoop, WakeDrain, WakeOthers DEF MainStep
<1>2. CASE SelectTimeout \/ SelectFail
  BY <1>2, WakeLoop
<1>3. CASE \E p \in Worker : Post(p) \/ \E w \in Work : Insert(p, w)
  BY <1>3, WakeWorker
<1>4. CASE ConsoleStep \/ (\E s \in Socket : Arrive(s))
             \/ \E verb \in {"modify", "stop"} : Command(verb)
  BY <1>4, WakeOthers
<1>5. CASE UNCHANGED vars
  BY <1>5, WakeUntouched DEF vars, mainVars
<1> QED BY <1>1, <1>2, <1>3, <1>4, <1>5 DEF Next

\* The main task does not wait (stcBaseSelect) with work in the queue unless
\* the event is posted or a task is between the two halves of stcEnqueueWork,
\* on every system, when every module has a work handler and nobody enqueues
\* before stcBaseMainLoop.
THEOREM WorkIsNoticed ==
  ASSUME AllHandled, ~EarlyWork
  PROVE  Spec => []NoLostWakeup
<1>1. WakeInv /\ [Next]_vars => WakeInv'
  BY WakeStep, BaseAssumption
<1>2. WakeInv => NoLostWakeup
  BY DEF WakeInv, Waking, NoLostWakeup
<1> QED BY WakeInit, <1>1, <1>2, PTL DEF Spec

-----------------------------------------------------------------------------
(* Stop commands *)

StopInv == event \in Nat /\ NoLostStop

LEMMA StopMain ==
  ASSUME StopInv, BaseAssumption, MainStep \/ SelectTimeout \/ SelectFail
  PROVE  StopInv'
<1> USE DEF StopInv, NoLostStop
<1>1. ASSUME NEW s \in Socket, Handled(s) PROVE StopInv'
  BY <1>1 DEF Handled, workVars, consoleVars
<1>2. ASSUME NEW m \in Module, NEW kind \in {"silent", "full"}, Register(m, kind) PROVE StopInv'
  BY <1>2 DEF Register, workVars, mainVars, consoleVars
<1>3. CASE CallMainLoop \/ TestStop \/ TestStopAgain \/ SocketsDone \/ ResetSocketEvent
  <2>1. CASE CallMainLoop
    BY <2>1 DEF CallMainLoop, Main, workVars, consoleVars
  <2>2. CASE TestStop
    BY <2>2 DEF TestStop, Main, workVars, consoleVars
  <2>3. CASE TestStopAgain \/ SocketsDone \/ ResetSocketEvent
    BY <2>3 DEF TestStopAgain, SocketsDone, ResetSocketEvent, Main, workVars, consoleVars
  <2> QED BY <1>3, <2>1, <2>2, <2>3
<1>4. CASE ResetAtStart \/ ResetInLoop
  BY <1>4, PostedPositive DEF ResetAtStart, ResetInLoop, ResetEvent, Main
<1>5. CASE SelectWork
  <2>1. event' \in Nat /\ phase' = "stopTest"
    BY <1>5 DEF SelectWork, Selected, Consumed, Main
  <2> QED BY <2>1
<1>6. CASE SelectSockets \/ SelectTimeout
  BY <1>6 DEF SelectSockets, SelectTimeout, Selected, Main
<1>7. CASE SelectFail \/ Shutdown \/ \E s \in Socket : HandleNull(s)
  BY <1>7 DEF SelectFail, Shutdown, HandleNull, Main, workVars
<1>8. CASE HandleWork \/ \E w \in Work : HandleWorkMore(w)
  <2>1. phase' = phase /\ phase = "drain"
    BY <1>8 DEF HandleWork, HandleWorkMore, mainVars
  <2>2. event' \in Nat
    BY <1>8, PostedPositive DEF HandleWork, HandleWorkMore
  <2> QED BY <2>1, <2>2
<1>9. CASE DropWork \/ DrainDone
  BY <1>9 DEF DropWork, DrainDone, Main, workVars
<1> QED BY <1>1, <1>2, <1>3, <1>4, <1>5, <1>6, <1>7, <1>8, <1>9
     DEF MainStep, HandleRead, HandleError, HandleClose, HandleAccept

LEMMA StopOthers ==
  ASSUME StopInv, BaseAssumption,
         \/ \E p \in Worker : Post(p) \/ \E w \in Work : Insert(p, w)
         \/ \E s \in Socket : Arrive(s)
         \/ \E verb \in {"modify", "stop"} : Command(verb)
         \/ ConsoleStep
         \/ UNCHANGED vars
  PROVE  StopInv'
<1> USE DEF StopInv, NoLostStop
<1>1. ASSUME NEW p \in Worker, Post(p) PROVE StopInv'
  BY <1>1, PostedPositive DEF Post, mainVars, consoleVars
<1>2. ASSUME NEW p \in Worker, NEW w \in Work, Insert(p, w) PROVE StopInv'
  BY <1>2 DEF Insert, mainVars, consoleVars
<1>3. CASE \E s \in Socket : Arrive(s)
  BY <1>3 DEF Arrive, workVars, mainVars, consoleVars
<1>4. CASE \E verb \in {"modify", "stop"} : Command(verb)
  BY <1>4 DEF Command, workVars, mainVars
<1>5. CASE ConsoleStep
  <2>1. CASE PostStop
    BY <2>1, PostedPositive DEF PostStop, Console, mainVars
  <2>2. CASE ServeStop
    BY <2>2 DEF ServeStop, Console, mainVars
  <2>3. CASE ConsoleTest \/ ServeModify \/ ServeDone \/ ConsoleWake
    BY <2>3 DEF ConsoleTest, ServeModify, ServeDone, ConsoleWake, Console, mainVars
  <2> QED BY <1>5, <2>1, <2>2, <2>3 DEF ConsoleStep
<1>6. CASE UNCHANGED vars
  BY <1>6 DEF vars, workVars, mainVars, consoleVars
<1> QED BY <1>1, <1>2, <1>3, <1>4, <1>5, <1>6

\* A stop command (consoleTaskMain) cannot leave the main task in its wait:
\* when it waits with stopRequested set, the event is posted or about to be.
THEOREM StopIsNoticed == Spec => []NoLostStop
<1>1. Init => StopInv
  BY DEF Init, StopInv, NoLostStop
<1>2. StopInv /\ [Next]_vars => StopInv'
  BY StopMain, StopOthers, BaseAssumption DEF Next
<1>3. StopInv => NoLostStop
  BY DEF StopInv
<1> QED BY <1>1, <1>2, <1>3, PTL DEF Spec

-----------------------------------------------------------------------------
(* Types                                                                   *)

LEMMA SeqParts ==
  ASSUME NEW S, NEW s \in Seq(S)
  PROVE  /\ Front(s) \in Seq(S)
         /\ s # <<>> => Head(s) \in S /\ Tail(s) \in Seq(S)
         /\ \A i \in 1..Len(s) :
              /\ RemoveAt(s, i) \in Seq(S) /\ Len(RemoveAt(s, i)) = Len(s) - 1
              /\ \A j \in 1..(Len(s) - 1) : RemoveAt(s, i)[j] = s[IF j < i THEN j ELSE j + 1]
<1>1. Front(s) \in Seq(S)
  BY SubSeqProperties DEF Front
<1>2. s # <<>> => Head(s) \in S /\ Tail(s) \in Seq(S)
  BY HeadTailProperties
<1>3. ASSUME NEW i \in 1..Len(s)
      PROVE  /\ RemoveAt(s, i) \in Seq(S) /\ Len(RemoveAt(s, i)) = Len(s) - 1
             /\ \A j \in 1..(Len(s) - 1) : RemoveAt(s, i)[j] = s[IF j < i THEN j ELSE j + 1]
  <2> DEFINE u == SubSeq(s, 1, i - 1)
             v == SubSeq(s, i + 1, Len(s))
  <2>1. i \in Nat /\ Len(s) \in Nat /\ 1 <= i /\ i <= Len(s)
    OBVIOUS
  <2>2. u \in Seq(S) /\ Len(u) = i - 1 /\ \A j \in 1..(i - 1) : u[j] = s[j]
    BY <2>1
  <2>3. v \in Seq(S) /\ Len(v) = Len(s) - i /\ \A j \in 1..(Len(s) - i) : v[j] = s[i + j]
    BY <2>1
  <2> HIDE DEF u, v
  <2>4. u \o v \in Seq(S) /\ Len(u \o v) = Len(s) - 1
    <3>1. u \o v \in Seq(S) /\ Len(u \o v) = Len(u) + Len(v)
      BY <2>2, <2>3, ConcatProperties
    <3> QED BY <2>1, <2>2, <2>3, <3>1
  <2>5. ASSUME NEW j \in 1..(Len(s) - 1) PROVE (u \o v)[j] = s[IF j < i THEN j ELSE j + 1]
    <3>1. CASE j < i
      <4>1. (u \o v)[j] = u[j]
        BY <2>1, <2>2, <2>3, <3>1
      <4> QED BY <2>1, <2>2, <3>1, <4>1
    <3>2. CASE ~(j < i)
      <4>1. (u \o v)[j] = v[j - (i - 1)]
        BY <2>1, <2>2, <2>3, <3>2
      <4>2. j - (i - 1) \in 1..(Len(s) - i) /\ i + (j - (i - 1)) = j + 1
        BY <2>1, <3>2
      <4> QED BY <2>3, <3>2, <4>1, <4>2
    <3> QED BY <3>1, <3>2
  <2> QED BY <2>4, <2>5 DEF RemoveAt, u, v
<1> QED BY <1>1, <1>2, <1>3

\* The place of a socket that is watched.
Place(s) == CHOOSE i \in 1..Len(sockets) : sockets[i] = s

LEMMA PlaceIs ==
  ASSUME sockets \in Seq(Socket), NEW s \in Watched
  PROVE  Place(s) \in 1..Len(sockets) /\ sockets[Place(s)] = s
<1>1. \E i \in 1..Len(sockets) : sockets[i] = s
  BY DEF Watched, ToSet
<1> QED BY <1>1, Zenon DEF Place

LEMMA WithoutType ==
  ASSUME sockets \in Seq(Socket), NEW s \in Watched
  PROVE  Without(s) \in Seq(Socket)
BY SeqParts, PlaceIs DEF Without, Place

LEMMA TypeMain ==
  ASSUME TypeOK, BaseAssumption,
         \/ \E m \in Module, kind \in {"silent", "full"} : Register(m, kind)
         \/ CallMainLoop \/ ResetAtStart \/ TestStop \/ TestStopAgain \/ ResetInLoop
         \/ SocketsDone \/ Shutdown \/ SelectFail \/ ResetSocketEvent
         \/ \E s \in Socket : HandleNull(s)
  PROVE  TypeOK'
<1> USE DEF TypeOK, Main, workVars, mainVars, setVars, socketVars, consoleVars
<1>1. ASSUME NEW m \in Module, NEW kind \in {"silent", "full"}, Register(m, kind) PROVE TypeOK'
  BY <1>1 DEF Register
<1>2. CASE CallMainLoop
  BY <1>2 DEF CallMainLoop
<1>3. CASE ResetAtStart \/ ResetInLoop
  BY <1>3, PostedPositive DEF ResetAtStart, ResetInLoop, ResetEvent
<1>4. CASE TestStop
  BY <1>4 DEF TestStop, Watched
<1>5. CASE TestStopAgain
  BY <1>5 DEF TestStopAgain
<1>6. CASE SocketsDone
  BY <1>6 DEF SocketsDone
<1>7. CASE Shutdown
  BY <1>7 DEF Shutdown
<1>8. CASE SelectFail
  BY <1>8 DEF SelectFail
<1>9. CASE ResetSocketEvent
  BY <1>9, SeqParts DEF ResetSocketEvent
<1>10. ASSUME NEW s \in Socket, HandleNull(s) PROVE TypeOK'
  BY <1>10 DEF HandleNull
<1> QED BY <1>1, <1>2, <1>3, <1>4, <1>5, <1>6, <1>7, <1>8, <1>9, <1>10

LEMMA TypeSelect ==
  ASSUME TypeOK, BaseAssumption, SelectWork \/ SelectSockets \/ SelectTimeout
  PROVE  TypeOK'
<1> USE DEF TypeOK, Selected, Main, setVars, consoleVars
<1>1. TakeReady => ready' \subseteq Socket /\ toReset' \in Seq(Socket) /\ signalled' \subseteq Socket
  BY DEF TakeReady
<1>2. CASE SelectWork
  <2>1. event' \in Nat
    BY <1>2 DEF SelectWork, Consumed
  <2> QED BY <1>1, <1>2, <2>1 DEF SelectWork
<1>3. CASE SelectSockets
  BY <1>1, <1>3 DEF SelectSockets
<1>4. CASE SelectTimeout
  BY <1>4 DEF SelectTimeout
<1> QED BY <1>2, <1>3, <1>4

LEMMA TypeSockets ==
  ASSUME TypeOK, BaseAssumption, NEW s \in Socket,
         \/ HandleRead(s) \/ HandleError(s) \/ HandleClose(s) \/ Arrive(s)
         \/ \E new \in Socket : HandleAccept(s, new)
  PROVE  TypeOK'
<1> USE DEF TypeOK, workVars, mainVars, setVars, consoleVars
<1>1. CASE HandleRead(s)
  BY <1>1 DEF HandleRead, Handled
<1>2. CASE HandleError(s)
  <2>1. sockets' \in Seq(Socket)
    BY <1>2, WithoutType DEF HandleError, Handled
  <2> QED BY <1>2, <2>1 DEF HandleError, Handled
<1>3. CASE HandleClose(s)
  <2>1. sockets' \in Seq(Socket)
    BY <1>3, WithoutType DEF HandleClose, Handled
  <2> QED BY <1>3, <2>1 DEF HandleClose, Handled
<1>4. ASSUME NEW new \in Socket, HandleAccept(s, new) PROVE TypeOK'
  <2>1. sockets' \in Seq(Socket) /\ revised' \in BOOLEAN
    <3>1. CASE Admits(new)
      BY <1>4, <3>1 DEF HandleAccept
    <3>2. CASE ~Admits(new)
      BY <1>4, <3>2 DEF HandleAccept
    <3> QED BY <3>1, <3>2
  <2> QED BY <1>4, <2>1 DEF HandleAccept, Handled
<1>5. CASE Arrive(s)
  BY <1>5 DEF Arrive
<1> QED BY <1>1, <1>2, <1>3, <1>4, <1>5

LEMMA TypeWork ==
  ASSUME TypeOK, BaseAssumption,
         \/ HandleWork \/ (\E w \in Work : HandleWorkMore(w)) \/ DropWork \/ DrainDone
         \/ \E p \in Worker : Post(p) \/ \E w \in Work : Insert(p, w)
  PROVE  TypeOK'
<1> USE DEF TypeOK, Main, workVars, mainVars, setVars, socketVars, consoleVars
<1>1. queue # <<>> => Head(queue) \in Work /\ Tail(queue) \in Seq(Work)
  BY HeadTailProperties
<1>2. CASE HandleWork
  BY <1>1, <1>2 DEF HandleWork, Removed
<1>3. ASSUME NEW w \in Work, HandleWorkMore(w) PROVE TypeOK'
  <2>1. event' \in Nat
    BY <1>3, PostedPositive DEF HandleWorkMore
  <2>2. queue' \in Seq(Work)
    BY <1>1, <1>3 DEF HandleWorkMore
  <2> QED BY <1>1, <1>3, <2>1, <2>2 DEF HandleWorkMore
<1>4. CASE DropWork
  BY <1>1, <1>4 DEF DropWork, Removed
<1>5. CASE DrainDone
  BY <1>5 DEF DrainDone
<1>6. ASSUME NEW p \in Worker, Post(p) PROVE TypeOK'
  BY <1>6, PostedPositive DEF Post
<1>7. ASSUME NEW p \in Worker, NEW w \in Work, Insert(p, w) PROVE TypeOK'
  BY <1>7 DEF Insert, InsertWork
<1> QED BY <1>2, <1>3, <1>4, <1>5, <1>6, <1>7

LEMMA TypeConsole ==
  ASSUME TypeOK, ConsoleStep \/ \E verb \in {"modify", "stop"} : Command(verb)
  PROVE  TypeOK'
<1> USE DEF TypeOK, Console, workVars, mainVars, setVars, socketVars
<1>1. commands # <<>> => Tail(commands) \in Seq({"modify", "stop"})
  BY HeadTailProperties
<1>2. CASE ConsoleTest
  BY <1>2 DEF ConsoleTest
<1>3. CASE ServeModify
  BY <1>1, <1>3 DEF ServeModify
<1>4. CASE ServeStop
  BY <1>4 DEF ServeStop
<1>5. CASE PostStop
  BY <1>5, PostedPositive DEF PostStop
<1>6. CASE ServeDone \/ ConsoleWake
  BY <1>6 DEF ServeDone, ConsoleWake
<1>7. ASSUME NEW verb \in {"modify", "stop"}, Command(verb) PROVE TypeOK'
  BY <1>7 DEF Command
<1> QED BY <1>2, <1>3, <1>4, <1>5, <1>6, <1>7 DEF ConsoleStep

LEMMA TypeInit == Init /\ BaseAssumption => TypeOK
<1> SUFFICES ASSUME Init, BaseAssumption PROVE TypeOK
  OBVIOUS
<1>1. sockets \in Seq(Socket) /\ toReset \in Seq(Socket) /\ queue \in Seq(Work)
      /\ commands \in Seq({"modify", "stop"})
  BY DEF Init, BaseAssumption
<1>2. console \in {"test", "serve", "postStop", "wait", "done"}
  BY DEF Init
<1>3. /\ modules \in [Module -> {"none", "silent", "full"}]
      /\ place \in [Work -> {"new", "queued", "done", "dropped"}]
      /\ posting \in [Worker -> BOOLEAN]
  BY DEF Init
<1> QED BY <1>1, <1>2, <1>3 DEF Init, BaseAssumption, TypeOK

LEMMA TypeStep == TypeOK /\ BaseAssumption /\ [Next]_vars => TypeOK'
<1> SUFFICES ASSUME TypeOK, BaseAssumption, [Next]_vars PROVE TypeOK'
  OBVIOUS
<1>1. CASE MainStep
  BY <1>1, TypeMain, TypeSelect, TypeSockets, TypeWork DEF MainStep
<1>2. CASE SelectTimeout \/ SelectFail
  BY <1>2, TypeMain, TypeSelect
<1>3. CASE \E p \in Worker : Post(p) \/ \E w \in Work : Insert(p, w)
  BY <1>3, TypeWork
<1>4. CASE ConsoleStep \/ \E verb \in {"modify", "stop"} : Command(verb)
  BY <1>4, TypeConsole
<1>5. CASE \E s \in Socket : Arrive(s)
  BY <1>5, TypeSockets
<1>6. CASE UNCHANGED vars
  BY <1>6 DEF TypeOK, vars, workVars, mainVars, setVars, socketVars, consoleVars
<1> QED BY <1>1, <1>2, <1>3, <1>4, <1>5, <1>6 DEF Next

\* The variables of the base keep their types; above all the event never counts
\* below zero: a post is consumed (read on AIX) only when it is there.
THEOREM BaseTypeCorrect == Spec => []TypeOK
<1>1. TypeOK /\ [Next]_vars => TypeOK'
  BY TypeStep, BaseAssumption
<1>2. Init => TypeOK
  BY TypeInit, BaseAssumption
<1> QED BY <1>1, <1>2, PTL DEF Spec

-----------------------------------------------------------------------------
(* The socket set                                                          *)

Distinct(s) == \A i, j \in 1..Len(s) : s[i] = s[j] => i = j

\* A socket is in the set once, so that taking it out leaves none behind.
SocketInv ==
  /\ TypeOK
  /\ system # "windows" => Distinct(sockets) /\ Watched = registered \cap InRange

LEMMA WithoutSet ==
  ASSUME sockets \in Seq(Socket), system # "windows", Distinct(sockets), NEW s \in Watched
  PROVE  Distinct(Without(s)) /\ ToSet(Without(s)) = Watched \ {s}
<1> DEFINE n == Len(sockets)
           i == Place(s)
           t == Without(s)
<1>1. i \in 1..n /\ sockets[i] = s /\ n \in Nat
  BY PlaceIs
<1>2. t = RemoveAt(sockets, i)
  BY DEF Without, Place
<1> HIDE DEF i, t
<1>3. /\ Len(t) = n - 1 /\ t \in Seq(Socket)
      /\ \A j \in 1..(n - 1) : t[j] = sockets[IF j < i THEN j ELSE j + 1]
  BY <1>1, <1>2, SeqParts
<1>4. Distinct(t)
  <2> SUFFICES ASSUME NEW j \in 1..(n - 1), NEW k \in 1..(n - 1), t[j] = t[k] PROVE j = k
    BY <1>3 DEF Distinct
  <2>1. (IF j < i THEN j ELSE j + 1) \in 1..n /\ (IF k < i THEN k ELSE k + 1) \in 1..n
    BY <1>1
  <2>2. (IF j < i THEN j ELSE j + 1) = (IF k < i THEN k ELSE k + 1)
    BY <1>3, <2>1 DEF Distinct
  <2> QED BY <1>1, <2>2
<1>5. ASSUME NEW x \in ToSet(t) PROVE x \in Watched \ {s}
  <2>1. PICK j \in 1..(n - 1) : t[j] = x
    BY <1>1, <1>3 DEF ToSet
  <2>2. (IF j < i THEN j ELSE j + 1) \in 1..n /\ (IF j < i THEN j ELSE j + 1) # i
    BY <1>1
  <2>3. x # s
    BY <1>1, <1>3, <2>1, <2>2 DEF Distinct
  <2>4. x = sockets[IF j < i THEN j ELSE j + 1]
    BY <1>3, <2>1
  <2>5. \A k \in 1..n : sockets[k] \in Watched
    BY DEF Watched, ToSet
  <2> QED BY <2>2, <2>3, <2>4, <2>5
<1>6. ASSUME NEW x \in Watched, x # s PROVE x \in ToSet(t)
  <2>1. PICK j \in 1..n : sockets[j] = x
    BY DEF Watched, ToSet
  <2>2. j # i
    BY <1>1, <1>6, <2>1
  <2>3. CASE j < i
    <3>1. j \in 1..(n - 1) /\ t[j] = x
      BY <1>1, <1>3, <2>1, <2>3
    <3> QED BY <1>3, <3>1 DEF ToSet
  <2>4. CASE i < j
    <3>1. j - 1 \in 1..(n - 1) /\ ~(j - 1 < i) /\ (j - 1) + 1 = j
      BY <1>1, <2>4
    <3>2. t[j - 1] = x
      BY <1>3, <2>1, <3>1
    <3> QED BY <1>3, <3>1, <3>2 DEF ToSet
  <2> QED BY <1>1, <2>2, <2>3, <2>4
<1> QED BY <1>4, <1>5, <1>6 DEF t

LEMMA SocketStep == SocketInv /\ BaseAssumption /\ [Next]_vars => SocketInv'
<1> SUFFICES ASSUME SocketInv, BaseAssumption, [Next]_vars PROVE SocketInv'
  OBVIOUS
<1>1. TypeOK' /\ sockets \in Seq(Socket)
  BY TypeStep DEF SocketInv, TypeOK
<1>2. ASSUME UNCHANGED <<system, sockets, registered>> PROVE SocketInv'
  BY <1>1, <1>2 DEF SocketInv, Watched
<1>3. ASSUME NEW s \in Socket, HandleError(s) \/ HandleClose(s) PROVE SocketInv'
  <2>1. s \in Watched /\ system' = system /\ sockets' = Without(s) /\ registered' = registered \ {s}
    BY <1>3 DEF HandleError, HandleClose, Handled
  <2>2. CASE system = "windows"
    BY <1>1, <2>1, <2>2 DEF SocketInv
  <2>3. CASE system # "windows"
    <3>1. Distinct(Without(s)) /\ ToSet(Without(s)) = Watched \ {s}
      BY <1>1, <2>1, <2>3, WithoutSet DEF SocketInv
    <3>2. Watched' = Watched \ {s} /\ Distinct(sockets')
      BY <2>1, <3>1 DEF Watched
    <3> QED BY <1>1, <2>1, <2>3, <3>2 DEF SocketInv
  <2> QED BY <2>2, <2>3
<1>4. ASSUME NEW s \in Socket, NEW new \in Socket, HandleAccept(s, new) PROVE SocketInv'
  <2>1. /\ system' = system /\ registered' = registered \cup {new} /\ new \notin Watched
        /\ Admits(new) => sockets' = Append(sockets, new)
        /\ ~Admits(new) => sockets' = sockets
    BY <1>4 DEF HandleAccept, Handled
  <2>2. CASE system = "windows"
    BY <1>1, <2>1, <2>2 DEF SocketInv
  <2>3. CASE system # "windows" /\ ~Admits(new)
    <3>1. registered' \cap InRange = registered \cap InRange
      BY <2>1, <2>3 DEF Admits
    <3> QED BY <1>1, <2>1, <2>3, <3>1 DEF SocketInv, Watched
  <2>4. CASE system # "windows" /\ Admits(new)
    <3>1. registered' \cap InRange = (registered \cap InRange) \cup {new}
      BY <2>1, <2>4 DEF Admits
    <3>2. /\ Len(sockets') = Len(sockets) + 1 /\ Len(sockets) \in Nat
          /\ sockets'[Len(sockets) + 1] = new
          /\ \A i \in 1..Len(sockets) : sockets'[i] = sockets[i]
      BY <1>1, <2>1, <2>4, AppendProperties
    <3>3. \A i \in 1..Len(sockets) : sockets[i] # new
      BY <1>1, <2>1 DEF Watched, ToSet
    <3>4. Distinct(sockets) => Distinct(sockets')
      BY <3>2, <3>3 DEF Distinct
    <3>5. Watched' = Watched \cup {new}
      <4>1. DOMAIN sockets' = 1..(Len(sockets) + 1) /\ DOMAIN sockets = 1..Len(sockets)
        BY <1>1, <2>1, <2>4, <3>2
      <4>2. 1..(Len(sockets) + 1) = 1..Len(sockets) \cup {Len(sockets) + 1}
        BY <3>2
      <4> QED BY <3>2, <4>1, <4>2 DEF Watched, ToSet
    <3> QED BY <1>1, <2>1, <2>4, <3>1, <3>4, <3>5 DEF SocketInv
  <2> QED BY <2>2, <2>3, <2>4
<1>5. CASE MainStep
  <2> USE DEF setVars, socketVars
  <2>1. CASE \E m \in Module, kind \in {"silent", "full"} : Register(m, kind)
    BY <2>1, <1>2 DEF Register
  <2>2. CASE CallMainLoop \/ ResetAtStart \/ TestStop \/ TestStopAgain \/ ResetInLoop
    BY <2>2, <1>2 DEF CallMainLoop, ResetAtStart, TestStop, TestStopAgain, ResetInLoop, ResetEvent
  <2>3. CASE SelectWork \/ SelectSockets
    BY <2>3, <1>2 DEF SelectWork, SelectSockets, Selected
  <2>4. CASE \E s \in Socket : HandleRead(s) \/ HandleNull(s)
    BY <2>4, <1>2 DEF HandleRead, HandleNull, Handled
  <2>5. CASE ResetSocketEvent \/ SocketsDone \/ Shutdown
    BY <2>5, <1>2 DEF ResetSocketEvent, SocketsDone, Shutdown
  <2>6. CASE HandleWork \/ (\E w \in Work : HandleWorkMore(w)) \/ DropWork \/ DrainDone
    BY <2>6, <1>2 DEF HandleWork, HandleWorkMore, DropWork, DrainDone
  <2> QED BY <1>3, <1>4, <1>5, <2>1, <2>2, <2>3, <2>4, <2>5, <2>6 DEF MainStep
<1>6. CASE SelectTimeout \/ SelectFail
  BY <1>2, <1>6 DEF SelectTimeout, SelectFail, Selected, setVars, socketVars
<1>7. CASE \E p \in Worker : Post(p) \/ \E w \in Work : Insert(p, w)
  BY <1>2, <1>7 DEF Post, Insert, setVars, socketVars
<1>8. CASE ConsoleStep
  BY <1>2, <1>8 DEF ConsoleStep, ConsoleTest, ServeModify, ServeStop, PostStop, ServeDone,
     ConsoleWake, Console, setVars, socketVars
<1>9. CASE (\E s \in Socket : Arrive(s)) \/ \E verb \in {"modify", "stop"} : Command(verb)
  BY <1>2, <1>9 DEF Arrive, Command, setVars, socketVars
<1>10. CASE UNCHANGED vars
  BY <1>2, <1>10 DEF vars, setVars, socketVars
<1> QED BY <1>5, <1>6, <1>7, <1>8, <1>9, <1>10 DEF Next

\* The socket set (socketSetAdd, socketSetRemove) holds, of the descriptors in
\* its range, those registered and neither released nor taken out after an
\* error, and no socket beyond its range; but on Windows.
THEOREM SocketsAreKept == Spec => []SocketSetKept
<1>1. Init => SocketInv
  <2> SUFFICES ASSUME Init PROVE SocketInv
    OBVIOUS
  <2>1. TypeOK
    BY TypeInit, BaseAssumption
  <2>2. sockets = <<Listener>> /\ registered = {Listener}
    BY DEF Init
  <2>3. Watched = {Listener} /\ Listener \in InRange
    BY <2>2, BaseAssumption DEF Watched, ToSet, BaseAssumption
  <2>4. Distinct(sockets)
    BY <2>2 DEF Distinct
  <2> QED BY <2>1, <2>2, <2>3, <2>4 DEF SocketInv
<1>2. SocketInv /\ [Next]_vars => SocketInv'
  BY SocketStep, BaseAssumption
<1>3. SocketInv => SocketSetKept
  BY DEF SocketInv, SocketSetKept
<1> QED BY <1>1, <1>2, <1>3, PTL DEF Spec
=============================================================================
