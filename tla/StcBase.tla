------------------------------- MODULE StcBase -------------------------------
(***************************************************************************)
(* The STC base of c/stcbase.c: one main task waits for sockets, for work  *)
(* that other tasks enqueue and for a time-out, and dispatches both to the *)
(* registered modules.  On z/OS a console task takes operator commands.    *)
(*                                                                         *)
(* The work queue is the queue of FifoQueue, which WorkQueue implements.   *)
(* What differs between the systems is the event that wakes the main task  *)
(* (an ECB on z/OS, a manual-reset event on Windows, the counter of an     *)
(* eventfd on Linux, the bytes of a pipe on AIX) and how a socket leaves   *)
(* the socket set.                                                         *)
(***************************************************************************)
EXTENDS Naturals, Sequences, SequencesExt

CONSTANTS
  Worker,        \* tasks, other than the main task, that enqueue work
  Work,          \* work elements
  Module,        \* module slots
  Target(_),     \* the module a work element is for
  Socket, Listener,  \* sockets; the one that accepts connections
  InRange,       \* those whose descriptor is not above highestAllowedSD
  Capacity,      \* Windows: highestAllowedSD, which bounds the number of sockets
  System,        \* the systems to look at: "zos", "linux", "aix", "windows"
  AllHandled,    \* does every module have a workElementHandler?
  EarlyWork,     \* may tasks enqueue work before the main loop runs?
  MaxArrivals,   \* bound: events on sockets
  MaxCommands    \* bound: operator commands

ASSUME BaseAssumption ==
  /\ System \subseteq {"zos", "linux", "aix", "windows"}
  /\ \A w \in Work : Target(w) \in Module
  /\ InRange \subseteq Socket /\ Listener \in InRange
  /\ Capacity \in Nat \ {0}
  /\ AllHandled \in BOOLEAN /\ EarlyWork \in BOOLEAN
  /\ MaxArrivals \in Nat /\ MaxCommands \in Nat

VARIABLES
  system,        \* the system the program is built for
  modules,       \* base->modules: "none", "silent" (no workElementHandler) or "full"
  queue,         \* base->workQueue
  place,         \* per work element: where it is
  event,         \* qReadyECB, qReadyEvent, eventSocket: 0, or posted
  posting,       \* per worker: it has inserted and not yet posted
  phase,         \* where the main task is
  readTheQueue,  \* its local variable
  ready,         \* scratchReadMask, currentReadyEvents: sockets still to handle
  toReset,       \* Windows: the sockets of the event set still to visit
  sockets,       \* base->socketSet
  registered,    \* sockets that were registered and neither released nor failed
  readable,      \* sockets with something to read
  signalled,     \* Windows: sockets whose event is set
  revised,       \* Windows: socketSet->revisionNumber is ahead of the base's
  stopRequested,
  commands,      \* the CIB chain: commands the operator entered
  console,       \* where the console task is
  shutdownECB,   \* base->commandShutdownECB is posted
  arrivals, entered  \* counters for the bounds

workVars == <<queue, place, event, posting>>
mainVars == <<phase, readTheQueue, ready, toReset>>
setVars == <<sockets, registered, revised>>
socketVars == <<setVars, readable, signalled, arrivals>>
consoleVars == <<stopRequested, commands, console, shutdownECB, entered>>
vars == <<system, modules, workVars, mainVars, socketVars, consoleVars>>

Watched == ToSet(sockets)

Init ==
  /\ system \in System
  /\ modules = [m \in Module |-> "none"]
  /\ queue = <<>> /\ place = [w \in Work |-> "new"]
  /\ event = 0 /\ posting = [p \in Worker |-> FALSE]
  /\ phase = "register" /\ readTheQueue = FALSE /\ ready = {} /\ toReset = <<>>
  /\ sockets = <<Listener>> /\ registered = {Listener} /\ revised = TRUE
  /\ readable = {} /\ signalled = {} /\ arrivals = 0
  /\ stopRequested = FALSE
  /\ commands = <<>> /\ entered = 0
  /\ console = IF system = "zos" THEN "test" ELSE "done"
  /\ shutdownECB = FALSE

-----------------------------------------------------------------------------
(* The event, and stcEnqueueWork: insert, then post *)

Posted == IF system = "aix" THEN event + 1 ELSE 1

\* Faulty: the pipe is read whether or not there is a post in it.
ResetReads == IF system = "aix" THEN event - 1 ELSE 0

\* resetQueuedWorkEvent: on AIX it does nothing.
Reset == IF system = "aix" THEN event ELSE 0

\* stcBaseSelect reads the event socket when it is ready: an eventfd gives
\* its whole counter, the pipe one post.
Consumed ==
  CASE system = "linux" -> 0
    [] system = "aix" -> event - 1
    [] OTHER -> event

InsertWork(w) ==
  /\ place[w] = "new"
  /\ queue' = Append(queue, w)
  /\ place' = [place EXCEPT ![w] = "queued"]

Insert(p, w) ==
  /\ ~posting[p]
  /\ EarlyWork \/ phase \notin {"register", "start"}
  /\ InsertWork(w)
  /\ posting' = [posting EXCEPT ![p] = TRUE]
  /\ UNCHANGED <<system, modules, event, mainVars, socketVars, consoleVars>>

Post(p) ==
  /\ posting[p]
  /\ posting' = [posting EXCEPT ![p] = FALSE]
  /\ event' = Posted
  /\ UNCHANGED <<system, modules, queue, place, mainVars, socketVars, consoleVars>>

-----------------------------------------------------------------------------
(* The main task up to its wait *)

Main(from, to) == phase = from /\ phase' = to

\* stcRegisterModule2
Register(m, kind) ==
  /\ phase = "register" /\ modules[m] = "none"
  /\ AllHandled => kind = "full"
  /\ modules' = [modules EXCEPT ![m] = kind]
  /\ UNCHANGED <<system, workVars, mainVars, socketVars, consoleVars>>

\* The caller has registered its modules and calls stcBaseMainLoop.
CallMainLoop ==
  /\ Main("register", "start")
  /\ AllHandled => \A m \in Module : modules[m] = "full"
  /\ UNCHANGED <<system, modules, workVars, readTheQueue, ready, toReset, socketVars, consoleVars>>

ResetEvent(from, to) ==
  /\ Main(from, to)
  /\ event' = Reset
  /\ UNCHANGED <<system, modules, queue, place, posting, readTheQueue, ready, toReset, socketVars,
                 consoleVars>>

ResetAtStart == ResetEvent("start", "test")

\* Going on to stcBaseSelect, which on Windows builds a new event set when
\* the socket set has changed: what is readable then sets the new events.
TestStop ==
  /\ IF stopRequested THEN Main("test", "done") ELSE Main("test", "select")
  /\ readTheQueue' = FALSE
  /\ revised' = FALSE
  /\ signalled' = IF revised /\ system = "windows" THEN readable \cap Watched ELSE signalled
  /\ UNCHANGED <<system, modules, workVars, ready, toReset, sockets, registered, readable,
                 arrivals, consoleVars>>

-----------------------------------------------------------------------------
(* stcBaseSelect and what the loop makes of its status *)

\* What the wait sees: the sockets themselves, on Windows their events.
Seen == Watched \cap (IF system = "windows" THEN signalled ELSE readable)

Selected(to, read) ==
  /\ Main("select", to)
  /\ readTheQueue' = read
  /\ UNCHANGED <<system, modules, queue, place, posting, setVars, readable, arrivals,
                 consoleVars>>

\* Windows asks every socket and clears its event.
TakeReady ==
  /\ ready' = readable \cap Watched
  /\ toReset' = IF system = "windows" THEN sockets ELSE <<>>
  /\ signalled' = signalled \ Watched

\* The event is posted.  Windows reports it alone: the event is the first
\* object of the set.
SelectWork ==
  /\ event > 0
  /\ Selected("stopTest", TRUE)
  /\ event' = Consumed
  /\ IF system = "windows" THEN UNCHANGED <<ready, toReset, signalled>> ELSE TakeReady

\* Faulty: the queue is read only when the wait reported work.
SelectSocketsOnly ==
  /\ event = 0 /\ Seen # {}
  /\ Selected("stopTest", FALSE)
  /\ TakeReady
  /\ UNCHANGED event

SelectSockets ==
  /\ event = 0 /\ Seen # {}
  /\ Selected("stopTest", TRUE)
  /\ TakeReady
  /\ UNCHANGED event

\* Faulty: the queue is not read after a time-out.
SelectTimeoutQuiet ==
  /\ event = 0 /\ Seen = {}
  /\ Selected("stopTest", FALSE)
  /\ UNCHANGED <<event, ready, toReset, signalled>>

SelectTimeout ==
  /\ event = 0 /\ Seen = {}
  /\ Selected("stopTest", TRUE)
  /\ UNCHANGED <<event, ready, toReset, signalled>>

\* A failing select is fatal.
SelectFail ==
  /\ Main("select", "done")
  /\ stopRequested' = TRUE
  /\ UNCHANGED <<system, modules, workVars, readTheQueue, ready, toReset, socketVars, commands,
                 console, shutdownECB, entered>>

TestStopAgain ==
  /\ IF stopRequested THEN Main("stopTest", "done") ELSE Main("stopTest", "reset")
  /\ UNCHANGED <<system, modules, workVars, readTheQueue, ready, toReset, socketVars, consoleVars>>

\* On Windows stcHandleReadySockets resets the event once more.
ResetInLoop == ResetEvent("reset", "sockets")

-----------------------------------------------------------------------------
(* stcHandleReadySockets *)

\* Faulty: every system drops the last socket.
WithoutLast(s) == Front(sockets)

\* socketSetRemove.  The one of Windows drops the last socket, whatever its
\* argument is.
Without(s) ==
  IF system = "windows" THEN Front(sockets)
  ELSE RemoveAt(sockets, CHOOSE i \in 1..Len(sockets) : sockets[i] = s)

\* What socketSetAdd takes: a descriptor in range, on Windows any socket
\* while the array has room.
Admits(new) ==
  IF system = "windows" THEN Len(sockets) < Capacity ELSE new \in InRange

\* Windows visits the sockets in the order of the set.
Visited(s) == s \in ready /\ (system = "windows" => s = Head(toReset))

Handled(s) ==
  /\ phase = "sockets" /\ Visited(s) /\ s \in Watched
  /\ ready' = ready \ {s}
  /\ UNCHANGED <<system, modules, workVars, phase, readTheQueue, toReset, signalled, arrivals,
                 consoleVars>>

\* The module's handler reads what there is.
HandleRead(s) ==
  /\ Handled(s)
  /\ readable' = readable \ {s}
  /\ UNCHANGED setVars

\* It accepts a connection and registers the new socket.
\* stcRegisterSocketExtension drops the status of socketSetAdd: a socket that
\* was refused counts as registered all the same.
HandleAccept(s, new) ==
  /\ s = Listener /\ Handled(s)
  /\ new \notin registered \cup Watched
  /\ registered' = registered \cup {new}
  /\ IF Admits(new)
     THEN sockets' = Append(sockets, new) /\ revised' = TRUE
     ELSE UNCHANGED <<sockets, revised>>
  /\ readable' = readable \ {s}

\* Faulty: the socket stays in the set.
HandleErrorKept(s) ==
  /\ Handled(s)
  /\ UNCHANGED <<setVars, readable>>

\* It fails with status 8 or more, for example because the slot of its
\* module is empty: the base takes the socket out.
HandleError(s) ==
  /\ Handled(s)
  /\ sockets' = Without(s)
  /\ registered' = registered \ {s}
  /\ revised' = TRUE
  /\ UNCHANGED readable

\* It releases its socket: stcReleaseSocketExtension.
HandleClose(s) ==
  /\ s # Listener /\ Handled(s)
  /\ sockets' = Without(s)
  /\ registered' = registered \ {s}
  /\ revised' = TRUE
  /\ readable' = readable \ {s}

\* Windows: the slot of a ready socket was emptied meanwhile, and
\* handleReadySocket follows a null pointer.
HandleNull(s) ==
  /\ Visited(s) /\ s \notin Watched
  /\ Main("sockets", "crashed")
  /\ UNCHANGED <<system, modules, workVars, readTheQueue, ready, toReset, socketVars, consoleVars>>

\* Windows: the event is reset after the handler, ready or not.
ResetSocketEvent ==
  /\ phase = "sockets" /\ toReset # <<>> /\ Head(toReset) \notin ready
  /\ signalled' = signalled \ {Head(toReset)}
  /\ toReset' = Tail(toReset)
  /\ UNCHANGED <<system, modules, workVars, phase, readTheQueue, ready, setVars, readable,
                 arrivals, consoleVars>>

\* Then the background handlers of the modules are called.
SocketsDone ==
  /\ ready = {} /\ toReset = <<>>
  /\ Main("sockets", "drain")
  /\ UNCHANGED <<system, modules, workVars, readTheQueue, ready, toReset, socketVars, consoleVars>>

-----------------------------------------------------------------------------
(* stcDrainQueueAndDispatchWork *)

Removed(w, to) == place' = [place EXCEPT ![w] = to] /\ queue' = Tail(queue)

HandleWork ==
  /\ phase = "drain" /\ readTheQueue /\ queue # <<>>
  /\ modules[Target(Head(queue))] = "full"
  /\ Removed(Head(queue), "done")
  /\ UNCHANGED <<system, modules, event, posting, mainVars, socketVars, consoleVars>>

\* The handler enqueues more work.
HandleWorkMore(w) ==
  /\ phase = "drain" /\ readTheQueue /\ queue # <<>>
  /\ modules[Target(Head(queue))] = "full"
  /\ place[w] = "new"
  /\ queue' = Append(Tail(queue), w)
  /\ place' = [place EXCEPT ![Head(queue)] = "done", ![w] = "queued"]
  /\ event' = Posted
  /\ UNCHANGED <<system, modules, posting, mainVars, socketVars, consoleVars>>

\* No module, or one without a handler: the element is gone and the rest of
\* the queue stays.
DropWork ==
  /\ readTheQueue /\ queue # <<>>
  /\ modules[Target(Head(queue))] # "full"
  /\ Removed(Head(queue), "dropped")
  /\ Main("drain", "test")
  /\ UNCHANGED <<system, modules, event, posting, readTheQueue, ready, toReset, socketVars, consoleVars>>

\* Faulty: one element is handled for each wait.
DrainDoneOnce ==
  /\ Main("drain", "test")
  /\ UNCHANGED <<system, modules, workVars, readTheQueue, ready, toReset, socketVars, consoleVars>>

DrainDone ==
  /\ ~readTheQueue \/ queue = <<>>
  /\ Main("drain", "test")
  /\ UNCHANGED <<system, modules, workVars, readTheQueue, ready, toReset, socketVars, consoleVars>>

\* Faulty: the console task is not told.
ShutdownSilent ==
  /\ system = "zos"
  /\ Main("done", "down")
  /\ stopRequested' = TRUE
  /\ UNCHANGED <<system, modules, workVars, readTheQueue, ready, toReset, socketVars, commands,
                 console, shutdownECB, entered>>

\* stcBaseShutdown, which the caller calls after the loop (z/OS only).
Shutdown ==
  /\ system = "zos"
  /\ Main("done", "down")
  /\ stopRequested' = TRUE /\ shutdownECB' = TRUE
  /\ UNCHANGED <<system, modules, workVars, readTheQueue, ready, toReset, socketVars, commands, console,
                 entered>>

-----------------------------------------------------------------------------
(* consoleTaskMain *)

Console(from, to) ==
  /\ console = from /\ console' = to
  /\ UNCHANGED <<system, modules, queue, place, posting, mainVars, socketVars, entered>>

ConsoleTest ==
  /\ IF stopRequested THEN Console("test", "done") ELSE Console("test", "serve")
  /\ UNCHANGED <<event, stopRequested, commands, shutdownECB>>

\* The handler is called; QEDIT takes the CIB off the chain.
ServeModify ==
  /\ commands # <<>> /\ Head(commands) = "modify"
  /\ Console("serve", "serve")
  /\ commands' = Tail(commands)
  /\ UNCHANGED <<event, stopRequested, shutdownECB>>

\* The CIB of a stop stays on the chain.
ServeStop ==
  /\ commands # <<>> /\ Head(commands) = "stop"
  /\ Console("serve", "postStop")
  /\ stopRequested' = TRUE
  /\ UNCHANGED <<event, commands, shutdownECB>>

\* Faulty: the main task is not told.
PostStopSilent ==
  /\ Console("postStop", "wait")
  /\ UNCHANGED <<event, stopRequested, commands, shutdownECB>>

PostStop ==
  /\ Console("postStop", "wait")
  /\ event' = Posted
  /\ UNCHANGED <<stopRequested, commands, shutdownECB>>

ServeDone ==
  /\ commands = <<>>
  /\ Console("serve", "wait")
  /\ UNCHANGED <<event, stopRequested, commands, shutdownECB>>

\* The communications ECB is posted while there is a CIB.
ConsoleWake ==
  /\ commands # <<>> \/ shutdownECB
  /\ Console("wait", "test")
  /\ UNCHANGED <<event, stopRequested, commands, shutdownECB>>

-----------------------------------------------------------------------------
(* The environment: clients and the operator *)

Arrive(s) ==
  /\ s \in registered /\ s \notin readable /\ arrivals < MaxArrivals
  /\ readable' = readable \cup {s} /\ arrivals' = arrivals + 1
  /\ signalled' = signalled \cup (IF system = "windows" THEN {s} ELSE {})
  /\ UNCHANGED <<system, modules, workVars, mainVars, setVars, consoleVars>>

Command(verb) ==
  /\ system = "zos" /\ entered < MaxCommands
  /\ commands' = Append(commands, verb) /\ entered' = entered + 1
  /\ UNCHANGED <<system, modules, workVars, mainVars, socketVars, stopRequested, console,
                 shutdownECB>>

-----------------------------------------------------------------------------
MainStep ==
  \/ \E m \in Module, kind \in {"silent", "full"} : Register(m, kind)
  \/ CallMainLoop \/ ResetAtStart \/ TestStop
  \/ SelectWork \/ SelectSockets \/ TestStopAgain \/ ResetInLoop
  \/ \E s \in Socket :
       HandleRead(s) \/ HandleError(s) \/ HandleClose(s) \/ HandleNull(s)
  \/ \E s, new \in Socket : HandleAccept(s, new)
  \/ ResetSocketEvent \/ SocketsDone
  \/ HandleWork \/ (\E w \in Work : HandleWorkMore(w)) \/ DropWork \/ DrainDone
  \/ Shutdown

ConsoleStep ==
  ConsoleTest \/ ServeModify \/ ServeStop \/ PostStop \/ ServeDone \/ ConsoleWake

Next ==
  \/ MainStep \/ SelectTimeout \/ SelectFail
  \/ \E p \in Worker : Post(p) \/ \E w \in Work : Insert(p, w)
  \/ ConsoleStep
  \/ \E s \in Socket : Arrive(s)
  \/ \E verb \in {"modify", "stop"} : Command(verb)

\* Tasks that can run do run.  The time-out is not among what must happen.
Fairness ==
  /\ WF_vars(MainStep)
  /\ WF_vars(ConsoleStep)
  /\ \A p \in Worker : WF_vars(Post(p))

Spec == Init /\ [][Next]_vars
PromptSpec == Spec /\ Fairness
\* The main loop waits at most MAIN_WAIT_MILLIS.
TimelySpec == PromptSpec /\ WF_vars(SelectTimeout)

-----------------------------------------------------------------------------
(* Properties *)

TypeOK ==
  /\ system \in System
  /\ modules \in [Module -> {"none", "silent", "full"}]
  /\ queue \in Seq(Work)
  /\ place \in [Work -> {"new", "queued", "done", "dropped"}]
  /\ event \in Nat /\ posting \in [Worker -> BOOLEAN]
  /\ phase \in {"register", "start", "test", "select", "stopTest", "reset", "sockets",
                "drain", "done", "down", "crashed"}
  /\ readTheQueue \in BOOLEAN /\ ready \subseteq Socket /\ toReset \in Seq(Socket)
  /\ sockets \in Seq(Socket) /\ registered \subseteq Socket /\ revised \in BOOLEAN
  /\ readable \subseteq Socket /\ signalled \subseteq Socket
  /\ stopRequested \in BOOLEAN /\ commands \in Seq({"modify", "stop"})
  /\ console \in {"test", "serve", "postStop", "wait", "done"}
  /\ shutdownECB \in BOOLEAN
  /\ arrivals \in Nat /\ entered \in Nat

Over == stopRequested \/ phase = "crashed"

\* When every module has a work handler and nobody enqueues before the loop,
\* the main task does not wait with work in the queue unless something is
\* about to wake it: the order of stcEnqueueWork (insert, post) and of the
\* loop (reset, drain, wait).
NoLostWakeup ==
  (phase = "select" /\ queue # <<>>) =>
    event > 0 \/ \E p \in Worker : posting[p]

\* A stop command does not leave the main task waiting either: the command
\* posts after it set stopRequested, and the loop tests stopRequested between
\* its reset and the next wait.
NoLostStop ==
  (phase = "select" /\ stopRequested) => event > 0 \/ console = "postStop"

\* Work of a task is handled without the help of a time-out (NoLostWakeup,
\* and readTheQueue is set whatever the wait reported).
PromptWork ==
  \A w \in Work : place[w] = "queued" ~> place[w] = "done" \/ Over

\* With the time-out of the wait, work is not left in the queue: neither what
\* came before the loop, whose post resetQueuedWorkEvent wipes, nor what stood
\* behind an element without a handler.
WorkServed ==
  \A w \in Work : place[w] = "queued" ~> place[w] # "queued" \/ Over

\* After a stop the loop ends, and the console task too, whichever of them
\* stopped first.
StopEnds ==
  stopRequested ~> phase \in {"done", "down"} /\ console = "done"

\* A socket in the set with something to read is handled, or taken out
\* ("to prevent tight loop"), on the systems whose select sees the socket itself.
SocketServed ==
  \A s \in Socket :
    system # "windows" /\ s \in readable \cap Watched ~> s \notin readable \cap Watched \/ Over

\* On the systems that index the set by descriptor it holds the sockets with a
\* descriptor in range that were registered and neither released nor taken out
\* after an error.  A connection beyond the range is never watched and nobody
\* is told, since stcRegisterSocketExtension drops the status of socketSetAdd.  Windows is
\* left out: its socketSetRemove drops the last socket (winskt.c:863-870).
SocketSetKept == system # "windows" => Watched = registered \cap InRange

\* The main task does not wait on a socket that has something to read but no
\* event to say so.
NoStuckSocket ==
  phase = "select" => readable \cap Watched \subseteq Seen
=============================================================================
