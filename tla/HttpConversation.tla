-------------------------- MODULE HttpConversation --------------------------
(***************************************************************************)
(* The life of an HTTP conversation in c/httpserver.c (z/OS build): from   *)
(* the accept on the listening socket to the release of its storage.       *)
(*                                                                         *)
(* The main task of the STC multiplexes the sockets and drains one queue   *)
(* of work elements.  A service declared runInSubtask is served by an RLE  *)
(* task of its own, so several tasks and the main task share the           *)
(* conversation block.  The close protocol is built on one word of that    *)
(* block (HttpConversationSerialize): shouldClose, considerCloseEnqueued,  *)
(* closeEnqueued and runningTasks, updated by compare-and-swap loops and,  *)
(* for the flags, also by plain stores.                                    *)
(*                                                                         *)
(* One step of this module makes at most one access to storage that        *)
(* several tasks share, or accesses that commute with every step of the    *)
(* other tasks.  A pc per actor says where it is in the code.              *)
(***************************************************************************)
EXTENDS Naturals, Sequences, FiniteSets

CONSTANTS
  Conversation,    \* connections; a freed conversation block is not reused
  Task,            \* RLE tasks: a bound on the subtasks alive at one time
  Main,            \* the main task
  Service,         \* the registered HTTP services
  TaskService,     \* those with runInSubtask set
  NoService,       \* the NULL service pointer
  NoConversation,  \* what an idle actor works on
  KeepAliveMax,    \* JED_HTTP_KEEP_ALIVE_MAX
  MaxRequests,     \* bound: requests a client sends on one connection
  MaxPerFragment,  \* bound: requests completed by one socket read
  PipelinedClient, \* a client may send before the previous response is done
  LateAbend        \* a service may abend after it finished its response

NotFound == "notFound"            \* no service matches the URI
NotFoundClose == "notFoundClose"  \* and the request does not keep alive

ASSUME ActorsAssumption == Main \notin Task /\ IsFiniteSet(Task)
ASSUME ConversationsAssumption == NoConversation \notin Conversation
ASSUME ServicesAssumption ==
  /\ TaskService \subseteq Service
  /\ NoService \notin Service
  /\ Service \cap {NotFound, NotFoundClose} = {}
ASSUME BoundsAssumption ==
  /\ KeepAliveMax \in Nat
  /\ MaxRequests \in Nat
  /\ MaxPerFragment \in Nat
  /\ PipelinedClient \in BOOLEAN
  /\ LateAbend \in BOOLEAN

VARIABLES
  life,        \* storage of the conversation: "unused", "open", "freed"
  word,        \* HttpConversationSerialize
  registered,  \* its socket is in the socket set of the main loop
  shouldError, \* the parser rejected the input
  requests,    \* parser->requestQHead: parsed requests not yet dispatched
  working,     \* workingOnResponse
  pending,     \* pendingService
  requestCount,
  owed,        \* responses the client has asked for and not yet received
  hungup,      \* the peer closed its end and all its bytes were read
  ready,       \* sockets the current select reported and not yet handled
  queue,       \* STC work queue: START_RESPONSE, CONSIDER_CLOSE and CLOSE
  pc,          \* per actor: the next step of its code
  ret,         \* per actor: where serializeConsiderCloseEnqueue returns to
  cur,         \* per actor: the conversation it works on
  wanted,      \* per actor: the service the request it holds was routed to
  serving,     \* per actor: the service pointer it was called with
  snap,        \* per actor: the compare copy of the serialized word
  saved,       \* per actor: workingOnResponse as saved by handleServiceFailed
  slhFrees     \* per actor: how often the heap of its response was freed

convVars == <<life, registered, shouldError, requests, pending, requestCount>>
sharedVars == <<word, working, queue>>
actorVars == <<pc, ret, cur, wanted, serving, snap, saved, slhFrees>>
vars == <<convVars, sharedVars, owed, hungup, ready, actorVars>>

Actor == Task \cup {Main}
Request == Service \cup {NotFound, NotFoundClose}
Word == [shouldClose : BOOLEAN, considerClose : BOOLEAN,
         closeEnqueued : BOOLEAN, running : Nat]
ZeroWord == [shouldClose |-> FALSE, considerClose |-> FALSE,
             closeEnqueued |-> FALSE, running |-> 0]
Element == [code : {"start", "consider", "close"}, conv : Conversation]

MainPC == {"select", "sockets", "read", "drain", "dispatch", "incLoad",
           "incCas", "startTask", "errorReply", "notFoundReply", "notFoundClose"}
ServicePC == {"serve", "running", "finishing", "finished",
              "failSave", "failClear", "failClose", "failFree", "failed"}
SerializePC == {"load", "cas", "enqueue"}
TaskPC == {"idle", "start", "call"}

Goto(a, label) == pc' = [pc EXCEPT ![a] = label]
At(a, label) == a \in Actor /\ pc[a] = label
Enqueue(c, code) == queue' = Append(queue, [code |-> code, conv |-> c])

Init ==
  /\ life = [c \in Conversation |-> "unused"]
  /\ word = [c \in Conversation |-> ZeroWord]
  /\ registered = [c \in Conversation |-> FALSE]
  /\ shouldError = [c \in Conversation |-> FALSE]
  /\ requests = [c \in Conversation |-> <<>>]
  /\ working = [c \in Conversation |-> FALSE]
  /\ pending = [c \in Conversation |-> NoService]
  /\ requestCount = [c \in Conversation |-> 0]
  /\ owed = [c \in Conversation |-> 0]
  /\ hungup = [c \in Conversation |-> FALSE]
  /\ ready = {}
  /\ queue = <<>>
  /\ pc = [a \in Actor |-> IF a = Main THEN "select" ELSE "idle"]
  /\ ret = [a \in Actor |-> "idle"]
  /\ cur = [a \in Actor |-> NoConversation]
  /\ wanted = [a \in Actor |-> NoService]
  /\ serving = [a \in Actor |-> NoService]
  /\ snap = [a \in Actor |-> ZeroWord]
  /\ saved = [a \in Actor |-> FALSE]
  /\ slhFrees = [a \in Actor |-> 0]

-----------------------------------------------------------------------------
(* The client and the network. *)

\* The peer closes its end; the socket is readable from now on.
PeerHangup(c) ==
  /\ life[c] = "open" /\ ~hungup[c]
  /\ hungup' = [hungup EXCEPT ![c] = TRUE]
  /\ UNCHANGED <<convVars, sharedVars, owed, ready, actorVars>>

\* What the next read of a socket may deliver, within the bounds.
MaySend(c, rs) ==
  /\ ~hungup[c]
  /\ Len(rs) <= MaxPerFragment
  /\ requestCount[c] + Len(requests[c]) + Len(rs) <= MaxRequests
  /\ ~PipelinedClient => owed[c] = 0 /\ Len(rs) <= 1

-----------------------------------------------------------------------------
(* Main task: stcBaseMainLoop's select and pass over the ready sockets. *)

\* select() is level-triggered: a socket whose peer hung up is reported each
\* time.  An unused conversation in the set stands for the listening socket.
Select ==
  /\ At(Main, "select")
  /\ \E R \in SUBSET Conversation :
       /\ \A c \in R : registered[c] \/ life[c] = "unused"
       /\ \A c, d \in R : life[c] = "unused" /\ life[d] = "unused" => c = d
       /\ \A c \in Conversation : registered[c] /\ hungup[c] => c \in R
       /\ ready' = R
  /\ Goto(Main, "sockets")
  /\ UNCHANGED <<convVars, sharedVars, owed, hungup, ret, cur, wanted, serving,
                 snap, saved, slhFrees>>

\* httpHandleTCP on the listening socket: accept and makeHttpConversation.
AcceptConversation(c) ==
  /\ At(Main, "sockets") /\ c \in ready /\ life[c] = "unused"
  /\ life' = [life EXCEPT ![c] = "open"]
  /\ registered' = [registered EXCEPT ![c] = TRUE]
  /\ ready' = ready \ {c}
  /\ UNCHANGED <<shouldError, requests, pending, requestCount, sharedVars, owed,
                 hungup, actorVars>>

\* handlePeerSocketRead of a conversation that should close.
PeerReadClosing(c) ==
  /\ At(Main, "sockets") /\ c \in ready /\ life[c] = "open"
  /\ word[c].shouldClose
  /\ registered' = [registered EXCEPT ![c] = FALSE]
  /\ ready' = ready \ {c}
  /\ cur' = [cur EXCEPT ![Main] = c]
  /\ ret' = [ret EXCEPT ![Main] = "sockets"]
  /\ Goto(Main, "load")
  /\ UNCHANGED <<life, shouldError, requests, pending, requestCount, sharedVars,
                 owed, hungup, wanted, serving, snap, saved, slhFrees>>

\* handlePeerSocketRead of an open one: on to doHttpReadWork.
PeerReadOpen(c) ==
  /\ At(Main, "sockets") /\ c \in ready /\ life[c] = "open"
  /\ ~word[c].shouldClose
  /\ ready' = ready \ {c}
  /\ cur' = [cur EXCEPT ![Main] = c]
  /\ Goto(Main, "read")
  /\ UNCHANGED <<convVars, sharedVars, owed, hungup, ret, wanted, serving, snap,
                 saved, slhFrees>>

\* doHttpReadWork, bytesRead < 1.
ReadEnds(close) ==
  /\ At(Main, "read")
  /\ word' = [word EXCEPT ![cur[Main]].shouldClose = @ \/ close]
  /\ cur' = [cur EXCEPT ![Main] = NoConversation]
  /\ Goto(Main, "sockets")
  /\ UNCHANGED <<convVars, working, queue, owed, hungup, ready, ret, wanted,
                 serving, snap, saved, slhFrees>>

ReadFails == ReadEnds(TRUE)

\* doHttpReadWork: the parser completes the requests rs and accepts the
\* fragment or (ok = FALSE) rejects the rest of it; one START_RESPONSE either
\* way.
ReadFragment(rs, ok) ==
  /\ At(Main, "read")
  /\ LET c == cur[Main]
     IN  /\ MaySend(c, rs)
         /\ requests' = [requests EXCEPT ![c] = @ \o rs]
         /\ shouldError' = [shouldError EXCEPT ![c] = @ \/ ~ok]
         /\ owed' = [owed EXCEPT ![c] = @ + Len(rs) + (IF ok THEN 0 ELSE 1)]
         /\ Enqueue(c, "start")
  /\ cur' = [cur EXCEPT ![Main] = NoConversation]
  /\ Goto(Main, "sockets")
  /\ UNCHANGED <<life, word, registered, working, pending, requestCount, hungup,
                 ready, ret, wanted, serving, snap, saved, slhFrees>>

SocketsDone ==
  /\ At(Main, "sockets") /\ ready = {}
  /\ Goto(Main, "drain")
  /\ UNCHANGED <<convVars, sharedVars, owed, hungup, ready, ret, cur, wanted,
                 serving, snap, saved, slhFrees>>

-----------------------------------------------------------------------------
(* Main task: stcDrainQueueAndDispatchWork and httpWorkElementHandler. *)

DrainDone ==
  /\ At(Main, "drain") /\ queue = <<>>
  /\ Goto(Main, "select")
  /\ UNCHANGED <<convVars, sharedVars, owed, hungup, ready, ret, cur, wanted,
                 serving, snap, saved, slhFrees>>

Dequeue(code, c) ==
  /\ At(Main, "drain") /\ queue # <<>>
  /\ Head(queue) = [code |-> code, conv |-> c]

\* HTTP_CONSIDER_CLOSE_CONVERSATION
ConsiderClose(c) ==
  /\ Dequeue("consider", c)
  /\ IF word[c].running = 0 /\ ~word[c].closeEnqueued
       THEN /\ queue' = Append(Tail(queue), [code |-> "close", conv |-> c])
            /\ word' = [word EXCEPT ![c].closeEnqueued = TRUE]
       ELSE queue' = Tail(queue) /\ UNCHANGED word
  /\ UNCHANGED <<convVars, working, owed, hungup, ready, actorVars>>

\* HTTP_CLOSE_CONVERSATION with running subtasks: cleanup is abandoned.
CloseAbandoned(c) ==
  /\ Dequeue("close", c) /\ word[c].running > 0
  /\ queue' = Tail(queue)
  /\ UNCHANGED <<convVars, word, working, owed, hungup, ready, actorVars>>

\* HTTP_CLOSE_CONVERSATION: the socket is closed and unregistered and the
\* conversation block cleared and freed.
Release(c) ==
  /\ Dequeue("close", c)
  /\ queue' = Tail(queue)
  /\ life' = [life EXCEPT ![c] = "freed"]
  /\ registered' = [registered EXCEPT ![c] = FALSE]
  /\ word' = [word EXCEPT ![c] = ZeroWord]
  /\ working' = [working EXCEPT ![c] = FALSE]
  /\ shouldError' = [shouldError EXCEPT ![c] = FALSE]
  /\ requests' = [requests EXCEPT ![c] = <<>>]
  /\ pending' = [pending EXCEPT ![c] = NoService]
  /\ requestCount' = [requestCount EXCEPT ![c] = 0]
  /\ UNCHANGED <<owed, hungup, ready, actorVars>>

CloseUnchecked(c) == Release(c)  \* faulty: runningTasks is not tested
CloseConversation(c) == word[c].running = 0 /\ Release(c)

\* HTTP_START_RESPONSE, doHttpResponseWork with no request in the parser.
StartNothing(c) ==
  /\ Dequeue("start", c) /\ ~shouldError[c] /\ requests[c] = <<>>
  /\ queue' = Tail(queue)
  /\ UNCHANGED <<convVars, word, working, owed, hungup, ready, actorVars>>

\* HTTP_START_RESPONSE after a parse error: the requests parsed before the
\* error stay where they are.
StartError(c) ==
  /\ Dequeue("start", c) /\ shouldError[c]
  /\ queue' = Tail(queue)
  /\ working' = [working EXCEPT ![c] = TRUE]
  /\ cur' = [cur EXCEPT ![Main] = c]
  /\ Goto(Main, "errorReply")
  /\ UNCHANGED <<convVars, word, owed, hungup, ready, ret, wanted, serving, snap,
                 saved, slhFrees>>

\* pendingService after a request is routed to the service new.
FirstService(old, new) == IF old = NoService THEN new ELSE old  \* faulty
NoNewService(old, new) == old  \* faulty: it is set after the task is started
PendingService(old, new) == new

\* HTTP_START_RESPONSE: one request is taken and routed to its service.
StartRequest(c) ==
  /\ Dequeue("start", c) /\ ~shouldError[c] /\ requests[c] # <<>>
  /\ queue' = Tail(queue)
  /\ requests' = [requests EXCEPT ![c] = Tail(@)]
  /\ requestCount' = [requestCount EXCEPT ![c] = @ + 1]
  /\ cur' = [cur EXCEPT ![Main] = c]
  /\ LET r == Head(requests[c])
     IN  IF r \in Service
           THEN /\ pending' = [pending EXCEPT ![c] = PendingService(@, r)]
                /\ wanted' = [wanted EXCEPT ![Main] = r]
                /\ Goto(Main, "dispatch")
           ELSE /\ Goto(Main, IF r = NotFound THEN "notFoundReply"
                                              ELSE "notFoundClose")
                /\ UNCHANGED <<pending, wanted>>
  /\ UNCHANGED <<life, registered, shouldError, word, working, owed, hungup,
                 ready, ret, serving, snap, saved, slhFrees>>

\* The client receives the response to one of the requests it waits for.
Received(c) == owed' = [owed EXCEPT ![c] = IF @ = 0 THEN 0 ELSE @ - 1]

\* respondWithError for a parse error, finished by the main task.
ErrorReply ==
  /\ At(Main, "errorReply")
  /\ LET c == cur[Main]
     IN  working' = [working EXCEPT ![c] = FALSE] /\ Received(c)
  /\ cur' = [cur EXCEPT ![Main] = NoConversation]
  /\ Goto(Main, "drain")
  /\ UNCHANGED <<convVars, word, queue, hungup, ready, ret, wanted, serving,
                 snap, saved, slhFrees>>

\* The 404 response carries no conversation pointer: finishResponse leaves
\* workingOnResponse alone.  Without keep-alive shouldClose is set, but no
\* consider-close is enqueued.
NotFoundReply ==
  /\ At(Main, "notFoundReply") \/ At(Main, "notFoundClose")
  /\ LET c == cur[Main]
     IN  /\ word' = IF pc[Main] = "notFoundClose"
                      THEN [word EXCEPT ![c].shouldClose = TRUE] ELSE word
         /\ Received(c)
  /\ cur' = [cur EXCEPT ![Main] = NoConversation]
  /\ Goto(Main, "drain")
  /\ UNCHANGED <<convVars, working, queue, hungup, ready, ret, wanted, serving,
                 snap, saved, slhFrees>>

\* workingOnResponse = TRUE, then either a subtask or handleHttpService.
Dispatch ==
  /\ At(Main, "dispatch")
  /\ working' = [working EXCEPT ![cur[Main]] = TRUE]
  /\ IF wanted[Main] \in TaskService
       THEN Goto(Main, "incLoad") /\ UNCHANGED serving
       ELSE /\ Goto(Main, "serve")
            /\ serving' = [serving EXCEPT ![Main] = wanted[Main]]
  /\ UNCHANGED <<convVars, word, queue, owed, hungup, ready, ret, cur, wanted,
                 snap, saved, slhFrees>>

\* serializeStartRunning: the compare copy, then the compare-and-swap, which
\* on failure refreshes the copy.
StartRunningLoad ==
  /\ At(Main, "incLoad")
  /\ snap' = [snap EXCEPT ![Main] = word[cur[Main]]]
  /\ Goto(Main, "incCas")
  /\ UNCHANGED <<convVars, sharedVars, owed, hungup, ready, ret, cur, wanted,
                 serving, saved, slhFrees>>

StartRunningSwap(swapped) ==
  /\ At(Main, "incCas")
  /\ LET c == cur[Main]
     IN  IF swapped
           THEN /\ word' = [word EXCEPT ![c] = [snap[Main] EXCEPT !.running = @ + 1]]
                /\ Goto(Main, "startTask")
                /\ UNCHANGED snap
           ELSE /\ snap' = [snap EXCEPT ![Main] = word[c]]
                /\ UNCHANGED <<word, pc>>
  /\ UNCHANGED <<convVars, working, queue, owed, hungup, ready, ret, cur, wanted,
                 serving, saved, slhFrees>>

StartRunningBlind == StartRunningSwap(TRUE)  \* faulty: a plain store
StartRunningCas == StartRunningSwap(word[cur[Main]] = snap[Main])

\* startHttpTask: the work element (conversation, request, response) is the
\* task's from here on.
StartTask(t) ==
  /\ At(Main, "startTask") /\ At(t, "idle")
  /\ pc' = [pc EXCEPT ![Main] = "drain", ![t] = "start"]
  /\ cur' = [cur EXCEPT ![Main] = NoConversation, ![t] = cur[Main]]
  /\ wanted' = [wanted EXCEPT ![Main] = NoService, ![t] = wanted[Main]]
  /\ UNCHANGED <<convVars, sharedVars, owed, hungup, ready, ret, serving, snap,
                 saved, slhFrees>>

-----------------------------------------------------------------------------
(* httpTaskMain: the subtask, up to the call of handleHttpService. *)

\* The service is called only if the conversation is still to be kept open.
TaskStart(t) ==
  /\ t \in Task /\ At(t, "start")
  /\ IF word[cur[t]].shouldClose
       THEN /\ ret' = [ret EXCEPT ![t] = "idle"]
            /\ Goto(t, "load")
       ELSE Goto(t, "call") /\ UNCHANGED ret
  /\ UNCHANGED <<convVars, sharedVars, owed, hungup, ready, cur, wanted, serving,
                 snap, saved, slhFrees>>

\* The service to call is read from the conversation, not from the element.
TaskCall(t) ==
  /\ t \in Task /\ At(t, "call")
  /\ serving' = [serving EXCEPT ![t] = pending[cur[t]]]
  /\ Goto(t, "serve")
  /\ UNCHANGED <<convVars, sharedVars, owed, hungup, ready, ret, cur, wanted,
                 snap, saved, slhFrees>>

-----------------------------------------------------------------------------
(* handleHttpService, by the main task or by a subtask. *)

\* Where an actor goes when handleHttpService returns: the main task back to
\* the queue, a subtask to serializeConsiderCloseEnqueue(conversation, TRUE).
ServiceReturns(a) ==
  /\ wanted' = [wanted EXCEPT ![a] = NoService]
  /\ serving' = [serving EXCEPT ![a] = NoService]
  /\ saved' = [saved EXCEPT ![a] = FALSE]
  /\ slhFrees' = [slhFrees EXCEPT ![a] = 0]
  /\ IF a = Main
       THEN /\ cur' = [cur EXCEPT ![a] = NoConversation]
            /\ Goto(a, "drain")
            /\ UNCHANGED ret
       ELSE /\ ret' = [ret EXCEPT ![a] = "idle"]
            /\ Goto(a, "load")
            /\ UNCHANGED cur

\* The keep-alive limit.
ServeCheck(a) ==
  /\ At(a, "serve")
  /\ Goto(a, IF requestCount[cur[a]] > KeepAliveMax THEN "failSave"
                                                    ELSE "running")
  /\ UNCHANGED <<convVars, sharedVars, owed, hungup, ready, ret, cur, wanted,
                 serving, snap, saved, slhFrees>>

\* The service writes its whole response and finishResponse clears
\* workingOnResponse.
FinishResponse(a) ==
  /\ At(a, "running")
  /\ working' = [working EXCEPT ![cur[a]] = FALSE]
  /\ Received(cur[a])
  /\ Goto(a, "finishing")
  /\ UNCHANGED <<convVars, word, queue, hungup, ready, ret, cur, wanted, serving,
                 snap, saved, slhFrees>>

\* ... and frees the heap that holds the response.
FreeResponse(a) ==
  /\ At(a, "finishing")
  /\ slhFrees' = [slhFrees EXCEPT ![a] = @ + 1]
  /\ Goto(a, "finished")
  /\ UNCHANGED <<convVars, sharedVars, owed, hungup, ready, ret, cur, wanted,
                 serving, snap, saved>>

ServiceDone(a) ==
  /\ At(a, "finished") \/ At(a, "failed")
  /\ ServiceReturns(a)
  /\ UNCHANGED <<convVars, sharedVars, owed, hungup, ready, snap>>

\* An abend in the service, or after its response was finished, is caught by
\* the recovery routine and leads to handleServiceFailed.
ServiceAbends(a) ==
  /\ \/ At(a, "running")
     \/ LateAbend /\ (At(a, "finishing") \/ At(a, "finished"))
  /\ Goto(a, "failSave")
  /\ UNCHANGED <<convVars, sharedVars, owed, hungup, ready, ret, cur, wanted,
                 serving, snap, saved, slhFrees>>

-----------------------------------------------------------------------------
(* handleServiceFailed, one access to the conversation per step. *)

FailSave(a) ==
  /\ At(a, "failSave")
  /\ saved' = [saved EXCEPT ![a] = working[cur[a]]]
  /\ Goto(a, "failClear")
  /\ UNCHANGED <<convVars, sharedVars, owed, hungup, ready, ret, cur, wanted,
                 serving, snap, slhFrees>>

FailClear(a) ==
  /\ At(a, "failClear")
  /\ working' = [working EXCEPT ![cur[a]] = FALSE]
  /\ Goto(a, "failClose")
  /\ UNCHANGED <<convVars, word, queue, owed, hungup, ready, ret, cur, wanted,
                 serving, snap, saved, slhFrees>>

FailClose(a) ==
  /\ At(a, "failClose")
  /\ word' = [word EXCEPT ![cur[a]].shouldClose = TRUE]
  /\ ret' = [ret EXCEPT ![a] = "failFree"]
  /\ Goto(a, "load")
  /\ UNCHANGED <<convVars, working, queue, owed, hungup, ready, cur, wanted,
                 serving, snap, saved, slhFrees>>

\* The response heap is freed if workingOnResponse said it was still in use.
FailFree(a) ==
  /\ At(a, "failFree")
  /\ slhFrees' = [slhFrees EXCEPT ![a] = IF saved[a] THEN @ + 1 ELSE @]
  /\ Goto(a, "failed")
  /\ UNCHANGED <<convVars, sharedVars, owed, hungup, ready, ret, cur, wanted,
                 serving, snap, saved>>

-----------------------------------------------------------------------------
(* serializeConsiderCloseEnqueue(conversation, subtaskTerm): called by the  *)
(* main task for a socket that is ready, by handleServiceFailed, and with   *)
(* subtaskTerm at the end of a subtask (ret = "idle").                      *)

\* Faulty: runningTasks is tested before it is decremented.
TestBeforeDecrement(w, subtaskTerm) ==
  [w EXCEPT !.running = IF subtaskTerm THEN @ - 1 ELSE @,
            !.considerClose = @ \/ (w.running = 0 /\ w.shouldClose)]

\* Faulty: runningTasks is decremented by every caller.
DecrementAlways(w, subtaskTerm) ==
  [w EXCEPT !.running = @ - 1,
            !.considerClose = @ \/ (w.running = 1 /\ w.shouldClose)]

\* The replacement copy for the compare copy w.
Replacement(w, subtaskTerm) ==
  LET left == IF subtaskTerm THEN w.running - 1 ELSE w.running
  IN  [w EXCEPT !.running = left,
                !.considerClose = @ \/ (left = 0 /\ w.shouldClose)]

SerializeReturns(a) ==
  /\ Goto(a, ret[a])
  /\ cur' = [cur EXCEPT ![a] = IF ret[a] = "failFree" THEN @ ELSE NoConversation]
  /\ snap' = [snap EXCEPT ![a] = ZeroWord]

SerializeLoad(a) ==
  /\ At(a, "load")
  /\ snap' = [snap EXCEPT ![a] = word[cur[a]]]
  /\ Goto(a, "cas")
  /\ UNCHANGED <<convVars, sharedVars, owed, hungup, ready, ret, cur, wanted,
                 serving, saved, slhFrees>>

\* No update is needed, or the compare-and-swap; on failure a fresh copy.
SerializeSwap(a, swapped) ==
  /\ At(a, "cas")
  /\ LET c == cur[a]
         new == Replacement(snap[a], ret[a] = "idle")
     IN  \/ /\ new = snap[a]
            /\ SerializeReturns(a)
            /\ UNCHANGED word
         \/ /\ new # snap[a] /\ swapped
            /\ word' = [word EXCEPT ![c] = new]
            /\ IF new.considerClose # snap[a].considerClose
                 THEN Goto(a, "enqueue") /\ UNCHANGED <<cur, snap>>
                 ELSE SerializeReturns(a)
         \/ /\ new # snap[a] /\ ~swapped
            /\ snap' = [snap EXCEPT ![a] = word[c]]
            /\ UNCHANGED <<word, pc, cur>>
  /\ UNCHANGED <<convVars, working, queue, owed, hungup, ready, ret, wanted,
                 serving, saved, slhFrees>>

SerializeBlind(a) == SerializeSwap(a, TRUE)  \* faulty: a plain store
SerializeCas(a) == SerializeSwap(a, word[cur[a]] = snap[a])

\* considerCloseEnqueued was changed: enqueue the work element.
SerializeEnqueue(a) ==
  /\ At(a, "enqueue")
  /\ Enqueue(cur[a], "consider")
  /\ SerializeReturns(a)
  /\ UNCHANGED <<convVars, word, working, owed, hungup, ready, ret, wanted,
                 serving, saved, slhFrees>>

-----------------------------------------------------------------------------
ServiceStep(a) ==
  \/ ServeCheck(a) \/ FinishResponse(a) \/ FreeResponse(a) \/ ServiceDone(a)
  \/ ServiceAbends(a)
  \/ FailSave(a) \/ FailClear(a) \/ FailClose(a) \/ FailFree(a)
  \/ SerializeLoad(a) \/ SerializeCas(a) \/ SerializeEnqueue(a)

TaskStep(t) == TaskStart(t) \/ TaskCall(t) \/ ServiceStep(t)

SocketStep ==
  \/ Select \/ SocketsDone \/ ReadFails
  \/ \E c \in Conversation :
       AcceptConversation(c) \/ PeerReadClosing(c) \/ PeerReadOpen(c)
  \/ \E n \in 0..MaxPerFragment : \E rs \in [1..n -> Request], ok \in BOOLEAN :
       ReadFragment(rs, ok)

QueueStep ==
  \/ DrainDone \/ ErrorReply \/ NotFoundReply
  \/ Dispatch \/ StartRunningLoad \/ StartRunningCas
  \/ \E t \in Task : StartTask(t)
  \/ \E c \in Conversation :
       \/ ConsiderClose(c) \/ CloseAbandoned(c) \/ CloseConversation(c)
       \/ StartNothing(c) \/ StartError(c) \/ StartRequest(c)

MainStep == SocketStep \/ QueueStep \/ ServiceStep(Main)

Next ==
  \/ MainStep
  \/ \E t \in Task : TaskStep(t)
  \/ \E c \in Conversation : PeerHangup(c)

Spec == Init /\ [][Next]_vars

\* The main loop and every subtask are dispatched by the operating system as
\* long as they have something to do, and services terminate.
FairSpec == Spec /\ WF_vars(MainStep) /\ \A t \in Task : WF_vars(TaskStep(t))

-----------------------------------------------------------------------------
(* Properties *)

\* Types of the variables; runningTasks never goes below zero.
TypeOK ==
  /\ life \in [Conversation -> {"unused", "open", "freed"}]
  /\ word \in [Conversation -> Word]
  /\ registered \in [Conversation -> BOOLEAN]
  /\ shouldError \in [Conversation -> BOOLEAN]
  /\ requests \in [Conversation -> Seq(Request)]
  /\ working \in [Conversation -> BOOLEAN]
  /\ pending \in [Conversation -> Service \cup {NoService}]
  /\ requestCount \in [Conversation -> Nat]
  /\ owed \in [Conversation -> Nat]
  /\ hungup \in [Conversation -> BOOLEAN]
  /\ ready \subseteq Conversation
  /\ queue \in Seq(Element)
  /\ pc \in [Actor -> MainPC \cup ServicePC \cup SerializePC \cup TaskPC]
  /\ ret \in [Actor -> {"idle", "sockets", "failFree"}]
  /\ cur \in [Actor -> Conversation \cup {NoConversation}]
  /\ wanted \in [Actor -> Service \cup {NoService}]
  /\ serving \in [Actor -> Service \cup {NoService}]
  /\ snap \in [Actor -> Word]
  /\ saved \in [Actor -> BOOLEAN]
  /\ slhFrees \in [Actor -> Nat]

\* The subtasks of c that still have to decrement runningTasks.
Running(c) ==
  {t \in Task : cur[t] = c /\ ~(pc[t] = "enqueue" /\ ret[t] = "idle")}

\* h/httpserver.h:343: runningTasks is the number of subtasks that still use
\* the conversation, whatever increments and decrements race; one more while
\* the main task is about to start the task it counted.
RunningTasksExact ==
  \A c \in Conversation : life[c] = "open" =>
    word[c].running = Cardinality(Running(c))
                      + (IF pc[Main] = "startTask" /\ cur[Main] = c THEN 1 ELSE 0)

\* c/httpserver.c:6121-6240: when the conversation block is freed no task is
\* at work on it and no work element that refers to it is left in the queue.
NoUseAfterFree ==
  /\ \A a \in Actor : cur[a] # NoConversation => life[cur[a]] = "open"
  /\ \A i \in DOMAIN queue : life[queue[i].conv] = "open"

CloseRequest(i) == queue[i].code # "start"

\* h/httpserver.h:339-342 and c/httpserver.c:6105: of all the tasks that notice
\* the conversation should close, one enqueues the request, once: never two
\* close requests of a conversation on their way.
OneCloseInFlight ==
  /\ \A i, j \in DOMAIN queue :
       CloseRequest(i) /\ CloseRequest(j) /\ queue[i].conv = queue[j].conv => i = j
  /\ \A a, b \in Actor :
       pc[a] = "enqueue" /\ pc[b] = "enqueue" /\ cur[a] = cur[b] => a = b
  /\ \A i \in DOMAIN queue, a \in Actor :
       ~(CloseRequest(i) /\ pc[a] = "enqueue" /\ queue[i].conv = cur[a])

\* h/httpserver.h:335-342: "Once set to TRUE it must never be reset", although
\* every compare-and-swap stores a whole word prepared from an older copy.
FlagsStick ==
  [][\A c \in Conversation : life'[c] = "open" =>
       /\ word[c].shouldClose => word'[c].shouldClose
       /\ word[c].considerClose => word'[c].considerClose
       /\ word[c].closeEnqueued => word'[c].closeEnqueued]_vars

\* c/httpserver.c:3585-3594: the response heap is freed at most once, by
\* finishResponse or by the cleanup after an abend.
NoDoubleFree == \A a \in Actor : slhFrees[a] <= 1

\* c/httpserver.c:5587, h/httpserver.h:406 ("set if working on response"): a
\* request is served by the service its URI was routed to.
RightService == \A a \in Actor : serving[a] \in {NoService, wanted[a]}

\* What holds of it whatever the client does: handleHttpService is called with
\* another service only in a subtask (c/httpserver.c:5411), and only once the
\* main task has taken a further request of the same connection.
MissedOnlyIfOvertaken ==
  \A a \in Actor :
    pc[a] \in {"serve", "running", "finishing", "finished"} /\ serving[a] # wanted[a] =>
      a \in Task /\ requestCount[cur[a]] > 1

\* h/httpserver.h:343-345: "a concurrent change to shouldClose will be
\* recognized and handled": a connection whose client is gone is closed and
\* its storage freed.
HangupLeadsToFree ==
  \A c \in Conversation : hungup[c] ~> life[c] = "freed"

-----------------------------------------------------------------------------
(* The inductive invariant behind RunningTasksExact, NoUseAfterFree and      *)
(* OneCloseInFlight.                                                         *)

\* Where an actor can be, and when it holds a conversation.
TaskPlaces ==
  \A t \in Task :
    /\ pc[t] \in ServicePC \cup SerializePC \cup TaskPC
    /\ cur[t] = NoConversation <=> pc[t] = "idle"
    /\ pc[t] \in SerializePC => ret[t] \in {"idle", "failFree"}
MainPlaces ==
  /\ pc[Main] \in MainPC \cup ServicePC \cup SerializePC
  /\ cur[Main] = NoConversation <=> pc[Main] \in {"select", "sockets", "drain"}
  /\ pc[Main] \in SerializePC => ret[Main] \in {"sockets", "failFree"}

\* A block that is not in use is in its initial state.
UnusedIsZero ==
  \A c \in Conversation : life[c] # "open" => word[c] = ZeroWord

\* A close request is on its way only when considerCloseEnqueued is set.
CloseIsConsidered ==
  /\ \A i \in DOMAIN queue : CloseRequest(i) => word[queue[i].conv].considerClose
  /\ \A a \in Actor : pc[a] = "enqueue" => word[cur[a]].considerClose

\* The main task handles the sockets only after it has drained the queue: no
\* CLOSE is left, so nothing is queued behind one.
InSocketPass ==
  \/ pc[Main] \in {"select", "sockets", "read"}
  \/ pc[Main] \in SerializePC /\ ret[Main] = "sockets"
CloseIsLast ==
  /\ \A i \in DOMAIN queue :
       queue[i].code = "close" =>
         /\ ~InSocketPass
         /\ \A j \in DOMAIN queue : queue[j].conv = queue[i].conv => j <= i

IInv ==
  /\ TypeOK
  /\ TaskPlaces
  /\ MainPlaces
  /\ UnusedIsZero
  /\ RunningTasksExact
  /\ NoUseAfterFree
  /\ OneCloseInFlight
  /\ CloseIsConsidered
  /\ CloseIsLast
=============================================================================
