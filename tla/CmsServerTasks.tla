--------------------------- MODULE CmsServerTasks ---------------------------
(***************************************************************************)
(* What runs inside a started cross-memory server (c/crossmemory.c): the   *)
(* callers of its log and dump services, which put messages on its queue   *)
(* from their own units of work; the main task, which flushes the queue in *)
(* its background handler; the console task and the tasks it starts for    *)
(* MODIFY commands, one of which, FLUSH, empties the same queue; and the   *)
(* two pools the message elements come from.                               *)
(*                                                                         *)
(* A message stands for the call that brings it.  The queue itself is      *)
(* WorkQueue's, used here as a queue.                                      *)
(***************************************************************************)
EXTENDS Integers, Sequences, FiniteSets

CONSTANTS
    Msgs,           \* the messages given to the log and dump services
    Commands,       \* the MODIFY commands
    NoMsg,          \* no message, in the hand of a task that flushes
    Main,           \* the main task
    MaxTasks,       \* CROSS_MEMORY_SERVER_MAX_CMD_TASK_NUM
    MainCells,      \* cells the main pool has before it cannot be extended
    FallbackCells   \* cells of the fallback pool

ASSUME TasksAssumption ==
    /\ IsFiniteSet(Commands)
    /\ Main \notin Commands
    /\ NoMsg \notin Msgs
    /\ MaxTasks \in Nat \ {0}
    /\ MainCells \in Nat /\ FallbackCells \in Nat

VARIABLES
    term,       \* TERM_STARTED of the server's flags
    looping,    \* the main task is in stcBaseMainLoop
    traced,     \* the components whose log level is INFO at least
    queue,      \* the message queue
    hand,       \* the element each flushing task has dequeued
    cell,       \* the pool the element of each message was taken from, or "none"
    call,       \* where the call that brings each message is
    freed,      \* the messages taken from the queue whose elements are free again
    printed,    \* those of them that were printed
    command,    \* where each command is
    count       \* commandTaskCount

taskVars == <<term, looping, traced, queue, hand, cell, call, freed, printed, command, count>>
messageVars == <<queue, hand, cell, call, freed, printed>>

\* CMSPC is a subcomponent of CMS: its messages are traced if either's level allows.
Components == {"CMS", "CMSPC"}

TasksInit ==
    /\ term = FALSE
    /\ looping = TRUE
    /\ traced = Components
    /\ queue = <<>>
    /\ hand = [t \in Commands \cup {Main} |-> NoMsg]
    /\ cell = [m \in Msgs |-> "none"]
    /\ call = [m \in Msgs |-> "new"]
    /\ freed = {}
    /\ printed = {}
    /\ command = [k \in Commands |-> "none"]
    /\ count = 0

-----------------------------------------------------------------------------
(* handleLogService and handleDumpService.                                 *)

Taken(pool) == Cardinality({m \in Msgs : cell[m] = pool})

Take(m, pool) ==
    /\ cell' = [cell EXCEPT ![m] = pool]
    /\ call' = [call EXCEPT ![m] = "holding"]

\* Faulty: a cell of a full pool is taken all the same.
AllocateAnyElement(m) ==
    /\ call[m] = "new"
    /\ call' = [call EXCEPT ![m] = "holding"]
    /\ UNCHANGED <<term, looping, traced, queue, hand, cell, freed, printed, command, count>>

\* allocateMsgQueueElement: the main pool; when that is short, a caller that
\* holds a lock asked conditionally and gets a cell of the fallback pool, if
\* there is one; for any other CPOOL abends, which is recovered.
AllocateElement(m) ==
    /\ call[m] = "new"
    /\ \/ Taken("main") < MainCells /\ Take(m, "main")
       \/ /\ Taken("main") >= MainCells
          /\ Taken("fallback") < FallbackCells
          /\ Take(m, "fallback")
       \/ /\ Taken("main") >= MainCells
          /\ call' = [call EXCEPT ![m] = "refused"]
          /\ UNCHANGED cell
    /\ UNCHANGED <<term, looping, traced, queue, hand, freed, printed, command, count>>

\* The element is filled and enqueued; the caller gets RC_CMS_OK.
EnqueueMessage(m) ==
    /\ call[m] = "holding"
    /\ queue' = Append(queue, m)
    /\ call' = [call EXCEPT ![m] = "ok"]
    /\ UNCHANGED <<term, looping, traced, hand, cell, freed, printed, command, count>>

-----------------------------------------------------------------------------
(* flushDebugMessages, in task t: what it does to the messages.            *)

Next1 == IF queue = <<>> THEN NoMsg ELSE Head(queue)
Rest == IF queue = <<>> THEN queue ELSE Tail(queue)

Dequeue(t) ==
    /\ hand' = [hand EXCEPT ![t] = Next1]
    /\ queue' = Rest
    /\ UNCHANGED <<cell, call, freed, printed>>

ShouldTrace == traced # {}

\* Printed only if the level is INFO or more detailed, but freed in any case.
Flushed(t) ==
    /\ printed' = IF ShouldTrace THEN printed \cup {hand[t]} ELSE printed
    /\ freed' = freed \cup {hand[t]}
    /\ cell' = [cell EXCEPT ![hand[t]] = "none"]
    /\ UNCHANGED call

\* Faulty: the test of the flag is the loop's condition upside down.
PrintLeavingEarly(t) ==
    /\ Flushed(t)
    /\ queue' = Rest
    /\ hand' = [hand EXCEPT ![t] = IF term THEN Next1 ELSE NoMsg]

\* The element is put away and the next is dequeued; in a server that is
\* terminating the loop is left, with that next element in hand.
PrintNext(t) ==
    /\ Flushed(t)
    /\ queue' = Rest
    /\ hand' = [hand EXCEPT ![t] = IF term THEN NoMsg ELSE Next1]

-----------------------------------------------------------------------------
(* The main task.                                                          *)

\* backgroundHandler, every time the main loop has waited.
Background ==
    /\ looping
    /\ hand[Main] = NoMsg
    /\ queue # <<>>
    /\ Dequeue(Main)
    /\ UNCHANGED <<term, looping, traced, command, count>>

BackgroundPrint ==
    /\ hand[Main] # NoMsg
    /\ PrintNext(Main)
    /\ UNCHANGED <<term, looping, traced, command, count>>

\* The main loop ends, because of the STOP command or of an error.
MainLoopEnds ==
    /\ looping
    /\ hand[Main] = NoMsg
    /\ looping' = FALSE
    /\ UNCHANGED <<term, traced, messageVars, command, count>>

-----------------------------------------------------------------------------
(* The console task: handleModifyCommand.                                  *)

\* STOP.
StopCommand ==
    /\ looping
    /\ ~term
    /\ term' = TRUE
    /\ UNCHANGED <<looping, traced, messageVars, command, count>>

At(k, to) == command' = [command EXCEPT ![k] = to]

\* handleCommandAsynchronously: refused when the server is busy or has no
\* storage, else given to a task of its own.
ModifyCommand(k) ==
    /\ command[k] = "none"
    /\ looping
    /\ \/ count < MaxTasks /\ At(k, "attached")
       \/ At(k, "rejected")
    /\ UNCHANGED <<term, looping, traced, messageVars, count>>

-----------------------------------------------------------------------------
(* The tasks of the commands: commandTaskHandler.                          *)

\* Faulty: the task is counted when it is over.
BeginUncounted(k) ==
    /\ command[k] = "attached"
    /\ \/ At(k, "target")
       \/ At(k, "flush")
       \/ At(k, "log")
       \/ At(k, "ending")
    /\ UNCHANGED <<term, looping, traced, messageVars, count>>

\* The task counts itself, then tells a command for a target (the user
\* callback's) from its own: FLUSH, LOG, and others that keep no state, or one
\* that is refused.
BeginTask(k) ==
    /\ command[k] = "attached"
    /\ count' = count + 1
    /\ \/ At(k, "target")
       \/ At(k, "flush")
       \/ At(k, "log")
       \/ At(k, "ending")
    /\ UNCHANGED <<term, looping, traced, messageVars>>

\* passCommandToUserCallback: the limit is tested again, this task included.
PassToCallback(k) ==
    /\ command[k] = "target"
    /\ At(k, IF count >= MaxTasks THEN "ending" ELSE "callback")
    /\ UNCHANGED <<term, looping, traced, messageVars, count>>

\* The callback returns, or abends and is recovered.
CallbackEnds(k) ==
    /\ command[k] = "callback"
    /\ At(k, "ending")
    /\ UNCHANGED <<term, looping, traced, messageVars, count>>

\* handleCommandVerbFlush: flushDebugMessages in this task.
FlushCommand(k) ==
    /\ command[k] = "flush"
    /\ Dequeue(k)
    /\ At(k, IF queue = <<>> THEN "ending" ELSE "flushing")
    /\ UNCHANGED <<term, looping, traced, count>>

FlushPrint(k) ==
    /\ command[k] = "flushing"
    /\ PrintNext(k)
    /\ At(k, IF hand'[k] = NoMsg THEN "ending" ELSE "flushing")
    /\ UNCHANGED <<term, looping, traced, count>>

\* handleCommandVerbLog: the level of a component is set; of STC's, nothing here depends.
ChangeLevel(k) ==
    /\ command[k] = "log"
    /\ \E component \in Components : traced' \in {traced \cup {component}, traced \ {component}}
    /\ At(k, "ending")
    /\ UNCHANGED <<term, looping, messageVars, count>>

EndCommandTask(k) ==
    /\ command[k] = "ending"
    /\ count' = count - 1
    /\ At(k, "over")
    /\ UNCHANGED <<term, looping, traced, messageVars>>

CommandTask(k) ==
    \/ BeginTask(k) \/ PassToCallback(k) \/ CallbackEnds(k) \/ FlushCommand(k) \/ FlushPrint(k)
    \/ ChangeLevel(k) \/ EndCommandTask(k)

TasksNext ==
    \/ \E m \in Msgs : AllocateElement(m) \/ EnqueueMessage(m)
    \/ Background \/ BackgroundPrint \/ MainLoopEnds \/ StopCommand
    \/ \E k \in Commands : ModifyCommand(k) \/ CommandTask(k)

\* The main task goes on, its wait ends at the latest after ten seconds; a task
\* that was started for a command runs.  A callback may take for ever.
TasksFairness ==
    /\ WF_taskVars(Background)
    /\ WF_taskVars(BackgroundPrint)
    /\ \A k \in Commands : WF_taskVars(FlushPrint(k))

TasksSpec == TasksInit /\ [][TasksNext]_taskVars /\ TasksFairness

-----------------------------------------------------------------------------
(* Properties.                                                             *)

\* The places where the element of a message is.
Places(m) ==
    {<<"queue", i>> : i \in {j \in 1..Len(queue) : queue[j] = m}}
    \cup {<<"hand", t>> : t \in {u \in Commands \cup {Main} : hand[u] = m}}
    \cup {<<"caller", c>> : c \in {m} \cap {d \in Msgs : call[d] = "holding"}}

\* Until the server is told to terminate, an element taken from a pool is in
\* exactly one place, with the main task and FLUSH commands emptying the queue
\* at once and callers short of storage: none is lost, none is freed twice.
MessagesAccounted ==
    \A m \in Msgs :
        /\ ~term => Cardinality(Places(m)) = (IF cell[m] = "none" THEN 0 ELSE 1)
        /\ Cardinality(Places(m)) <= 1
        /\ m \in freed => Places(m) = {}

\* The test of the limit in the task comes after the task has counted itself,
\* so fewer than MaxTasks callbacks run at once, however many tasks the console
\* has let through on a count that was not up to date.
CallbacksBounded == Cardinality({k \in Commands : command[k] = "callback"}) < MaxTasks

\* A message whose caller was told OK is taken from the queue and freed, unless
\* the server terminates; and it is printed, if from some time before it is freed
\* MODIFY LOG does not leave both components below INFO (flushDebugMessages,
\* c/crossmemory.c:3573-3606).
LoggedIsPrinted ==
    \A m \in Msgs :
        /\ call[m] = "ok" ~> (m \in freed \/ term \/ ~looping)
        /\ []((call[m] = "ok" /\ m \notin freed /\ []ShouldTrace) =>
                  <>(m \in printed \/ term \/ ~looping))
=============================================================================
