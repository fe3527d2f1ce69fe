------------------------------ MODULE Recovery ------------------------------
(***************************************************************************)
(* The recovery states of a thread (c/recovery.c, h/recovery.h): the chain *)
(* that recoveryPush and recoveryPop keep, and the router that an abend or *)
(* a signal enters, which calls the analysis and clean-up functions of the *)
(* states and resumes at the push of a state that is to retry.             *)
(*                                                                         *)
(* The router is the signal handler of AIX and Linux, where a function it  *)
(* calls may itself be interrupted by another signal; the exit routine of  *)
(* z/OS goes through the same steps and is not entered again meanwhile.    *)
(* The program brackets code as h/recovery.h asks: push, body, pop, and no *)
(* pop after a retry that has deleted the state.                           *)
(***************************************************************************)
EXTENDS Integers, Sequences, SequencesExt, FiniteSets

CONSTANTS
    Signals,    \* the signals handled, SIGSEGV and the others
    Flags,      \* the sets of flags states are pushed with
    MaxPushes,  \* bound: states pushed
    MaxAbends   \* bound: signals raised

VARIABLES
    stack,      \* the stack of the thread: blocks of the program between push and pop,
                \* and calls of the router
    chain,      \* recoveryStateChain, latest state first
    pushes,     \* the number of states pushed
    abends,     \* the number of signals raised
    dead,       \* the process has ended
    cleaned,    \* the clean-up functions called: which state's, in which call of the router
    spared,     \* states the router found disabled by the program, or whose function failed
    unwound     \* blocks that control has left by a retry further out

recoveryVars == <<stack, chain, pushes, abends, dead, cleaned, spared, unwound>>

RecoveryInit ==
    /\ stack = <<>> /\ chain = <<>> /\ pushes = 0 /\ abends = 0 /\ dead = FALSE
    /\ cleaned = <<>> /\ spared = {} /\ unwound = {}

\* The ids of states, or of the states whose clean-up functions were called.
Ids(states) == {states[i].id : i \in 1..Len(states)}

IsBlock(f) == f.kind = "block"
IsRouter(f) == f.kind = "router"
Top == Last(stack)

\* The signals blocked where the thread is: those whose handler is running.
Blocked == IF stack = <<>> THEN {} ELSE Top.mask

\* getLatestState.
Latest == Head(chain)

-----------------------------------------------------------------------------
(* The program.  It also runs inside analysis and clean-up functions.      *)

\* recoveryPush, whose sigsetjmp keeps the signal mask.
Push(flags) ==
    /\ ~dead /\ pushes < MaxPushes
    /\ pushes' = pushes + 1
    /\ chain' = <<[id |-> pushes', flags |-> flags, enabled |-> "DISABLE" \notin flags,
                   abended |-> FALSE]>> \o chain
    /\ stack' = Append(stack, [kind |-> "block", id |-> pushes', flags |-> flags,
                               recovered |-> FALSE, mask |-> Blocked])
    /\ UNCHANGED <<abends, dead, cleaned, spared, unwound>>

HasState(block) == ~(block.recovered /\ "DELETE_ON_RETRY" \in block.flags)

\* recoveryPop: removeRecoveryStateEntry.
Pop ==
    /\ ~dead /\ stack # <<>> /\ IsBlock(Top)
    /\ chain' = IF HasState(Top) /\ chain # <<>> THEN Tail(chain) ELSE chain
    /\ stack' = Front(stack)
    /\ UNCHANGED <<pushes, abends, dead, cleaned, spared, unwound>>

\* The block or function that runs has a state of its own to change.
OwnState == ~dead /\ stack # <<>> /\ chain # <<>> /\ (IsBlock(Top) => HasState(Top))

\* recoverySetFlagValue(RCVR_FLAG_RETRY), by which an analysis function decides.
SetRetry(value) ==
    /\ OwnState
    /\ chain' = [chain EXCEPT ![1].flags = IF value THEN @ \cup {"RETRY"} ELSE @ \ {"RETRY"}]
    /\ UNCHANGED <<stack, pushes, abends, dead, cleaned, spared, unwound>>

\* recoveryEnableCurrentState and recoveryDisableCurrentState, in a block.
SetEnabled(value) ==
    /\ OwnState /\ IsBlock(Top)
    /\ chain' = [chain EXCEPT ![1].enabled = value]
    /\ UNCHANGED <<stack, pushes, abends, dead, cleaned, spared, unwound>>

-----------------------------------------------------------------------------
(* The router.                                                             *)

\* The states that are not enabled are removed until one is.
FromEnabled(states) ==
    LET enabled == {i \in 1..Len(states) : states[i].enabled}
    IN IF enabled = {} THEN <<>>
       ELSE SubSeq(states, CHOOSE i \in enabled : \A j \in enabled : i <= j, Len(states))

\* Those of them the program had disabled, or that failed in a function of theirs.
Removed(states) == Ids(SubSeq(states, 1, Len(states) - Len(FromEnabled(states))))

\* The loop of handleSignals from states on, under the frames of calls: the
\* first enabled state is disabled, marked abended and its analysis function
\* is called; without one the process aborts.
Route(calls, frame, states) ==
    LET rest == FromEnabled(states)
    IN /\ spared' = spared \cup (Removed(states) \ Ids(cleaned'))
       /\ dead' = (rest = <<>>)
       /\ IF rest = <<>> THEN chain' = <<>> /\ stack' = calls
          ELSE /\ chain' = [rest EXCEPT ![1].enabled = FALSE, ![1].abended = TRUE]
               /\ stack' = Append(calls, [frame EXCEPT !.current = rest[1].id,
                                                       !.next = Tail(rest),
                                                       !.at = "analysis"])

\* A signal of the program.  One that is blocked ends the process.
Abend(signal) ==
    /\ ~dead /\ abends < MaxAbends
    /\ abends' = abends + 1
    /\ UNCHANGED <<pushes, cleaned, unwound>>
    /\ IF signal \in Blocked THEN dead' = TRUE /\ UNCHANGED <<stack, chain, spared>>
       ELSE Route(stack, [kind |-> "router", number |-> abends', mask |-> Blocked \cup {signal},
                          current |-> 0, next |-> <<>>, at |-> ""], chain)

\* The analysis function returns, and the clean-up function is called.
AnalysisReturns ==
    /\ ~dead /\ stack # <<>> /\ IsRouter(Top) /\ Top.at = "analysis"
    /\ stack' = [stack EXCEPT ![Len(stack)].at = "cleanup"]
    /\ cleaned' = Append(cleaned, [id |-> Top.current, number |-> Top.number])
    /\ UNCHANGED <<chain, pushes, abends, dead, spared, unwound>>

State(id) == chain[CHOOSE i \in 1..Len(chain) : chain[i].id = id]

\* Faulty: the push leaves the state in the chain whatever its flags.
RetryInPlace ==
    LET block == CHOOSE i \in 1..Len(stack) : IsBlock(stack[i]) /\ stack[i].id = Top.current
    IN /\ ~dead /\ stack # <<>> /\ IsRouter(Top) /\ Top.at = "cleanup"
       /\ "RETRY" \in State(Top.current).flags
       /\ stack' = [SubSeq(stack, 1, block) EXCEPT ![block].recovered = TRUE]
       /\ UNCHANGED <<chain, pushes, abends, dead, cleaned, spared, unwound>>

\* The clean-up function returns.  The state retries: siglongjmp to its push,
\* which removes the latest state if it has RCVR_FLAG_DELETE_ON_RETRY.
Retry ==
    LET block == CHOOSE i \in 1..Len(stack) : IsBlock(stack[i]) /\ stack[i].id = Top.current
        cut == {stack[i].id : i \in {i \in (block + 1)..Len(stack) : IsBlock(stack[i])}}
    IN /\ ~dead /\ stack # <<>> /\ IsRouter(Top) /\ Top.at = "cleanup"
       /\ "RETRY" \in State(Top.current).flags
       /\ stack' = [SubSeq(stack, 1, block) EXCEPT ![block].recovered = TRUE]
       /\ chain' = IF "DELETE_ON_RETRY" \in Latest.flags THEN Tail(chain) ELSE chain
       /\ unwound' = unwound \cup cut
       /\ UNCHANGED <<pushes, abends, dead, cleaned, spared>>

\* Faulty: the loop advances twice.
GiveUpAdvancingTwice ==
    /\ ~dead /\ stack # <<>> /\ IsRouter(Top) /\ Top.at = "cleanup"
    /\ "RETRY" \notin State(Top.current).flags
    /\ UNCHANGED <<pushes, abends, cleaned, unwound>>
    /\ Route(Front(stack), Top, IF Len(Top.next) > 1 THEN Tail(Top.next) ELSE Top.next)

\* Or it does not: the router goes on with the state that was next before the
\* functions were called.
GiveUp ==
    /\ ~dead /\ stack # <<>> /\ IsRouter(Top) /\ Top.at = "cleanup"
    /\ "RETRY" \notin State(Top.current).flags
    /\ UNCHANGED <<pushes, abends, cleaned, unwound>>
    /\ Route(Front(stack), Top, Top.next)

RecoveryNext ==
    \/ \E flags \in Flags : Push(flags)
    \/ Pop
    \/ \E value \in BOOLEAN : SetRetry(value) \/ SetEnabled(value)
    \/ \E signal \in Signals : Abend(signal)
    \/ AnalysisReturns \/ Retry \/ GiveUp

RecoverySpec == RecoveryInit /\ [][RecoveryNext]_recoveryVars

-----------------------------------------------------------------------------
(* What the program relies on.                                             *)

\* The states the program means to have where it is: those of the blocks it is
\* in; in a function of a state the router works on, those of that function's
\* blocks, the state itself and the states further out.
Open ==
    LET open == {k \in 1..Len(stack) :
                    /\ IsBlock(stack[k]) /\ HasState(stack[k])
                    /\ \A r \in (k + 1)..Len(stack) :
                          IsRouter(stack[r]) => stack[k].id <= stack[r].current}
    IN {stack[k].id : k \in open}

\* Wherever the program runs, in a block, after a retry or in a function the
\* router calls, the chain has exactly the states of the blocks it is in, latest
\* first: no state of a block that has been left, where a retry would resume,
\* none lost, and the latest is the one that recoverySetFlagValue and
\* recoveryPop mean.
ChainIsOpenBlocks ==
    ~dead => /\ \A i, j \in 1..Len(chain) : i < j => chain[i].id > chain[j].id
             /\ Ids(chain) = Open

\* Each call of the router cleans up innermost states first and none twice, and
\* control leaves no block for a retry further out before its clean-up function
\* has been called, but for those disabled by the program or with a function
\* that failed.
CleanedInOrder ==
    /\ \A i, j \in 1..Len(cleaned) :
           i < j /\ cleaned[i].number = cleaned[j].number => cleaned[i].id > cleaned[j].id
    /\ unwound \subseteq spared \cup Ids(cleaned)
=============================================================================
