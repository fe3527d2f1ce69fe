----------------------------- MODULE MCWorkQueue -----------------------------
(* Small instances of WorkQueue: one for each kind of serialization, chosen *)
(* by the first state.                                                      *)
EXTENDS WorkQueue, TLC

VARIABLE kind

Tx == INSTANCE WorkQueue WITH Serialization <- "tx"
Mutex == INSTANCE WorkQueue WITH Serialization <- "mutex"

MCInit == Init /\ kind \in {"plo", "tx", "mutex"}

MCNext ==
  /\ \/ kind = "plo" /\ Next
     \/ kind = "tx" /\ Tx!Next
     \/ kind = "mutex" /\ Mutex!Next
  /\ UNCHANGED kind

MCSpec == MCInit /\ [][MCNext]_<<vars, kind>>

\* The inductive invariant of WorkQueueProofs, for the kind at hand: a copy of
\* the counter that still compares equal was not overtaken, and what the thread
\* has read since is true.
QInvOfKind ==
  /\ kind = "plo" => QInv
  /\ kind = "tx" => Tx!QInv
  /\ kind = "mutex" => Mutex!QInv

\* Threads, elements and values are only compared for equality.
Symmetry == Permutations(Thread) \cup Permutations(Block) \cup Permutations(Value)
=============================================================================
