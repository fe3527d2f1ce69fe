------------------------------ MODULE FifoQueue ------------------------------
(***************************************************************************)
(* What the queues of c/collections.c promise to their callers: a first-in *)
(* first-out queue whose operations take effect at one instant between     *)
(* call and return, whatever the number of concurrent callers.             *)
(***************************************************************************)
EXTENDS Sequences

CONSTANTS Thread, Value, Nothing   \* Nothing: the NULL result of an empty queue

VARIABLES
  items,    \* the queued values, oldest first
  call      \* per thread: its operation

vars == <<items, call>>

Idle == [op |-> "none", val |-> Nothing]

Init == items = <<>> /\ call = [t \in Thread |-> Idle]

CallInsert(t, v) ==
  /\ call[t] = Idle
  /\ call' = [call EXCEPT ![t] = [op |-> "insert", val |-> v]]
  /\ UNCHANGED items

CallRemove(t) ==
  /\ call[t] = Idle
  /\ call' = [call EXCEPT ![t] = [op |-> "remove", val |-> Nothing]]
  /\ UNCHANGED items

\* The instant at which an operation takes effect.
Insert(t) ==
  /\ call[t].op = "insert"
  /\ items' = Append(items, call[t].val)
  /\ call' = [call EXCEPT ![t] = Idle]

Remove(t) ==
  /\ call[t].op = "remove" /\ items # <<>>
  /\ items' = Tail(items)
  /\ call' = [call EXCEPT ![t] = [op |-> "return", val |-> Head(items)]]

RemoveNothing(t) ==
  /\ call[t].op = "remove" /\ items = <<>>
  /\ call' = [call EXCEPT ![t] = [op |-> "return", val |-> Nothing]]
  /\ UNCHANGED items

Return(t) ==
  /\ call[t].op = "return"
  /\ call' = [call EXCEPT ![t] = Idle]
  /\ UNCHANGED items

Next ==
  \E t \in Thread :
    \/ \E v \in Value : CallInsert(t, v)
    \/ CallRemove(t) \/ Insert(t) \/ Remove(t) \/ RemoveNothing(t) \/ Return(t)

Spec == Init /\ [][Next]_vars
=============================================================================
