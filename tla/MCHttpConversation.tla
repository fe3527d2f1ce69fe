------------------------- MODULE MCHttpConversation -------------------------
(* TLC instances of HttpConversation.                                         *)
EXTENDS HttpConversation

VARIABLE
  waits   \* whether the client of this behaviour waits for each response before
          \* it sends more, and no service abends once it has finished one

\* What does not happen in such a behaviour.
Early == At(Main, "read") /\ queue' # queue
         /\ (owed[cur[Main]] > 0 \/ Len(requests'[cur[Main]]) > 1)
AbendsLate == \E a \in Actor : pc[a] \in {"finishing", "finished"} /\ pc'[a] = "failSave"

WaitingInit == Init /\ waits \in BOOLEAN

WaitingNext == Next /\ (waits => ~Early /\ ~AbendsLate) /\ UNCHANGED waits

WaitingSpec ==
  /\ WaitingInit
  /\ [][WaitingNext]_<<vars, waits>>
  /\ WF_vars(MainStep) /\ \A t \in Task : WF_vars(TaskStep(t))

\* A client that waits reaches the service its request was routed to
\* (c/httpserver.c:5411-5412, pendingService).
RightServiceWaiting == waits => RightService

\* The conversation of a client that has waited and is gone is closed, and its
\* storage freed (h/httpserver.h:343-345).
HangupOfWaiting == \A c \in Conversation : waits /\ hungup[c] ~> life[c] = "freed"
=============================================================================
