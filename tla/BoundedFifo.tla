---------------------------- MODULE BoundedFifo ----------------------------
(***************************************************************************)
(* What the response queue of the server promises its callers: a bounded   *)
(* first-in first-out queue that can be closed.  A call takes effect at    *)
(* one instant between the call and its return, a push is refused only     *)
(* when the queue is full, and a pop fails only when the queue is both     *)
(* empty and closed.  There is no mutex, no index and no counter here:     *)
(* ResponseQueue is shown to implement this module.                        *)
(***************************************************************************)
EXTENDS Naturals, Sequences

CONSTANTS Capacity,    \* RESPONSE_QUEUE_CAPACITY
          Records,     \* the response records that can be queued
          NoRecord,    \* the zeroed contents of an unused response_record_t
          Producers,   \* threads that call response_queue_push
          Consumers    \* threads that call response_queue_pop

VARIABLES queue,       \* the records held, oldest first
          closed,      \* shutdown was requested
          rec,         \* each caller's record: argument of push, result of pop
          status       \* what each caller's last call returned

vars == <<queue, closed, rec, status>>

Callers == Producers \cup Consumers

Init == /\ queue = <<>>
        /\ closed = FALSE
        /\ rec = [t \in Callers |-> NoRecord]
        /\ status = [t \in Callers |-> "none"]

\* A producer calls push with a record of its own.
CallPush(p) == /\ status[p] # "pending"
               /\ status' = [status EXCEPT ![p] = "pending"]
               /\ \E r \in Records : rec' = [rec EXCEPT ![p] = r]
               /\ UNCHANGED <<queue, closed>>

CallPop(c) == /\ status[c] # "pending"
              /\ status' = [status EXCEPT ![c] = "pending"]
              /\ UNCHANGED <<queue, closed, rec>>

Put(p) == /\ status[p] = "pending"
          /\ Len(queue) < Capacity
          /\ queue' = Append(queue, rec[p])
          /\ status' = [status EXCEPT ![p] = "OK"]
          /\ UNCHANGED <<closed, rec>>

Refuse(p) == /\ status[p] = "pending"
             /\ Len(queue) = Capacity
             /\ status' = [status EXCEPT ![p] = "FAIL"]
             /\ UNCHANGED <<queue, closed, rec>>

Take(c) == /\ status[c] = "pending"
           /\ queue # <<>>
           /\ rec' = [rec EXCEPT ![c] = Head(queue)]
           /\ queue' = Tail(queue)
           /\ status' = [status EXCEPT ![c] = "OK"]
           /\ UNCHANGED closed

TakeNothing(c) == /\ status[c] = "pending"
                  /\ queue = <<>>
                  /\ closed
                  /\ status' = [status EXCEPT ![c] = "FAIL"]
                  /\ UNCHANGED <<queue, closed, rec>>

Close == /\ closed' = TRUE
         /\ UNCHANGED <<queue, rec, status>>

Next == \/ \E p \in Producers : CallPush(p) \/ Put(p) \/ Refuse(p)
        \/ \E c \in Consumers : CallPop(c) \/ Take(c) \/ TakeNothing(c)
        \/ Close

Spec == Init /\ [][Next]_vars
=============================================================================
