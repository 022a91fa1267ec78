--------------------------- MODULE ResponseQueue ---------------------------
(***************************************************************************)
(* STM32_Server/response_queue.c: the ring buffer between the UDP receive  *)
(* thread, which pushes, and the response writer thread, which pops, with  *)
(* its mutex and its condition variable.                                   *)
(*                                                                         *)
(* The mutex is explicit and a push or a pop takes several steps, so that  *)
(* the model can tell what the mutex is for: between storing the record    *)
(* (or reading it) and adjusting the counter the ring is inconsistent.     *)
(* The C library's mutex and condition variable are modelled as POSIX      *)
(* describes them: pthread_cond_wait releases the mutex and sleeps in one  *)
(* step, pthread_cond_signal wakes one sleeper if there is one, a sleeper  *)
(* may also wake by itself, and a woken thread must take the mutex again.  *)
(***************************************************************************)
EXTENDS Naturals, Sequences

CONSTANTS Capacity,    \* RESPONSE_QUEUE_CAPACITY
          Records,     \* the response records that can be queued
          NoRecord,    \* the zeroed contents of an unused response_record_t
          Producers,   \* threads that call response_queue_push
          Consumers,   \* threads that call response_queue_pop
          Closers,     \* threads that call response_queue_shutdown
          Nobody       \* the holder of the free mutex

Callers == Producers \cup Consumers
Threads == Callers \cup Closers

ASSUME CapacityAssumption == Capacity \in Nat \ {0}

ASSUME ThreadsAssumption == /\ Producers \cap Consumers = {}
                            /\ Callers \cap Closers = {}
                            /\ Nobody \notin Threads

VARIABLES buffer, head, tail, count,  \* the ring and its indices
          shutdown_requested,
          mutex,                      \* holder of response_queue_mutex
          waiters,                    \* asleep on response_queue_not_empty
          pc,                         \* where each thread is in its call
          rec,                        \* each caller's *record
          status                      \* what each caller's last call returned

ring == <<buffer, head, tail, count>>
vars == <<buffer, head, tail, count, shutdown_requested, mutex, waiters, pc,
          rec, status>>

Slots == 0 .. Capacity - 1

\* response_queue_init, which main calls before it creates any thread.
Init == /\ buffer = [i \in Slots |-> NoRecord]
        /\ head = 0
        /\ tail = 0
        /\ count = 0
        /\ shutdown_requested = FALSE
        /\ mutex = Nobody
        /\ waiters = {}
        /\ pc = [t \in Threads |-> "idle"]
        /\ rec = [t \in Callers |-> NoRecord]
        /\ status = [t \in Callers |-> "none"]

\* Mutant: the index is reset one slot too late.
AdvanceTooFar(i) == IF i + 1 > Capacity THEN 0 ELSE i + 1

\* An index is advanced, then reset when it has reached the capacity.
Advance(i) == IF i + 1 >= Capacity THEN 0 ELSE i + 1

Goto(t, label) == pc' = [pc EXCEPT ![t] = label]

Lock(t, from, to) == /\ pc[t] = from
                     /\ mutex = Nobody
                     /\ mutex' = t
                     /\ Goto(t, to)

\* pthread_cond_signal(&response_queue_not_empty)
Signal == \/ waiters = {} /\ UNCHANGED waiters
          \/ \E w \in waiters : waiters' = waiters \ {w}

\* pthread_mutex_unlock, then the call returns.
Return(t) == /\ pc[t] = "unlock"
             /\ mutex' = Nobody
             /\ Goto(t, "idle")
             /\ UNCHANGED <<ring, shutdown_requested, waiters, rec, status>>
-----------------------------------------------------------------------------
(* response_queue_push *)

PushCall(p, r) == /\ pc[p] = "idle"
                  /\ Goto(p, "push_lock")
                  /\ rec' = [rec EXCEPT ![p] = r]
                  /\ status' = [status EXCEPT ![p] = "pending"]
                  /\ UNCHANGED <<ring, shutdown_requested, mutex, waiters>>

PushLock(p) == /\ Lock(p, "push_lock", "push")
               /\ UNCHANGED <<ring, shutdown_requested, waiters, rec, status>>

\* Mutant: one slot of the ring is never used.
PushFullEarly(p) == /\ pc[p] = "push"
                    /\ count + 1 >= Capacity
                    /\ status' = [status EXCEPT ![p] = "FAIL"]
                    /\ Goto(p, "unlock")
                    /\ UNCHANGED <<ring, shutdown_requested, mutex, waiters,
                                   rec>>

PushFull(p) == /\ pc[p] = "push"
               /\ count >= Capacity
               /\ status' = [status EXCEPT ![p] = "FAIL"]
               /\ Goto(p, "unlock")
               /\ UNCHANGED <<ring, shutdown_requested, mutex, waiters, rec>>

\* Mutant: the record is stored without looking whether there is room.
PushStoreAlways(p) == /\ pc[p] = "push"
                      /\ buffer' = [buffer EXCEPT ![tail] = rec[p]]
                      /\ tail' = Advance(tail)
                      /\ Goto(p, "push_count")
                      /\ UNCHANGED <<head, count, shutdown_requested, mutex,
                                     waiters, rec, status>>

PushStore(p) == /\ pc[p] = "push"
                /\ count < Capacity
                /\ buffer' = [buffer EXCEPT ![tail] = rec[p]]
                /\ tail' = Advance(tail)
                /\ Goto(p, "push_count")
                /\ UNCHANGED <<head, count, shutdown_requested, mutex, waiters,
                               rec, status>>

\* Mutant: push does not signal the condition variable.
PushCountSilently(p) == /\ pc[p] = "push_count"
                        /\ count' = count + 1
                        /\ status' = [status EXCEPT ![p] = "OK"]
                        /\ Goto(p, "unlock")
                        /\ UNCHANGED <<buffer, head, tail, shutdown_requested,
                                       mutex, waiters, rec>>

PushCount(p) == /\ pc[p] = "push_count"
                /\ count' = count + 1
                /\ Signal
                /\ status' = [status EXCEPT ![p] = "OK"]
                /\ Goto(p, "unlock")
                /\ UNCHANGED <<buffer, head, tail, shutdown_requested, mutex,
                               rec>>
-----------------------------------------------------------------------------
(* response_queue_pop *)

PopCall(c) == /\ pc[c] = "idle"
              /\ Goto(c, "pop_lock")
              /\ status' = [status EXCEPT ![c] = "pending"]
              /\ UNCHANGED <<ring, shutdown_requested, mutex, waiters, rec>>

PopLock(c) == /\ Lock(c, "pop_lock", "pop")
              /\ UNCHANGED <<ring, shutdown_requested, waiters, rec, status>>

\* Mutant: the thread sleeps with the mutex held.
PopWaitHoldingMutex(c) == /\ pc[c] = "pop"
                          /\ count = 0
                          /\ ~shutdown_requested
                          /\ waiters' = waiters \cup {c}
                          /\ Goto(c, "wait")
                          /\ UNCHANGED <<ring, shutdown_requested, mutex, rec,
                                         status>>

\* The condition of the while loop holds: sleep on the condition variable.
PopWait(c) == /\ pc[c] = "pop"
              /\ count = 0
              /\ ~shutdown_requested
              /\ mutex' = Nobody
              /\ waiters' = waiters \cup {c}
              /\ Goto(c, "wait")
              /\ UNCHANGED <<ring, shutdown_requested, rec, status>>

SpuriousWakeup(c) == /\ c \in waiters
                     /\ waiters' = waiters \ {c}
                     /\ UNCHANGED <<ring, shutdown_requested, mutex, pc, rec,
                                    status>>

\* Mutant: a woken thread goes on without the mutex.
PopRelockNot(c) == /\ c \notin waiters
                   /\ pc[c] = "wait"
                   /\ Goto(c, "pop")
                   /\ UNCHANGED <<ring, shutdown_requested, mutex, waiters, rec,
                                  status>>

\* A woken thread takes the mutex again and re-evaluates the loop condition.
PopRelock(c) == /\ c \notin waiters
                /\ Lock(c, "wait", "pop")
                /\ UNCHANGED <<ring, shutdown_requested, waiters, rec, status>>

PopShutdown(c) == /\ pc[c] = "pop"
                  /\ count = 0
                  /\ shutdown_requested
                  /\ status' = [status EXCEPT ![c] = "FAIL"]
                  /\ Goto(c, "unlock")
                  /\ UNCHANGED <<ring, shutdown_requested, mutex, waiters, rec>>

PopTake(c) == /\ pc[c] = "pop"
              /\ count # 0
              /\ rec' = [rec EXCEPT ![c] = buffer[head]]
              /\ head' = Advance(head)
              /\ status' = [status EXCEPT ![c] = "OK"]
              /\ Goto(c, "pop_count")
              /\ UNCHANGED <<buffer, tail, count, shutdown_requested, mutex,
                             waiters>>

PopCount(c) == /\ pc[c] = "pop_count"
               /\ count' = count - 1
               /\ Goto(c, "unlock")
               /\ UNCHANGED <<buffer, head, tail, shutdown_requested, mutex,
                              waiters, rec, status>>
-----------------------------------------------------------------------------
(* response_queue_shutdown *)

ShutdownCall(k) == /\ pc[k] = "idle"
                   /\ Goto(k, "shutdown_lock")
                   /\ UNCHANGED <<ring, shutdown_requested, mutex, waiters,
                                  rec, status>>

ShutdownLock(k) == /\ Lock(k, "shutdown_lock", "shutdown")
                   /\ UNCHANGED <<ring, shutdown_requested, waiters, rec,
                                  status>>

\* Mutant: shutdown does not signal the condition variable.
ShutdownSilently(k) == /\ pc[k] = "shutdown"
                       /\ shutdown_requested' = TRUE
                       /\ Goto(k, "unlock")
                       /\ UNCHANGED <<ring, mutex, waiters, rec, status>>

Shutdown(k) == /\ pc[k] = "shutdown"
               /\ shutdown_requested' = TRUE
               /\ Signal
               /\ Goto(k, "unlock")
               /\ UNCHANGED <<ring, mutex, rec, status>>
-----------------------------------------------------------------------------
Push(p) == \/ \E r \in Records : PushCall(p, r)
           \/ PushLock(p)
           \/ PushFull(p)
           \/ PushStore(p)
           \/ PushCount(p)
           \/ Return(p)

Pop(c) == \/ PopCall(c)
          \/ PopLock(c)
          \/ PopWait(c)
          \/ SpuriousWakeup(c)
          \/ PopRelock(c)
          \/ PopShutdown(c)
          \/ PopTake(c)
          \/ PopCount(c)
          \/ Return(c)

Close(k) == ShutdownCall(k) \/ ShutdownLock(k) \/ Shutdown(k) \/ Return(k)

Next == \/ \E p \in Producers : Push(p)
        \/ \E c \in Consumers : Pop(c)
        \/ \E k \in Closers : Close(k)

Spec == Init /\ [][Next]_vars

(***************************************************************************)
(* A thread that is inside a call keeps running, and a thread that asks    *)
(* for the mutex gets it: no thread keeps it (every path of the three      *)
(* functions unlocks it), and no thread asks for it again and again for    *)
(* ever while another one waits, because the receive thread blocks in      *)
(* recvfrom between two pushes.  Nothing obliges a thread to make a call.  *)
(***************************************************************************)
Fairness ==
    /\ \A p \in Producers : /\ SF_vars(PushLock(p))
                            /\ WF_vars(PushFull(p) \/ PushStore(p))
                            /\ WF_vars(PushCount(p) \/ Return(p))
    /\ \A c \in Consumers : /\ SF_vars(PopLock(c) \/ PopRelock(c))
                            /\ WF_vars(PopWait(c) \/ PopShutdown(c) \/ PopTake(c))
                            /\ WF_vars(PopCount(c) \/ Return(c))
    /\ \A k \in Closers : /\ SF_vars(ShutdownLock(k))
                          /\ WF_vars(Shutdown(k) \/ Return(k))

FairSpec == Spec /\ Fairness
-----------------------------------------------------------------------------
InPush == \E p \in Producers : pc[p] = "push_count"
InPop == \E c \in Consumers : pc[c] = "pop_count"

\* The number of records the ring really holds, and how many are readable:
\* the counter lags behind the two indices inside a critical section.
Stored == IF InPush THEN count + 1 ELSE IF InPop THEN count - 1 ELSE count
Readable == IF InPop THEN count - 1 ELSE count

\* The slot k places after the head.
SlotAt(k) == IF head + k >= Capacity THEN head + k - Capacity ELSE head + k

\* The queue the ring stands for, oldest record first.
Contents == [i \in 1 .. Readable |-> buffer[SlotAt(i - 1)]]

TypeOK ==
    /\ buffer \in [Slots -> Records \cup {NoRecord}]
    /\ head \in Slots
    /\ tail \in Slots
    /\ count \in 0 .. Capacity
    /\ shutdown_requested \in BOOLEAN
    /\ mutex \in Threads \cup {Nobody}
    /\ waiters \subseteq Consumers
    /\ pc \in [Threads -> {"idle", "push_lock", "push", "push_count",
                           "pop_lock", "pop", "wait", "pop_count",
                           "shutdown_lock", "shutdown", "unlock"}]
    /\ rec \in [Callers -> Records \cup {NoRecord}]
    /\ status \in [Callers -> {"none", "pending", "OK", "FAIL"}]

InCriticalSection(t) ==
    pc[t] \in {"push", "push_count", "pop", "pop_count", "shutdown", "unlock"}

\* response_queue_mutex: a thread runs the guarded lines of push, pop and
\* shutdown only while it is the one holder of the mutex, also when it comes
\* back from pthread_cond_wait.
MutualExclusion ==
    \A t \in Threads : InCriticalSection(t) <=> mutex = t

\* The tail that push writes at is always as far from the head that pop reads
\* at as the ring holds records, so no push overwrites a queued record and no
\* pop reads a slot that was not written, across every wrap of both indices.
RingConsistent ==
    /\ Stored \in 0 .. Capacity
    /\ tail = SlotAt(Stored)

\* The writer never sleeps on the condition variable while there is something
\* to wake it for: the signal is sent with the mutex held and the condition is
\* re-checked before sleeping.  (For one consumer, as in the server.)
NoLostWakeup ==
    waiters # {} => count = 0 /\ ~shutdown_requested

\* The ring, its indices and its mutex implement the bounded FIFO.
Fifo == INSTANCE BoundedFifo WITH queue <- Contents,
                                  closed <- shutdown_requested
ImplementsFifo == Fifo!Spec

\* response_queue_shutdown: a pop that is in progress when shutdown is
\* requested, or starts later, returns.
ShutdownReleasesPop ==
    \A c \in Consumers : shutdown_requested /\ pc[c] # "idle" ~> pc[c] = "idle"

\* A push always returns, whatever the writer does: it waits neither for room
\* nor for a writer that sleeps inside pop.
PushReturns == \A p \in Producers : pc[p] # "idle" ~> pc[p] = "idle"

\* A pop that is in progress while a record is queued takes a record.  (For
\* one consumer, as in the server: nobody else empties the queue.)
PopDelivers ==
    \A c \in Consumers : count > 0 /\ pc[c] \in {"pop_lock", "pop", "wait"}
                            ~> pc[c] = "pop_count"
=============================================================================
