------------------------ MODULE ResponseQueueProofs ------------------------
(***************************************************************************)
(* Proofs about ResponseQueue, for every capacity, every set of records    *)
(* and any number of threads on each side: types, mutual exclusion, the    *)
(* ring, the condition variable, and that calls come back.                 *)
(***************************************************************************)
EXTENDS ResponseQueue, TLAPS

\* Each kind of thread runs only its own function, and a caller's status is
\* "pending" exactly from its call to the step at which the call takes effect.
ProducerOK(p) ==
    /\ pc[p] \in {"idle", "push_lock", "push", "push_count", "unlock"}
    /\ (status[p] = "pending") <=> (pc[p] \in {"push_lock", "push", "push_count"})

ConsumerOK(c) ==
    /\ pc[c] \in {"idle", "pop_lock", "pop", "wait", "pop_count", "unlock"}
    /\ (status[c] = "pending") <=> (pc[c] \in {"pop_lock", "pop", "wait"})

CloserOK(k) == pc[k] \in {"idle", "shutdown_lock", "shutdown", "unlock"}

ControlOK == /\ \A p \in Producers : ProducerOK(p)
             /\ \A c \in Consumers : ConsumerOK(c)
             /\ \A k \in Closers : CloserOK(k)

\* What a thread that is about to adjust the counter knows about it.
CounterOK == /\ \A p \in Producers : pc[p] = "push_count" => count < Capacity
             /\ \A c \in Consumers : pc[c] = "pop_count" => count > 0

IInv == TypeOK /\ MutualExclusion /\ ControlOK /\ CounterOK /\ RingConsistent

USE CapacityAssumption

LEMMA InitInv == Init => IInv
<1> SUFFICES ASSUME Init PROVE IInv
  OBVIOUS
<1> USE ThreadsAssumption DEF Init, Callers, Threads, Slots
<1>1. TypeOK
  <2>1. shutdown_requested \in BOOLEAN
    OBVIOUS
  <2>2. buffer \in [Slots -> Records \cup {NoRecord}]
    OBVIOUS
  <2>3. /\ head \in Slots /\ tail \in Slots
        /\ count \in 0 .. Capacity
    OBVIOUS
  <2>4. /\ mutex \in Threads \cup {Nobody}
        /\ waiters \subseteq Consumers
    OBVIOUS
  <2>5. /\ rec \in [Callers -> Records \cup {NoRecord}]
        /\ status \in [Callers -> {"none", "pending", "OK", "FAIL"}]
    OBVIOUS
  <2> QED
    BY <2>1, <2>2, <2>3, <2>4, <2>5 DEF TypeOK
<1>2. MutualExclusion
  BY DEF MutualExclusion, InCriticalSection
<1>3. ControlOK
  BY DEF ControlOK, ProducerOK, ConsumerOK, CloserOK
<1>4. CounterOK
  BY DEF CounterOK
<1>5. RingConsistent
  BY DEF RingConsistent, Stored, InPush, InPop, SlotAt
<1> QED
  BY <1>1, <1>2, <1>3, <1>4, <1>5 DEF IInv

LEMMA TypeOKStep == ASSUME TypeOK, MutualExclusion, ControlOK, CounterOK, Next
                    PROVE  TypeOK'
<1> USE ThreadsAssumption DEF TypeOK, Callers, Threads, Slots, ring, Goto
<1>1. ASSUME NEW p \in Producers, Push(p) PROVE TypeOK'
  <2>1. CASE \E r \in Records : PushCall(p, r)
    BY <2>1 DEF PushCall
  <2>2. CASE PushLock(p)
    BY <2>2 DEF PushLock, Lock
  <2>3. CASE PushFull(p)
    BY <2>3 DEF PushFull
  <2>4. CASE PushStore(p)
    BY <2>4 DEF PushStore, Advance
  <2>5. CASE PushCount(p)
    BY <2>5 DEF PushCount, Signal, CounterOK
  <2>6. CASE Return(p)
    BY <2>6 DEF Return
  <2> QED
    BY <1>1, <2>1, <2>2, <2>3, <2>4, <2>5, <2>6 DEF Push
<1>2. ASSUME NEW c \in Consumers, Pop(c) PROVE TypeOK'
  <2>1. CASE PopCall(c)
    BY <2>1 DEF PopCall
  <2>2. CASE PopLock(c) \/ PopRelock(c)
    BY <2>2 DEF PopLock, PopRelock, Lock
  <2>3. CASE PopWait(c)
    BY <2>3 DEF PopWait
  <2>4. CASE SpuriousWakeup(c)
    BY <2>4 DEF SpuriousWakeup
  <2>5. CASE PopShutdown(c)
    BY <2>5 DEF PopShutdown
  <2>6. CASE PopTake(c)
    BY <2>6 DEF PopTake, Advance
  <2>7. CASE PopCount(c)
    BY <2>7 DEF PopCount, CounterOK
  <2>8. CASE Return(c)
    BY <2>8 DEF Return
  <2> QED
    BY <1>2, <2>1, <2>2, <2>3, <2>4, <2>5, <2>6, <2>7, <2>8 DEF Pop
<1>3. ASSUME NEW k \in Closers, Close(k) PROVE TypeOK'
  <2>1. CASE ShutdownCall(k)
    BY <2>1 DEF ShutdownCall
  <2>2. CASE ShutdownLock(k)
    BY <2>2 DEF ShutdownLock, Lock
  <2>3. CASE Shutdown(k)
    BY <2>3 DEF Shutdown, Signal
  <2>4. CASE Return(k)
    BY <2>4 DEF Return
  <2> QED
    BY <1>3, <2>1, <2>2, <2>3, <2>4 DEF Close
<1> QED
  BY <1>1, <1>2, <1>3 DEF Next

LEMMA ControlStep ==
  ASSUME TypeOK, MutualExclusion, ControlOK, Next
  PROVE  MutualExclusion' /\ ControlOK'
<1> USE ThreadsAssumption DEF TypeOK, Callers, Threads, ring, Goto
<1> USE DEF MutualExclusion, InCriticalSection, ControlOK, ProducerOK,
            ConsumerOK, CloserOK
<1>1. ASSUME NEW p \in Producers, Push(p)
      PROVE MutualExclusion' /\ ControlOK'
  <2>1. CASE \E r \in Records : PushCall(p, r)
    BY <2>1 DEF PushCall
  <2>2. CASE PushLock(p)
    BY <2>2 DEF PushLock, Lock
  <2>3. CASE PushFull(p)
    BY <2>3 DEF PushFull
  <2>4. CASE PushStore(p)
    BY <2>4 DEF PushStore
  <2>5. CASE PushCount(p)
    BY <2>5 DEF PushCount
  <2>6. CASE Return(p)
    BY <2>6 DEF Return
  <2> QED
    BY <1>1, <2>1, <2>2, <2>3, <2>4, <2>5, <2>6 DEF Push
<1>2. ASSUME NEW c \in Consumers, Pop(c)
      PROVE MutualExclusion' /\ ControlOK'
  <2>1. CASE PopCall(c)
    BY <2>1 DEF PopCall
  <2>2. CASE PopLock(c) \/ PopRelock(c)
    BY <2>2 DEF PopLock, PopRelock, Lock
  <2>3. CASE PopWait(c)
    BY <2>3 DEF PopWait
  <2>4. CASE SpuriousWakeup(c)
    BY <2>4 DEF SpuriousWakeup
  <2>5. CASE PopShutdown(c)
    BY <2>5 DEF PopShutdown
  <2>6. CASE PopTake(c)
    BY <2>6 DEF PopTake
  <2>7. CASE PopCount(c)
    BY <2>7 DEF PopCount
  <2>8. CASE Return(c)
    BY <2>8 DEF Return
  <2> QED
    BY <1>2, <2>1, <2>2, <2>3, <2>4, <2>5, <2>6, <2>7, <2>8 DEF Pop
<1>3. ASSUME NEW k \in Closers, Close(k)
      PROVE MutualExclusion' /\ ControlOK'
  <2>1. CASE ShutdownCall(k)
    BY <2>1 DEF ShutdownCall
  <2>2. CASE ShutdownLock(k)
    BY <2>2 DEF ShutdownLock, Lock
  <2>3. CASE Shutdown(k)
    BY <2>3 DEF Shutdown
  <2>4. CASE Return(k)
    BY <2>4 DEF Return
  <2> QED
    BY <1>3, <2>1, <2>2, <2>3, <2>4 DEF Close
<1> QED
  BY <1>1, <1>2, <1>3 DEF Next

\* Only the holder of the mutex can be between moving an index and adjusting
\* the counter.
LEMMA HolderOnly ==
  ASSUME TypeOK, MutualExclusion, ControlOK
  PROVE  /\ InPush <=> /\ mutex \in Producers
                      /\ pc[mutex] = "push_count"
         /\ InPop <=> /\ mutex \in Consumers
                     /\ pc[mutex] = "pop_count"
BY ThreadsAssumption
   DEF InPush, InPop, TypeOK, MutualExclusion, InCriticalSection, Callers,
       Threads

\* A step that leaves the ring alone, and neither enters nor leaves the two
\* half-way labels, preserves everything that is said about the ring.
LEMMA RingUntouched ==
  ASSUME CounterOK, RingConsistent, UNCHANGED ring,
         \A p \in Producers : pc'[p] = "push_count" <=> pc[p] = "push_count",
         \A c \in Consumers : pc'[c] = "pop_count" <=> pc[c] = "pop_count"
  PROVE  CounterOK' /\ RingConsistent'
<1>1. (InPush <=> InPush') /\ (InPop <=> InPop')
  BY DEF InPush, InPop
<1>2. Stored' = Stored
  BY <1>1 DEF Stored, ring
<1>3. RingConsistent'
  BY <1>2 DEF RingConsistent, SlotAt, ring
<1>4. CounterOK'
  BY DEF CounterOK, ring
<1> QED
  BY <1>3, <1>4

LEMMA RingStep == ASSUME IInv, Next
                  PROVE  CounterOK' /\ RingConsistent'
<1> USE ThreadsAssumption
<1>1. TypeOK' /\ MutualExclusion' /\ ControlOK'
  BY TypeOKStep, ControlStep DEF IInv
<1>2. ASSUME NEW p \in Producers, PushStore(p)
      PROVE CounterOK' /\ RingConsistent'
  <2>1. mutex = p /\ mutex' = p /\ pc'[p] = "push_count" /\ pc[p] = "push"
    BY <1>2 DEF PushStore, Goto, IInv, TypeOK, MutualExclusion,
                InCriticalSection, Callers, Threads
  <2>2. ~InPush /\ ~InPop /\ InPush' /\ ~InPop'
    BY <2>1, <1>1, HolderOnly DEF IInv, InPush, InPop, MutualExclusion, InCriticalSection, Callers, Threads
  <2>3. Stored = count /\ Stored' = count + 1 /\ count < Capacity /\ count' = count
    BY <2>2, <1>2 DEF Stored, PushStore
  <2>4. RingConsistent'
    BY <2>3, <1>2 DEF RingConsistent, SlotAt, PushStore, Advance, IInv, TypeOK, Slots
  <2>5. CounterOK'
    BY <2>2, <2>3 DEF CounterOK, InPop
  <2> QED
    BY <2>4, <2>5
<1>3. ASSUME NEW p \in Producers, PushCount(p)
      PROVE CounterOK' /\ RingConsistent'
  <2>1. mutex = p /\ mutex' = p /\ pc'[p] = "unlock" /\ pc[p] = "push_count"
    BY <1>3 DEF PushCount, Goto, IInv, TypeOK, MutualExclusion,
                InCriticalSection, Callers, Threads
  <2>2. InPush /\ ~InPop /\ ~InPush' /\ ~InPop'
    BY <2>1, <1>1, HolderOnly DEF IInv, InPush, InPop, MutualExclusion,
                                  InCriticalSection, Callers, Threads
  <2>3. Stored = count + 1 /\ Stored' = count'
    BY <2>2 DEF Stored
  <2>4. RingConsistent'
    BY <2>3, <1>3 DEF RingConsistent, SlotAt, PushCount, IInv
  <2>5. CounterOK'
    BY <2>2 DEF CounterOK, InPush, InPop
  <2> QED
    BY <2>4, <2>5
<1>4. ASSUME NEW c \in Consumers, PopTake(c)
      PROVE CounterOK' /\ RingConsistent'
  <2>1. mutex = c /\ mutex' = c /\ pc'[c] = "pop_count" /\ pc[c] = "pop"
    BY <1>4 DEF PopTake, Goto, IInv, TypeOK, MutualExclusion,
                InCriticalSection, Callers, Threads
  <2>2. ~InPush /\ ~InPop /\ ~InPush' /\ InPop'
    BY <2>1, <1>1, HolderOnly DEF IInv, InPush, InPop, MutualExclusion,
                                  InCriticalSection, Callers, Threads
  <2>3. /\ Stored = count /\ Stored' = count - 1
        /\ count > 0 /\ count' = count
    BY <2>2, <1>4 DEF Stored, PopTake, IInv, TypeOK
  <2>4. RingConsistent'
    BY <2>3, <1>4 DEF RingConsistent, SlotAt, PopTake, Advance, IInv, TypeOK,
                      Slots
  <2>5. CounterOK'
    BY <2>2, <2>3 DEF CounterOK, InPush
  <2> QED
    BY <2>4, <2>5
<1>5. ASSUME NEW c \in Consumers, PopCount(c)
      PROVE CounterOK' /\ RingConsistent'
  <2>1. mutex = c /\ mutex' = c /\ pc'[c] = "unlock" /\ pc[c] = "pop_count"
    BY <1>5 DEF PopCount, Goto, IInv, TypeOK, MutualExclusion,
                InCriticalSection, Callers, Threads
  <2>2. ~InPush /\ InPop /\ ~InPush' /\ ~InPop'
    BY <2>1, <1>1, HolderOnly DEF IInv, InPush, InPop, MutualExclusion,
                                  InCriticalSection, Callers, Threads
  <2>3. Stored = count - 1 /\ Stored' = count'
    BY <2>2 DEF Stored
  <2>4. RingConsistent'
    BY <2>3, <1>5 DEF RingConsistent, SlotAt, PopCount, IInv
  <2>5. CounterOK'
    BY <2>2 DEF CounterOK, InPush, InPop
  <2> QED
    BY <2>4, <2>5
<1>6. ASSUME NEW p \in Producers,
             \/ \E r \in Records : PushCall(p, r)
             \/ PushLock(p) \/ PushFull(p) \/ Return(p)
      PROVE CounterOK' /\ RingConsistent'
  BY <1>6, RingUntouched
     DEF PushCall, PushLock, PushFull, Return, Lock, Goto, IInv, TypeOK, ring,
         Callers, Threads
<1>7. ASSUME NEW c \in Consumers,
             \/ PopCall(c) \/ PopLock(c) \/ PopWait(c) \/ SpuriousWakeup(c)
             \/ PopRelock(c) \/ PopShutdown(c) \/ Return(c)
      PROVE CounterOK' /\ RingConsistent'
  BY <1>7, RingUntouched
     DEF PopCall, PopLock, PopWait, SpuriousWakeup, PopRelock, PopShutdown,
         Return, Lock, Goto, IInv, TypeOK, ring, Callers, Threads
<1>8. ASSUME NEW k \in Closers, Close(k)
      PROVE CounterOK' /\ RingConsistent'
  BY <1>8, RingUntouched
     DEF Close, ShutdownCall, ShutdownLock, Shutdown, Return, Lock, Goto, IInv,
         TypeOK, ring, Callers, Threads
<1> QED
  BY <1>2, <1>3, <1>4, <1>5, <1>6, <1>7, <1>8 DEF Next, Push, Pop

LEMMA InvStutter == IInv /\ UNCHANGED vars => IInv'
BY DEF IInv, vars, TypeOK, MutualExclusion, InCriticalSection, ControlOK,
       ProducerOK, ConsumerOK, CloserOK, CounterOK, RingConsistent, Stored,
       InPush, InPop, SlotAt

\* The inductive invariant holds in every reachable state of the queue.
THEOREM Invariant == Spec => []IInv
<1>1. IInv /\ [Next]_vars => IInv'
  BY TypeOKStep, ControlStep, RingStep, InvStutter DEF IInv
<1> QED
  BY InitInv, <1>1, PTL DEF Spec

\* Every variable of response_queue.c keeps its range: the two indices stay
\* inside the buffer and the counter between 0 and the capacity.
THEOREM TypeCorrect == Spec => []TypeOK
BY Invariant, PTL DEF IInv

\* The guarded lines of push, pop and shutdown are mutually exclusive.
THEOREM Exclusive == Spec => []MutualExclusion
BY Invariant, PTL DEF IInv

\* The tail is always as far ahead of the head as the ring holds records.
THEOREM RingCorrect == Spec => []RingConsistent
BY Invariant, PTL DEF IInv
-----------------------------------------------------------------------------
(* The condition variable, for one consumer. *)

WakeupInv == /\ \A c \in waiters : pc[c] = "wait"
             /\ NoLostWakeup

LEMMA WakeupStep ==
  ASSUME NEW w, Consumers = {w}, TypeOK, ControlOK, WakeupInv, [Next]_vars
  PROVE  WakeupInv'
<1> USE ThreadsAssumption
        DEF WakeupInv, NoLostWakeup, TypeOK, Callers, Threads, ring, Goto
<1>1. ASSUME NEW p \in Producers, Push(p) PROVE WakeupInv'
  <2>1. CASE PushCount(p)
    BY <2>1 DEF PushCount, Signal, ControlOK, ProducerOK
  <2>2. CASE ~PushCount(p)
    BY <1>1, <2>2 DEF Push, PushCall, PushLock, PushFull, PushStore, Return,
                      Lock, ControlOK, ProducerOK
  <2> QED
    BY <2>1, <2>2
<1>2. ASSUME NEW c \in Consumers, Pop(c) PROVE WakeupInv'
  <2>1. CASE PopCount(c)
    BY <2>1 DEF PopCount
  <2>2. CASE PopWait(c) \/ SpuriousWakeup(c)
    BY <2>2 DEF PopWait, SpuriousWakeup
  <2>3. CASE ~(PopCount(c) \/ PopWait(c) \/ SpuriousWakeup(c))
    BY <1>2, <2>3 DEF Pop, PopCall, PopLock, PopRelock, PopShutdown, PopTake,
                      Return, Lock
  <2> QED
    BY <2>1, <2>2, <2>3
<1>3. ASSUME NEW k \in Closers, Close(k) PROVE WakeupInv'
  <2>1. CASE Shutdown(k)
    BY <2>1 DEF Shutdown, Signal, ControlOK, CloserOK
  <2>2. CASE ~Shutdown(k)
    BY <1>3, <2>2 DEF Close, ShutdownCall, ShutdownLock, Return, Lock,
                      ControlOK, CloserOK
  <2> QED
    BY <2>1, <2>2
<1>4. CASE UNCHANGED vars
  BY <1>4 DEF vars
<1> QED
  BY <1>1, <1>2, <1>3, <1>4 DEF Next

\* With one consumer, as in the server, the writer is never asleep on the
\* condition variable while a record is queued or shutdown is requested.
THEOREM NoWakeupIsLost == ASSUME NEW w, Consumers = {w}
                          PROVE  Spec => []NoLostWakeup
<1>1. Init => WakeupInv
  BY DEF Init, WakeupInv, NoLostWakeup
<1>2. IInv /\ WakeupInv /\ [Next]_vars => WakeupInv'
  BY WakeupStep DEF IInv
<1>3. WakeupInv => NoLostWakeup
  BY DEF WakeupInv
<1> QED
  BY Invariant, <1>1, <1>2, <1>3, PTL DEF Spec
-----------------------------------------------------------------------------
(* The calls come back *)

\* The steps that a thread has still to make in its call, when it need not sleep.
CallLeft(t) == CASE pc[t] \in {"push_lock", "pop_lock", "wait", "shutdown_lock"} -> 4
                 [] pc[t] \in {"push", "pop", "shutdown"}                        -> 3
                 [] pc[t] \in {"push_count", "pop_count"}                        -> 2
                 [] pc[t] = "unlock"                                             -> 1
                 [] OTHER                                                        -> 0

\* The holder of the mutex is awake and a few steps before it gives it back.
HolderReturns == mutex # Nobody => mutex \notin waiters /\ CallLeft(mutex) \in 1 .. 3

\* A thread that moves inside a call comes nearer to its end, but for a pop that
\* finds nothing and no shutdown and goes to sleep, maybe not for the first time.
CallsAdvance ==
    [][\A t \in Threads :
          pc[t] # "idle" /\ pc'[t] # pc[t]
            => \/ CallLeft(t)' < CallLeft(t)
               \/ t \in Consumers /\ pc'[t] = "wait" /\ count = 0 /\ ~shutdown_requested]_vars

\* A pop that is in progress while a record is queued is awake, and what it does
\* next is to take the mutex and a record, which stays in the queue till then.
PopGetsRecord ==
    [][\A c \in Consumers :
          pc[c] \in {"pop_lock", "pop", "wait"} /\ count > 0
            => /\ c \notin waiters /\ count' > 0
               /\ \/ pc'[c] = pc[c]
                  \/ pc[c] # "pop" /\ pc'[c] = "pop"
                  \/ pc[c] = "pop" /\ pc'[c] = "pop_count"]_vars

\* What CallLeft is of a thread, before and after a step.
LEMMA CallLeftValues ==
    ASSUME NEW t
    PROVE  /\ pc[t] \in {"push_lock", "pop_lock", "wait", "shutdown_lock"} => CallLeft(t) = 4
           /\ pc[t] \in {"push", "pop", "shutdown"} => CallLeft(t) = 3
           /\ pc[t] \in {"push_count", "pop_count"} => CallLeft(t) = 2
           /\ pc[t] = "unlock" => CallLeft(t) = 1
           /\ pc[t] = "idle" => CallLeft(t) = 0
           /\ pc'[t] \in {"push", "pop", "shutdown"} => CallLeft(t)' = 3
           /\ pc'[t] \in {"push_count", "pop_count"} => CallLeft(t)' = 2
           /\ pc'[t] = "unlock" => CallLeft(t)' = 1
           /\ pc'[t] = "idle" => CallLeft(t)' = 0
  BY DEF CallLeft

\* A thread that sleeps on the condition variable is inside pop.
SleepersWait == \A c \in waiters : pc[c] = "wait"

LEMMA HolderSuffices ==
    TypeOK /\ MutualExclusion /\ SleepersWait => HolderReturns
<1> SUFFICES ASSUME TypeOK, MutualExclusion, SleepersWait, mutex # Nobody
             PROVE  mutex \notin waiters /\ CallLeft(mutex) \in 1 .. 3
  BY DEF HolderReturns
<1>1. mutex \in Threads /\ InCriticalSection(mutex)
  BY DEF TypeOK, MutualExclusion
<1>2. QED
  BY <1>1, CallLeftValues DEF InCriticalSection, SleepersWait

LEMMA SleepersStep == IInv /\ SleepersWait /\ [Next]_vars => SleepersWait'
<1> USE ThreadsAssumption
        DEF IInv, SleepersWait, TypeOK, Callers, Threads, ring, Goto
<1>1. ASSUME IInv, SleepersWait, NEW p \in Producers, Push(p) PROVE SleepersWait'
  BY <1>1 DEF Push, PushCall, PushLock, PushFull, PushStore, PushCount, Signal,
     Return, Lock, ControlOK, ProducerOK
<1>2. ASSUME IInv, SleepersWait, NEW c \in Consumers, Pop(c) PROVE SleepersWait'
  <2>1. CASE PopWait(c) \/ SpuriousWakeup(c)
    BY <1>2, <2>1 DEF PopWait, SpuriousWakeup
  <2>2. CASE ~(PopWait(c) \/ SpuriousWakeup(c))
    BY <1>2, <2>2 DEF Pop, PopCall, PopLock, PopRelock, PopShutdown, PopTake,
       PopCount, Return, Lock
  <2>3. QED
    BY <2>1, <2>2
<1>3. ASSUME IInv, SleepersWait, NEW k \in Closers, Close(k) PROVE SleepersWait'
  BY <1>3 DEF Close, ShutdownCall, ShutdownLock, Shutdown, Signal, Return, Lock,
     ControlOK, CloserOK
<1>4. SleepersWait /\ UNCHANGED vars => SleepersWait'
  BY DEF vars
<1> QED
  BY <1>1, <1>2, <1>3, <1>4 DEF Next

\* One step of the thread that makes it.
LEMMA PushAdvances ==
    ASSUME TypeOK, NEW p \in Producers, Push(p), pc[p] # "idle", pc'[p] # pc[p]
    PROVE  CallLeft(p)' < CallLeft(p)
<1>1. pc = [x \in Threads |-> pc[x]] /\ p \in Threads
  BY DEF TypeOK, Threads, Callers
<1>2. \/ pc[p] = "push_lock" /\ pc'[p] = "push"
      \/ pc[p] = "push" /\ pc'[p] \in {"unlock", "push_count"}
      \/ pc[p] = "push_count" /\ pc'[p] = "unlock"
      \/ pc[p] = "unlock" /\ pc'[p] = "idle"
  BY <1>1 DEF Push, PushCall, PushLock, PushFull, PushStore, PushCount, Return,
     Lock, Goto
<1>3. QED
  BY <1>2, CallLeftValues

LEMMA PopAdvances ==
    ASSUME TypeOK, NEW c \in Consumers, Pop(c), pc[c] # "idle", pc'[c] # pc[c]
    PROVE  \/ CallLeft(c)' < CallLeft(c)
           \/ pc'[c] = "wait" /\ count = 0 /\ ~shutdown_requested
<1>1. pc = [x \in Threads |-> pc[x]] /\ c \in Threads
  BY DEF TypeOK, Threads, Callers
<1>2. CASE PopWait(c)
  BY <1>1, <1>2 DEF PopWait, Goto
<1>3. CASE ~PopWait(c)
  <2>1. \/ pc[c] \in {"pop_lock", "wait"} /\ pc'[c] = "pop"
        \/ pc[c] = "pop" /\ pc'[c] \in {"unlock", "pop_count"}
        \/ pc[c] = "pop_count" /\ pc'[c] = "unlock"
        \/ pc[c] = "unlock" /\ pc'[c] = "idle"
    BY <1>1, <1>3 DEF Pop, PopCall, PopLock, SpuriousWakeup, PopRelock,
       PopShutdown, PopTake, PopCount, Return, Lock, Goto
  <2>2. QED
    BY <2>1, CallLeftValues
<1>4. QED
  BY <1>2, <1>3

LEMMA CloseAdvances ==
    ASSUME TypeOK, NEW k \in Closers, Close(k), pc[k] # "idle", pc'[k] # pc[k]
    PROVE  CallLeft(k)' < CallLeft(k)
<1>1. pc = [x \in Threads |-> pc[x]] /\ k \in Threads
  BY DEF TypeOK, Threads
<1>2. \/ pc[k] = "shutdown_lock" /\ pc'[k] = "shutdown"
      \/ pc[k] = "shutdown" /\ pc'[k] = "unlock"
      \/ pc[k] = "unlock" /\ pc'[k] = "idle"
  BY <1>1 DEF Close, ShutdownCall, ShutdownLock, Shutdown, Return, Lock, Goto
<1>3. QED
  BY <1>2, CallLeftValues

\* A step of one thread leaves the others where they are.
LEMMA OneMoves ==
    ASSUME TypeOK, NEW t \in Threads, NEW u \in Threads, t # u,
           \/ t \in Producers /\ Push(t)
           \/ t \in Consumers /\ Pop(t)
           \/ t \in Closers /\ Close(t)
    PROVE  pc'[u] = pc[u]
<1>1. pc = [x \in Threads |-> pc[x]]
  BY DEF TypeOK
<1>2. UNCHANGED pc \/ \E label : Goto(t, label)
  <2>1. CASE Push(t)
    BY <2>1 DEF Push, PushCall, PushLock, PushFull, PushStore, PushCount, Return, Lock
  <2>2. CASE Pop(t)
    BY <2>2 DEF Pop, PopCall, PopLock, PopWait, SpuriousWakeup, PopRelock,
       PopShutdown, PopTake, PopCount, Return, Lock
  <2>3. CASE Close(t)
    BY <2>3 DEF Close, ShutdownCall, ShutdownLock, Shutdown, Return, Lock
  <2>4. QED
    BY <2>1, <2>2, <2>3
<1>3. QED
  BY <1>1, <1>2 DEF Goto

\* No thread keeps the mutex, and none stays in a call unless it is a pop that
\* has nothing to take: the safety core of PushReturns and ShutdownReleasesPop,
\* for any number of threads on each side.
THEOREM CallsReturn == Spec => []HolderReturns /\ CallsAdvance
<1>1. ASSUME IInv, Next, NEW t \in Threads, pc[t] # "idle", pc'[t] # pc[t]
      PROVE  \/ CallLeft(t)' < CallLeft(t)
             \/ t \in Consumers /\ pc'[t] = "wait" /\ count = 0 /\ ~shutdown_requested
  <2>1. TypeOK
    BY <1>1 DEF IInv
  <2>2. PICK u \in Threads : \/ u \in Producers /\ Push(u)
                             \/ u \in Consumers /\ Pop(u)
                             \/ u \in Closers /\ Close(u)
    BY <1>1 DEF Next, Threads, Callers
  <2>3. u = t
    BY <1>1, <2>1, <2>2, OneMoves
  <2>4. QED
    BY <1>1, <2>1, <2>2, <2>3, PushAdvances, PopAdvances, CloseAdvances
<1>2. IInv /\ [Next]_vars
        => [\A t \in Threads :
              pc[t] # "idle" /\ pc'[t] # pc[t]
                => \/ CallLeft(t)' < CallLeft(t)
                   \/ t \in Consumers /\ pc'[t] = "wait" /\ count = 0
                        /\ ~shutdown_requested]_vars
  BY <1>1
<1>3. IInv /\ SleepersWait => HolderReturns
  BY HolderSuffices DEF IInv
<1>4. Init => SleepersWait
  BY DEF Init, SleepersWait
<1>5. QED
  BY <1>2, <1>3, <1>4, SleepersStep, Invariant, PTL DEF Spec, CallsAdvance

\* With one consumer, as in the server, a record that is queued while the writer
\* is in pop is not taken away and not left: the safety core of PopDelivers.
THEOREM PopTakesRecord == ASSUME NEW w, Consumers = {w}
                          PROVE  Spec => PopGetsRecord
<1>1. Init => WakeupInv
  BY DEF Init, WakeupInv, NoLostWakeup
<1>2. IInv /\ WakeupInv /\ [Next]_vars => WakeupInv'
  BY WakeupStep DEF IInv
<1>3. ASSUME IInv, WakeupInv, Next, NEW c \in Consumers,
             pc[c] \in {"pop_lock", "pop", "wait"}, count > 0
      PROVE  /\ c \notin waiters /\ count' > 0
             /\ \/ pc'[c] = pc[c]
                \/ pc[c] # "pop" /\ pc'[c] = "pop"
                \/ pc[c] = "pop" /\ pc'[c] = "pop_count"
  <2>0. /\ TypeOK /\ count \in Nat /\ pc = [x \in Threads |-> pc[x]] /\ c \in Threads
        /\ Consumers \subseteq Threads
    BY <1>3 DEF IInv, TypeOK, Threads, Callers
  <2>1. c \notin waiters
    BY <1>3, <2>0 DEF WakeupInv, NoLostWakeup
  <2>2. PICK u \in Threads : \/ u \in Producers /\ Push(u)
                             \/ u \in Consumers /\ Pop(u)
                             \/ u \in Closers /\ Close(u)
    BY <1>3 DEF Next, Threads, Callers
  <2>3. CASE u \in Producers /\ Push(u)
    <3>1. count' \in {count, count + 1}
      BY <2>3 DEF Push, PushCall, PushLock, PushFull, PushStore, PushCount, Return, ring
    <3>2. u # c
      BY <1>3, <2>3, ThreadsAssumption
    <3>3. pc'[c] = pc[c]
      BY <2>0, <2>2, <3>2, OneMoves
    <3>4. QED
      BY <1>3, <2>0, <2>1, <3>1, <3>3
  <2>4. CASE u \in Closers /\ Close(u)
    <3>1. count' = count
      BY <2>4 DEF Close, ShutdownCall, ShutdownLock, Shutdown, Return, ring
    <3>2. u # c
      BY <1>3, <2>4, ThreadsAssumption DEF Callers
    <3>3. pc'[c] = pc[c]
      BY <2>0, <2>2, <3>2, OneMoves
    <3>4. QED
      BY <1>3, <2>1, <3>1, <3>3
  <2>5. CASE u \in Consumers /\ Pop(u)
    <3>1. u = c /\ Pop(c)
      BY <1>3, <2>5
    <3>2. count' = count
      BY <1>3, <3>1 DEF Pop, PopCall, PopLock, PopWait, SpuriousWakeup, PopRelock,
         PopShutdown, PopTake, PopCount, Return, Lock, ring
    <3>3. \/ pc'[c] = pc[c]
          \/ pc[c] # "pop" /\ pc'[c] = "pop"
          \/ pc[c] = "pop" /\ pc'[c] = "pop_count"
      BY <1>3, <2>0, <3>1 DEF Pop, PopCall, PopLock, PopWait, SpuriousWakeup,
         PopRelock, PopShutdown, PopTake, PopCount, Return, Lock, Goto
    <3>4. QED
      BY <1>3, <2>1, <3>2, <3>3
  <2>6. QED
    BY <2>2, <2>3, <2>4, <2>5
<1>4. IInv /\ WakeupInv /\ [Next]_vars
        => [\A c \in Consumers :
              pc[c] \in {"pop_lock", "pop", "wait"} /\ count > 0
                => /\ c \notin waiters /\ count' > 0
                   /\ \/ pc'[c] = pc[c]
                      \/ pc[c] # "pop" /\ pc'[c] = "pop"
                      \/ pc[c] = "pop" /\ pc'[c] = "pop_count"]_vars
  BY <1>3
<1>5. QED
  BY <1>1, <1>2, <1>4, Invariant, PTL DEF Spec, PopGetsRecord
=============================================================================
