----------------------- MODULE FifoRefinementProofs -----------------------
(***************************************************************************)
(* The ring buffer of ResponseQueue implements BoundedFifo, for every      *)
(* capacity, every set of records and any number of threads.  A push takes *)
(* effect when it increments the counter, a pop when it reads the head.    *)
(***************************************************************************)
EXTENDS ResponseQueueProofs, SequenceTheorems

\* The record a producer has stored and not yet counted is in the slot that
\* becomes the last one of the queue.
StoredOK == \A p \in Producers :
              pc[p] = "push_count" => buffer[SlotAt(count)] = rec[p]

RInv == IInv /\ StoredOK

USE CapacityAssumption

LEMMA StoredStep == ASSUME IInv, StoredOK, [Next]_vars
                    PROVE  StoredOK'
<1> USE ThreadsAssumption DEF IInv, TypeOK, Callers, Threads, Goto, ring
<1>1. ASSUME NEW p \in Producers, Push(p) PROVE StoredOK'
  <2>1. CASE PushStore(p)
    <3>1. mutex = p
      BY <2>1 DEF PushStore, MutualExclusion, InCriticalSection
    <3>2. \A q \in Producers : q # p => pc[q] # "push_count"
      BY <3>1 DEF MutualExclusion, InCriticalSection
    <3>3. ~InPush /\ ~InPop
      BY <3>1, <2>1, HolderOnly DEF PushStore
    <3>4. tail = SlotAt(count)
      BY <3>3 DEF RingConsistent, Stored
    <3> QED
      BY <2>1, <3>2, <3>4 DEF PushStore, StoredOK, SlotAt, Slots
  <2>2. CASE \E r \in Records : PushCall(p, r)
    BY <2>2 DEF PushCall, StoredOK, SlotAt
  <2>3. CASE PushLock(p) \/ PushFull(p) \/ Return(p)
    BY <2>3 DEF PushLock, PushFull, Return, Lock, StoredOK, SlotAt
  <2>4. CASE PushCount(p)
    BY <2>4 DEF PushCount, StoredOK, MutualExclusion, InCriticalSection
  <2> QED
    BY <1>1, <2>1, <2>2, <2>3, <2>4 DEF Push
<1>2. ASSUME NEW c \in Consumers, Pop(c) PROVE StoredOK'
  <2>1. CASE PopTake(c) \/ PopCount(c)
    <3>1. mutex = c /\ \A p \in Producers : pc[p] # "push_count"
      BY <2>1 DEF PopTake, PopCount, MutualExclusion, InCriticalSection
    <3> QED
      BY <2>1, <3>1 DEF PopTake, PopCount, StoredOK
  <2>2. CASE ~(PopTake(c) \/ PopCount(c))
    BY <1>2, <2>2 DEF Pop, PopCall, PopLock, PopWait, SpuriousWakeup,
         PopRelock, PopShutdown, Return, Lock, StoredOK, SlotAt
  <2> QED
    BY <2>1, <2>2
<1>3. ASSUME NEW k \in Closers, Close(k) PROVE StoredOK'
  BY <1>3 DEF Close, ShutdownCall, ShutdownLock, Shutdown, Return, Lock,
              StoredOK, SlotAt
<1>4. CASE UNCHANGED vars
  BY <1>4 DEF vars, StoredOK, SlotAt
<1> QED
  BY <1>1, <1>2, <1>3, <1>4 DEF Next

LEMMA ReadableBounds == IInv => Readable \in 0 .. Capacity
BY DEF IInv, CounterOK, Readable, InPop, TypeOK

LEMMA ContentsIsSeq ==
  ASSUME IInv
  PROVE  /\ Contents \in Seq(Records \cup {NoRecord})
         /\ Len(Contents) = Readable
<1>1. \A i \in 1 .. Readable : buffer[SlotAt(i - 1)] \in Records \cup {NoRecord}
  BY ReadableBounds DEF IInv, TypeOK, Slots, SlotAt
<1> QED
  BY <1>1, ReadableBounds DEF Contents

\* Steps that neither move the ring nor change the label of a consumer that
\* is about to decrement the counter leave the abstract queue alone.
LEMMA ContentsUntouched ==
  ASSUME UNCHANGED ring,
         \A c \in Consumers : pc'[c] = "pop_count" <=> pc[c] = "pop_count"
  PROVE  Contents' = Contents
<1>1. InPop <=> InPop'
  BY DEF InPop
<1>2. Readable' = Readable
  BY <1>1 DEF Readable, ring
<1> QED
  BY <1>2 DEF Contents, SlotAt, ring

LEMMA StoreKeepsContents ==
  ASSUME IInv, NEW p \in Producers, PushStore(p)
  PROVE  Contents' = Contents
<1> USE ThreadsAssumption DEF IInv, TypeOK, Callers, Threads
<1>1. mutex = p
  BY DEF PushStore, MutualExclusion, InCriticalSection
<1>2. ~InPush /\ ~InPop
  BY <1>1, HolderOnly DEF PushStore
<1>3. ~InPop'
  BY <1>2 DEF InPop, PushStore, Goto
<1>4. tail = SlotAt(count)
  BY <1>2 DEF RingConsistent, Stored
<1>5. Readable' = count /\ Readable = count
  BY <1>2, <1>3 DEF Readable, PushStore
<1>6. \A i \in 1 .. count : SlotAt(i - 1) # tail /\ SlotAt(i - 1) \in Slots
  BY <1>4 DEF SlotAt, PushStore, Slots
<1>7. \A i \in 1 .. count : buffer'[SlotAt(i - 1)'] = buffer[SlotAt(i - 1)]
  BY <1>6 DEF PushStore, SlotAt
<1> QED
  BY <1>5, <1>7 DEF Contents

LEMMA CountAppends ==
  ASSUME IInv, StoredOK, NEW p \in Producers, PushCount(p)
  PROVE  Contents' = Append(Contents, rec[p]) /\ Len(Contents) < Capacity
<1> USE ThreadsAssumption DEF IInv, TypeOK, Callers, Threads
<1>1. mutex = p
  BY DEF PushCount, MutualExclusion, InCriticalSection
<1>2. InPush /\ ~InPop
  BY <1>1, HolderOnly DEF PushCount
<1>3. ~InPop'
  BY <1>2 DEF InPop, PushCount, Goto
<1>4. Readable = count /\ Readable' = count + 1 /\ count < Capacity
  BY <1>2, <1>3 DEF Readable, PushCount, CounterOK
<1>5. Len(Contents) = count /\ Contents \in Seq(Records \cup {NoRecord})
  BY <1>4, ContentsIsSeq
<1>6. \A i \in 1 .. count + 1 :
        Contents'[i] = IF i <= count THEN Contents[i] ELSE rec[p]
  <2>1. \A i \in 1 .. count + 1 : Contents'[i] = buffer[SlotAt(i - 1)]
    BY <1>4 DEF Contents, PushCount, SlotAt
  <2>2. \A i \in 1 .. count : Contents[i] = buffer[SlotAt(i - 1)]
    BY <1>4 DEF Contents
  <2>3. buffer[SlotAt(count)] = rec[p]
    BY DEF StoredOK, PushCount
  <2> QED
    BY <2>1, <2>2, <2>3
<1>7. Contents' = [i \in 1 .. count + 1 |-> Contents'[i]]
  BY <1>4 DEF Contents
<1>8. Append(Contents, rec[p])
        = [i \in 1 .. count + 1 |-> IF i <= count THEN Contents[i] ELSE rec[p]]
  BY <1>5
<1>9. Contents' = [i \in 1 .. count + 1 |-> IF i <= count THEN Contents[i] ELSE rec[p]]
  BY <1>6, <1>7, Zenon
<1> QED
  BY <1>4, <1>5, <1>8, <1>9

LEMMA TakeRemovesHead ==
  ASSUME IInv, NEW c \in Consumers, PopTake(c)
  PROVE  /\ Contents # <<>>
         /\ rec'[c] = Head(Contents)
         /\ Contents' = Tail(Contents)
<1> USE ThreadsAssumption DEF IInv, TypeOK, Callers, Threads
<1>1. mutex = c
  BY DEF PopTake, MutualExclusion, InCriticalSection
<1>2. ~InPush /\ ~InPop
  BY <1>1, HolderOnly DEF PopTake
<1>3. InPop'
  BY DEF InPop, PopTake, Goto
<1>4. Readable = count /\ Readable' = count - 1 /\ count > 0
  BY <1>2, <1>3 DEF Readable, PopTake
<1>5. Len(Contents) = count /\ Contents \in Seq(Records \cup {NoRecord})
  BY <1>4, ContentsIsSeq
<1>6. \A i \in 1 .. count : Contents[i] = buffer[SlotAt(i - 1)]
  BY <1>4 DEF Contents
<1>7. Contents # <<>> /\ rec'[c] = Head(Contents)
  BY <1>4, <1>5, <1>6 DEF PopTake, SlotAt, Slots
<1>8. \A i \in 1 .. count - 1 : Contents'[i] = Contents[i + 1]
  <2>1. \A i \in 1 .. count - 1 : Contents'[i] = buffer[SlotAt(i - 1)']
    BY <1>4 DEF Contents, PopTake
  <2>2. \A i \in 1 .. count - 1 : SlotAt(i - 1)' = SlotAt(i)
    BY DEF SlotAt, PopTake, Advance, Slots
  <2> QED
    BY <2>1, <2>2, <1>6
<1>9. Contents' = [i \in 1 .. count - 1 |-> Contents'[i]]
  BY <1>4 DEF Contents
<1>10. Tail(Contents) = [i \in 1 .. count - 1 |-> Contents[i + 1]]
  <2>1. /\ Tail(Contents) \in Seq(Records \cup {NoRecord})
        /\ Len(Tail(Contents)) = count - 1
        /\ \A i \in 1 .. count - 1 : Tail(Contents)[i] = Contents[i + 1]
    BY <1>5, <1>7, HeadTailProperties
  <2>2. Tail(Contents) \in [1 .. count - 1 -> Records \cup {NoRecord}]
    BY <2>1, LenProperties
  <2>3. Tail(Contents) = [i \in 1 .. count - 1 |-> Tail(Contents)[i]]
    BY <2>2, Zenon
  <2> QED
    BY <2>1, <2>3, Zenon
<1>11. Contents' = [i \in 1 .. count - 1 |-> Contents[i + 1]]
  BY <1>8, <1>9, Zenon
<1> QED
  BY <1>7, <1>10, <1>11

LEMMA InitMaps == Init => Fifo!Init
<1> SUFFICES ASSUME Init PROVE Fifo!Init
  OBVIOUS
<1>1. ~InPop
  BY DEF Init, InPop, Threads, Callers
<1>2. Readable = 0
  BY <1>1 DEF Readable, Init
<1>3. Contents = <<>>
  BY <1>2 DEF Contents
<1> QED
  BY <1>3 DEF Init, Fifo!Init, Fifo!Callers, Callers

LEMMA StepMaps == ASSUME RInv, [Next]_vars
                  PROVE  [Fifo!Next]_(Fifo!vars)
<1> USE ThreadsAssumption
<1> USE DEF RInv, IInv, TypeOK, Callers, Threads, Goto, Fifo!vars
<1>1. ASSUME NEW p \in Producers, Push(p) PROVE [Fifo!Next]_(Fifo!vars)
  <2>1. CASE \E r \in Records : PushCall(p, r)
    <3>1. PICK r \in Records : PushCall(p, r)
      BY <2>1
    <3>2. Contents' = Contents
      BY <3>1, ContentsUntouched DEF PushCall
    <3>3. Fifo!CallPush(p)
      BY <3>1, <3>2 DEF PushCall, Fifo!CallPush, ControlOK, ProducerOK
    <3> QED
      BY <3>3 DEF Fifo!Next
  <2>2. CASE PushLock(p) \/ Return(p)
    <3>1. Contents' = Contents
      BY <2>2, ContentsUntouched DEF PushLock, Return, Lock
    <3> QED
      BY <2>2, <3>1 DEF PushLock, Return, Lock
  <2>3. CASE PushFull(p)
    <3>1. Contents' = Contents
      BY <2>3, ContentsUntouched DEF PushFull
    <3>2. mutex = p
      BY <2>3 DEF PushFull, MutualExclusion, InCriticalSection
    <3>3. ~InPop
      BY <3>2, HolderOnly
    <3>4. Len(Contents) = Capacity
      BY <2>3, <3>3, ContentsIsSeq DEF PushFull, Readable
    <3>5. Fifo!Refuse(p)
      BY <2>3, <3>1, <3>4 DEF PushFull, Fifo!Refuse, ControlOK, ProducerOK
    <3> QED
      BY <3>5 DEF Fifo!Next
  <2>4. CASE PushStore(p)
    BY <2>4, StoreKeepsContents DEF PushStore
  <2>5. CASE PushCount(p)
    <3>1. Fifo!Put(p)
      BY <2>5, CountAppends DEF PushCount, Fifo!Put, ControlOK, ProducerOK
    <3> QED
      BY <3>1 DEF Fifo!Next
  <2> QED
    BY <1>1, <2>1, <2>2, <2>3, <2>4, <2>5 DEF Push
<1>2. ASSUME NEW c \in Consumers, Pop(c) PROVE [Fifo!Next]_(Fifo!vars)
  <2>1. CASE PopCall(c)
    <3>1. Contents' = Contents
      BY <2>1, ContentsUntouched DEF PopCall
    <3>2. Fifo!CallPop(c)
      BY <2>1, <3>1 DEF PopCall, Fifo!CallPop, ControlOK, ConsumerOK
    <3> QED
      BY <3>2 DEF Fifo!Next
  <2>2. CASE PopLock(c) \/ PopWait(c) \/ SpuriousWakeup(c) \/ PopRelock(c)
                \/ Return(c)
    <3>1. Contents' = Contents
      BY <2>2, ContentsUntouched
         DEF PopLock, PopWait, SpuriousWakeup, PopRelock, Return, Lock
    <3> QED
      BY <2>2, <3>1
         DEF PopLock, PopWait, SpuriousWakeup, PopRelock, Return, Lock
  <2>3. CASE PopShutdown(c)
    <3>1. Contents' = Contents
      BY <2>3, ContentsUntouched DEF PopShutdown
    <3>2. mutex = c
      BY <2>3 DEF PopShutdown, MutualExclusion, InCriticalSection
    <3>3. ~InPop
      BY <2>3, <3>2, HolderOnly DEF PopShutdown
    <3>4. Contents = <<>>
      BY <2>3, <3>3 DEF PopShutdown, Readable, Contents
    <3>5. Fifo!TakeNothing(c)
      BY <2>3, <3>1, <3>4
         DEF PopShutdown, Fifo!TakeNothing, ControlOK, ConsumerOK
    <3> QED
      BY <3>5 DEF Fifo!Next
  <2>4. CASE PopTake(c)
    <3>1. rec' = [rec EXCEPT ![c] = Head(Contents)]
      BY <2>4, TakeRemovesHead DEF PopTake
    <3>2. Fifo!Take(c)
      BY <2>4, <3>1, TakeRemovesHead
         DEF PopTake, Fifo!Take, ControlOK, ConsumerOK
    <3> QED
      BY <3>2 DEF Fifo!Next
  <2>5. CASE PopCount(c)
    <3>1. mutex = c
      BY <2>5 DEF PopCount, MutualExclusion, InCriticalSection
    <3>2. InPop
      BY <2>5 DEF PopCount, InPop
    <3>3. ~InPop'
      BY <2>5, <3>1 DEF PopCount, InPop, MutualExclusion, InCriticalSection
    <3>4. Readable' = Readable
      BY <2>5, <3>2, <3>3 DEF Readable, PopCount
    <3>5. Contents' = Contents
      BY <2>5, <3>4 DEF Contents, PopCount, SlotAt
    <3> QED
      BY <2>5, <3>5 DEF PopCount
  <2> QED
    BY <1>2, <2>1, <2>2, <2>3, <2>4, <2>5 DEF Pop
<1>3. ASSUME NEW k \in Closers, Close(k) PROVE [Fifo!Next]_(Fifo!vars)
  <2>1. Contents' = Contents
    BY <1>3, ContentsUntouched
       DEF Close, ShutdownCall, ShutdownLock, Shutdown, Return, Lock
  <2>2. CASE Shutdown(k)
    <3>1. Fifo!Close
      BY <2>1, <2>2 DEF Shutdown, Fifo!Close
    <3> QED
      BY <3>1 DEF Fifo!Next
  <2>3. CASE ~Shutdown(k)
    BY <1>3, <2>1, <2>3 DEF Close, ShutdownCall, ShutdownLock, Return, Lock
  <2> QED
    BY <2>2, <2>3
<1>4. CASE UNCHANGED vars
  <2>1. Contents' = Contents
    BY <1>4, ContentsUntouched DEF vars, ring
  <2> QED
    BY <1>4, <2>1 DEF vars
<1> QED
  BY <1>1, <1>2, <1>3, <1>4 DEF Next

\* Whatever the interleaving of its threads, response_queue.c behaves as a
\* bounded first-in first-out queue that can be closed.
THEOREM QueueImplementsFifo == Spec => ImplementsFifo
<1>1. Init => StoredOK
  BY DEF Init, StoredOK, Threads, Callers
<1>2. IInv /\ StoredOK /\ [Next]_vars => StoredOK'
  BY StoredStep
<1>3. Spec => []RInv
  BY Invariant, <1>1, <1>2, PTL DEF Spec, RInv
<1>4. RInv /\ [Next]_vars => [Fifo!Next]_(Fifo!vars)
  BY StepMaps
<1> QED
  BY <1>3, <1>4, InitMaps, PTL DEF Spec, ImplementsFifo, Fifo!Spec
=============================================================================
