--------------------------- MODULE PipelineProofs ---------------------------
(***************************************************************************)
(* For queues of any length and any commands, peers and packets, the       *)
(* pipeline of the firmware uses a queue only once it is created, answers  *)
(* nobody but those who have sent a command if every packet is one,        *)
(* answers the tests of one peripheral in the order of their commands, and *)
(* implements TestService: no answer is made up and none is given twice.   *)
(* With the commands it holds it makes a bounded number of steps.          *)
(***************************************************************************)
EXTENDS FirmwarePipeline, FiniteSetTheorems, TLAPS

CommandQueues == {"command"} \cup Peripherals

DataTypes ==
    /\ boot \in 0 .. 8 /\ pcb \in BOOLEAN
    /\ remote \in Maybe(Peers)
    /\ queue = [q \in Queues |-> queue[q]]
    /\ \A q \in CommandQueues : queue[q] \in Seq(Ids)
    /\ queue["response"] \in Seq(Responses)
    /\ \A q \in Queues : Len(queue[q]) <= QueueLength[q]
    /\ netCmd \in MaybeId /\ dispCmd \in MaybeId
    /\ taskCmd \in [Peripherals -> MaybeId]
    /\ taskRes \in [Peripherals -> Maybe(Results)]
    /\ \A p \in Peripherals : taskRes[p] # None => taskCmd[p] # NoId
    /\ sendRes \in Responses \cup {NoResponse}
    /\ sendAddr \in Maybe(Peers)
    /\ sendAddr # None => sendRes # NoResponse /\ remote # None
    /\ packets \in [Ids -> Nat] /\ bad \in 0 .. BadPackets
    /\ accepted \in Seq(Ids) /\ senders \subseteq Peers

\* Nothing enters the pipeline before the last module, the network, is there.
BootInv ==
    boot < 8 => /\ ~pcb /\ netCmd = NoId /\ dispCmd = NoId
                /\ sendRes = NoResponse
                /\ \A p \in Peripherals : taskCmd[p] = NoId
                /\ \A q \in Queues : queue[q] = <<>>

\* If every packet is a command, only those who have sent one are answered.
SenderInv ==
    BadPackets = 0 => /\ remote \in Maybe(senders)
                      /\ sendAddr \in Maybe(senders)
                      /\ RepliesToCommandSender

\* The stages of the pipeline and the places in each: where a test may be.
Stages == 0 .. 6
Places == Nat \ {0}

At(i, s, n) ==
    \/ s = 0 /\ n = 1 /\ netCmd = i
    \/ s = 1 /\ n \in 1 .. Len(queue["command"]) /\ queue["command"][n] = i
    \/ s = 2 /\ n = 1 /\ dispCmd = i
    \/ /\ s = 3 /\ PeripheralOf[i] \in Peripherals
       /\ n \in 1 .. Len(queue[PeripheralOf[i]]) /\ queue[PeripheralOf[i]][n] = i
    \/ s = 4 /\ n = 1 /\ PeripheralOf[i] \in Peripherals /\ taskCmd[PeripheralOf[i]] = i
    \/ s = 5 /\ n \in 1 .. Len(queue["response"]) /\ queue["response"][n].test_id = i
    \/ s = 6 /\ n = 1 /\ sendRes.test_id = i

\* A command is only ever with the task of its own peripheral.
PlaceInv ==
    \A p \in Peripherals :
        /\ \A n \in 1 .. Len(queue[p]) : PeripheralOf[queue[p][n]] = p
        /\ taskCmd[p] # NoId => PeripheralOf[taskCmd[p]] = p

Accepted(i) == \E n \in 1 .. Len(accepted) : accepted[n] = i

\* A test whose command came once is at one place, was accepted once, when it
\* had left the network, and is behind those of its peripheral accepted before.
FreshInv == \A i \in Ids : packets[i] = 0 =>
                ~Accepted(i) /\ \A s \in Stages, n \in Places : ~At(i, s, n)

OnceInv == \A i \in Ids : packets[i] = 1 =>
    /\ \A s, t \in Stages, m, n \in Places : At(i, s, m) /\ At(i, t, n) => s = t /\ m = n
    /\ At(i, 0, 1) => ~Accepted(i)

AheadInv == \A i, k \in Ids :
    packets[i] = 1 /\ packets[k] = 1 /\ PeripheralOf[i] = PeripheralOf[k]
      /\ QueuedBefore(i, k)
      => /\ i # k
         /\ \A s, t \in Stages, m, n \in Places :
               At(i, s, m) /\ At(k, t, n) => t < s \/ (t = s /\ n > m)

OrderInv == FreshInv /\ OnceInv /\ AheadInv

Inv == DataTypes /\ BootInv /\ SenderInv /\ PlaceInv /\ OrderInv

-----------------------------------------------------------------------------
LEMMA Constants == /\ QueueLength \in [Queues -> Nat \ {0}]
                   /\ "response" \notin CommandQueues
                   /\ Queues = CommandQueues \cup {"response"}
                   /\ NoId \notin Ids
                   /\ None \notin Results
                   /\ NoResponse \notin Responses
                   /\ Len(BootOrder) = 8
                   /\ None \notin Peers
  BY PipelineAssumption DEF CommandQueues, Queues, NoId, None, Results, Responses,
     NoResponse, BootOrder

\* What a queue with one more item at its end, or one less at its start, is.
LEMMA AppendTyped ==
    ASSUME NEW S, NEW s \in Seq(S), NEW x \in S
    PROVE  Append(s, x) \in Seq(S) /\ Len(Append(s, x)) = Len(s) + 1 /\ Len(s) \in Nat
  OBVIOUS

LEMMA TailTyped ==
    ASSUME NEW S, NEW s \in Seq(S), s # <<>>
    PROVE  /\ Head(s) \in S /\ Tail(s) \in Seq(S) /\ Len(Tail(s)) = Len(s) - 1
           /\ Len(s) \in Nat
  OBVIOUS

\* The queues after one of them was changed.
LEMMA EnqueueTyped ==
    ASSUME DataTypes, NEW q \in Queues, NEW x, ~Full(q), Enqueue(q, x),
           IF q = "response" THEN x \in Responses ELSE x \in Ids
    PROVE  /\ queue' = [r \in Queues |-> queue'[r]]
           /\ \A r \in CommandQueues : queue'[r] \in Seq(Ids)
           /\ queue'["response"] \in Seq(Responses)
           /\ \A r \in Queues : Len(queue'[r]) <= QueueLength[r]
<1>1. /\ queue' = [queue EXCEPT ![q] = Append(queue[q], x)]
      /\ queue' = [r \in Queues |-> queue'[r]]
      /\ queue'[q] = Append(queue[q], x)
      /\ \A r \in Queues \ {q} : queue'[r] = queue[r]
  BY DEF Enqueue, DataTypes
<1>2. Len(queue[q]) < QueueLength[q] /\ QueueLength[q] \in Nat
  <2>1. Len(queue[q]) \in Nat
    BY Constants DEF DataTypes
  <2>2. QED
    BY <2>1, Constants DEF Full
<1>3. CASE q = "response"
  <2>1. /\ queue'[q] \in Seq(Responses) /\ Len(queue'[q]) = Len(queue[q]) + 1
        /\ Len(queue[q]) \in Nat
    BY <1>1, <1>3, AppendTyped DEF DataTypes
  <2>2. \A r \in CommandQueues : queue'[r] \in Seq(Ids)
    BY <1>1, <1>3, <2>1, Constants DEF DataTypes
  <2>3. queue'["response"] \in Seq(Responses)
    BY <1>1, <1>3, <2>1, Constants DEF DataTypes
  <2>4. \A r \in Queues : Len(queue'[r]) <= QueueLength[r]
    <3> SUFFICES ASSUME NEW r \in Queues PROVE Len(queue'[r]) <= QueueLength[r]
      OBVIOUS
    <3>1. CASE r = q
      BY <1>1, <1>2, <2>1, <3>1
    <3>2. CASE r # q
      BY <1>1, <3>2 DEF DataTypes
    <3>3. QED
      BY <3>1, <3>2
  <2>5. QED
    BY <1>1, <1>3, <2>1, <2>2, <2>3, <2>4
<1>4. CASE q # "response"
  <2>1. /\ queue'[q] \in Seq(Ids) /\ Len(queue'[q]) = Len(queue[q]) + 1
        /\ Len(queue[q]) \in Nat
    BY <1>1, <1>4, AppendTyped, Constants DEF DataTypes
  <2>2. \A r \in CommandQueues : queue'[r] \in Seq(Ids)
    BY <1>1, <1>4, <2>1, Constants DEF DataTypes
  <2>3. queue'["response"] \in Seq(Responses)
    BY <1>1, <1>4, <2>1, Constants DEF DataTypes
  <2>4. \A r \in Queues : Len(queue'[r]) <= QueueLength[r]
    <3> SUFFICES ASSUME NEW r \in Queues PROVE Len(queue'[r]) <= QueueLength[r]
      OBVIOUS
    <3>1. CASE r = q
      BY <1>1, <1>2, <2>1, <3>1
    <3>2. CASE r # q
      BY <1>1, <3>2 DEF DataTypes
    <3>3. QED
      BY <3>1, <3>2
  <2>5. QED
    BY <1>1, <1>4, <2>1, <2>2, <2>3, <2>4
<1>5. QED
  BY <1>3, <1>4

LEMMA DequeueTyped ==
    ASSUME DataTypes, NEW q \in Queues, queue[q] # <<>>, Dequeue(q)
    PROVE  /\ queue' = [r \in Queues |-> queue'[r]]
           /\ \A r \in CommandQueues : queue'[r] \in Seq(Ids)
           /\ queue'["response"] \in Seq(Responses)
           /\ \A r \in Queues : Len(queue'[r]) <= QueueLength[r]
           /\ IF q = "response" THEN Head(queue[q]) \in Responses ELSE Head(queue[q]) \in Ids
<1>1. /\ queue' = [r \in Queues |-> queue'[r]]
      /\ queue'[q] = Tail(queue[q])
      /\ \A r \in Queues \ {q} : queue'[r] = queue[r]
  BY DEF Dequeue, DataTypes
<1>2. QueueLength[q] \in Nat /\ Len(queue[q]) <= QueueLength[q]
  BY Constants DEF DataTypes
<1>3. CASE q = "response"
  <2>1. /\ queue'[q] \in Seq(Responses) /\ Len(queue'[q]) = Len(queue[q]) - 1
        /\ Len(queue[q]) \in Nat /\ Head(queue[q]) \in Responses
    BY <1>1, <1>3, TailTyped DEF DataTypes
  <2>2. \A r \in CommandQueues : queue'[r] \in Seq(Ids)
    BY <1>1, <1>3, <2>1, Constants DEF DataTypes
  <2>3. queue'["response"] \in Seq(Responses)
    BY <1>1, <1>3, <2>1, Constants DEF DataTypes
  <2>4. \A r \in Queues : Len(queue'[r]) <= QueueLength[r]
    <3> SUFFICES ASSUME NEW r \in Queues PROVE Len(queue'[r]) <= QueueLength[r]
      OBVIOUS
    <3>1. CASE r = q
      BY <1>1, <1>2, <2>1, <3>1
    <3>2. CASE r # q
      BY <1>1, <3>2 DEF DataTypes
    <3>3. QED
      BY <3>1, <3>2
  <2>5. QED
    BY <1>1, <1>3, <2>1, <2>2, <2>3, <2>4
<1>4. CASE q # "response"
  <2>1. /\ queue'[q] \in Seq(Ids) /\ Len(queue'[q]) = Len(queue[q]) - 1
        /\ Len(queue[q]) \in Nat /\ Head(queue[q]) \in Ids
    BY <1>1, <1>4, TailTyped, Constants DEF DataTypes
  <2>2. \A r \in CommandQueues : queue'[r] \in Seq(Ids)
    BY <1>1, <1>4, <2>1, Constants DEF DataTypes
  <2>3. queue'["response"] \in Seq(Responses)
    BY <1>1, <1>4, <2>1, Constants DEF DataTypes
  <2>4. \A r \in Queues : Len(queue'[r]) <= QueueLength[r]
    <3> SUFFICES ASSUME NEW r \in Queues PROVE Len(queue'[r]) <= QueueLength[r]
      OBVIOUS
    <3>1. CASE r = q
      BY <1>1, <1>2, <2>1, <3>1
    <3>2. CASE r # q
      BY <1>1, <3>2 DEF DataTypes
    <3>3. QED
      BY <3>1, <3>2
  <2>5. QED
    BY <1>1, <1>4, <2>1, <2>2, <2>3, <2>4
<1>5. QED
  BY <1>3, <1>4
-----------------------------------------------------------------------------
(* Types *)

\* The types are those of the invariant of FirmwarePipeline, and more.
LEMMA TypesSuffice == DataTypes => TypeOK
<1> SUFFICES ASSUME DataTypes PROVE TypeOK
  OBVIOUS
<1>1. \A q \in Queues \ {"response"} : \A k \in 1 .. Len(queue[q]) : queue[q][k] \in Ids
  <2> SUFFICES ASSUME NEW q \in Queues \ {"response"}
               PROVE  \A k \in 1 .. Len(queue[q]) : queue[q][k] \in Ids
    OBVIOUS
  <2>1. queue[q] \in Seq(Ids)
    BY Constants DEF DataTypes
  <2>2. QED
    BY <2>1
<1>2. \A k \in 1 .. Len(queue["response"]) : queue["response"][k] \in Responses
  BY DEF DataTypes
<1>3. boot \in 0 .. Len(BootOrder)
  BY Constants DEF DataTypes
<1>4. QED
  BY <1>1, <1>2, <1>3 DEF DataTypes, TypeOK

LEMMA TypeStart == Init => DataTypes
<1> SUFFICES ASSUME Init PROVE DataTypes
  OBVIOUS
<1>1. /\ queue = [q \in Queues |-> <<>>] /\ queue = [q \in Queues |-> queue[q]]
      /\ \A q \in Queues : queue[q] = <<>>
  BY DEF Init
<1>2. /\ \A q \in CommandQueues : queue[q] \in Seq(Ids)
      /\ queue["response"] \in Seq(Responses)
  BY <1>1, Constants
<1>3. \A q \in Queues : Len(queue[q]) <= QueueLength[q]
  BY <1>1, Constants
<1>4. /\ boot \in 0 .. 8 /\ bad \in 0 .. BadPackets
      /\ packets \in [Ids -> Nat] /\ accepted \in Seq(Ids) /\ senders \subseteq Peers
  BY PipelineAssumption DEF Init
<1>5. /\ taskCmd \in [Peripherals -> MaybeId] /\ taskRes \in [Peripherals -> Maybe(Results)]
      /\ \A p \in Peripherals : taskRes[p] # None => taskCmd[p] # NoId
  BY DEF Init, Maybe, MaybeId
<1>6. QED
  BY <1>1, <1>2, <1>3, <1>4, <1>5 DEF Init, DataTypes, Maybe, MaybeId

\* Every step keeps the types.
LEMMA TypeStep == DataTypes /\ Next => DataTypes'
<1> SUFFICES ASSUME DataTypes, Next PROVE DataTypes'
  OBVIOUS
<1> DEFINE Q == /\ queue' = [q \in Queues |-> queue'[q]]
                /\ \A q \in CommandQueues : queue'[q] \in Seq(Ids)
                /\ queue'["response"] \in Seq(Responses)
                /\ \A q \in Queues : Len(queue'[q]) <= QueueLength[q]
<1>0. "command" \in Queues /\ "response" \in Queues /\ Peripherals \subseteq Queues
      /\ "response" \notin Peripherals
  BY Constants DEF CommandQueues
<1>q. UNCHANGED queue => Q
  BY DEF DataTypes
<1> HIDE DEF Q
<1> USE DEF counters, history, Maybe, MaybeId
<1>1. CASE BootModule \/ BootNetwork
  <2>1. boot' \in 0 .. 8 /\ pcb' \in BOOLEAN
    BY <1>1, Constants DEF BootModule, BootNetwork, DataTypes
  <2>2. UNCHANGED <<remote, queue, control, out, counters, history>>
    BY <1>1 DEF BootModule, BootNetwork
  <2>3. QED
    BY <2>1, <2>2 DEF DataTypes, control
<1>2. ASSUME NEW peer \in Peers, ReceiveBad(peer) PROVE DataTypes'
  <2>1. bad' \in 0 .. BadPackets
    BY <1>2, PipelineAssumption DEF ReceiveBad, DataTypes
  <2>2. remote' = peer /\ UNCHANGED <<boot, pcb, queue, control, packets, history>>
    BY <1>2 DEF ReceiveBad
  <2>3. remote' # None
    BY <2>2, Constants
  <2>4. QED
    BY <2>1, <2>2, <2>3 DEF DataTypes, control
<1>3. ASSUME NEW peer \in Peers, NEW i \in Ids, ReceiveCommand(peer, i)
      PROVE  DataTypes'
  <2>1. packets' \in [Ids -> Nat] /\ senders' \subseteq Peers /\ remote' # None
    BY <1>3, Constants DEF ReceiveCommand, DataTypes
  <2>2. /\ remote' = peer /\ netCmd' = i
        /\ UNCHANGED <<boot, pcb, queue, dispCmd, taskCmd, taskRes, sendRes,
                       sendAddr, bad, accepted>>
    BY <1>3 DEF ReceiveCommand
  <2>3. QED
    BY <2>1, <2>2 DEF DataTypes
<1>4. CASE QueueCommand
  <2>1. /\ Q /\ accepted' \in Seq(Ids)
    BY <1>4, <1>0, EnqueueTyped DEF QueueCommand, DataTypes, Q
  <2>2. /\ netCmd' = NoId
        /\ UNCHANGED <<boot, pcb, remote, dispCmd, taskCmd, taskRes, sendRes,
                       sendAddr, counters, senders>>
    BY <1>4 DEF QueueCommand
  <2>3. QED
    BY <2>1, <2>2 DEF DataTypes, Q
<1>5. CASE DropCommand
  BY <1>5 DEF DropCommand, DataTypes
<1>6. CASE DispatcherReceive
  <2>1. Q /\ dispCmd' \in Ids
    BY <1>6, <1>0, DequeueTyped DEF DispatcherReceive, Q
  <2>2. UNCHANGED <<boot, pcb, remote, netCmd, taskCmd, taskRes, sendRes,
                    sendAddr, counters, history>>
    BY <1>6 DEF DispatcherReceive
  <2>3. QED
    BY <2>1, <2>2 DEF DataTypes, Q
<1>7. CASE Dispatch
  <2>1. Q
    <3>1. PICK p \in Peripherals : ~Full(p) /\ Enqueue(p, dispCmd) /\ dispCmd \in Ids
      BY <1>7 DEF Dispatch, DataTypes
    <3>2. QED
      BY <1>0, <3>1, EnqueueTyped DEF Q
  <2>2. /\ dispCmd' = NoId
        /\ UNCHANGED <<boot, pcb, remote, netCmd, taskCmd, taskRes, sendRes,
                       sendAddr, counters, history>>
    BY <1>7 DEF Dispatch
  <2>3. QED
    BY <2>1, <2>2 DEF DataTypes, Q
<1>8. CASE DispatchFails \/ DispatchUnknown
  <2>1. /\ dispCmd' = NoId
        /\ UNCHANGED <<boot, pcb, remote, queue, netCmd, taskCmd, taskRes, sendRes,
                       sendAddr, counters, history>>
    BY <1>8 DEF DispatchFails, DispatchUnknown
  <2>2. QED
    BY <2>1 DEF DataTypes
<1>9. ASSUME NEW p \in Peripherals, TaskReceive(p) PROVE DataTypes'
  <2>1. Q /\ Head(queue[p]) \in Ids
    BY <1>9, <1>0, DequeueTyped DEF TaskReceive, Q
  <2>2. /\ taskCmd' \in [Peripherals -> MaybeId]
        /\ \A r \in Peripherals : taskRes[r] # None => taskCmd'[r] # NoId
    BY <1>9, <2>1, Constants DEF TaskReceive, DataTypes
  <2>3. UNCHANGED <<boot, pcb, remote, netCmd, dispCmd, taskRes, sendRes, sendAddr,
                    counters, history>>
    BY <1>9 DEF TaskReceive
  <2>4. QED
    BY <2>1, <2>2, <2>3 DEF DataTypes, Q
<1>10. ASSUME NEW p \in Peripherals, NEW r \in Results, TaskRun(p, r) PROVE DataTypes'
  <2>1. /\ taskRes' \in [Peripherals -> Maybe(Results)]
        /\ \A t \in Peripherals : taskRes'[t] # None => taskCmd[t] # NoId
    BY <1>10 DEF TaskRun, DataTypes
  <2>2. UNCHANGED <<boot, pcb, remote, queue, netCmd, dispCmd, taskCmd, sendRes,
                    sendAddr, counters, history>>
    BY <1>10 DEF TaskRun
  <2>3. QED
    BY <2>1, <2>2 DEF DataTypes
<1>11. ASSUME NEW p \in Peripherals, TaskRespond(p) \/ TaskDrop(p) PROVE DataTypes'
  <2>1. Q
    <3>1. CASE TaskDrop(p)
      BY <1>q, <3>1 DEF TaskDrop
    <3>2. CASE TaskRespond(p)
      <4>1. [test_id |-> taskCmd[p], result |-> taskRes[p]] \in Responses
        BY <3>2 DEF TaskRespond, DataTypes, Responses
      <4>2. QED
        BY <1>0, <3>2, <4>1, EnqueueTyped DEF TaskRespond, Q
    <3>3. QED
      BY <1>11, <3>1, <3>2
  <2>2. TaskDone(p)
    BY <1>11 DEF TaskRespond, TaskDrop
  <2>3. /\ taskCmd' \in [Peripherals -> MaybeId]
        /\ taskRes' \in [Peripherals -> Maybe(Results)]
        /\ \A t \in Peripherals : taskRes'[t] # None => taskCmd'[t] # NoId
    BY <2>2 DEF TaskDone, DataTypes
  <2>4. UNCHANGED <<boot, pcb, remote, netCmd, dispCmd, sendRes, sendAddr, counters,
                    history>>
    BY <2>2 DEF TaskDone
  <2>5. QED
    BY <2>1, <2>3, <2>4 DEF DataTypes, Q
<1>12. CASE SenderReceive
  <2>1. Q /\ sendRes' \in Responses
    BY <1>12, <1>0, DequeueTyped DEF SenderReceive, Q
  <2>2. /\ sendAddr' = sendAddr /\ sendRes' # NoResponse
        /\ UNCHANGED <<boot, pcb, remote, netCmd, dispCmd, taskCmd, taskRes,
                       counters, history>>
    BY <1>12, <2>1, Constants DEF SenderReceive
  <2>3. QED
    BY <2>1, <2>2 DEF DataTypes, Q
<1>13. CASE SenderFails \/ SenderSend
  <2>1. SenderDone
    BY <1>13 DEF SenderFails, SenderSend
  <2>2. QED
    BY <2>1 DEF SenderDone, DataTypes
<1>14. CASE SenderReadAddress
  BY <1>14 DEF SenderReadAddress, DataTypes
<1>15. QED
  BY <1>1, <1>2, <1>3, <1>4, <1>5, <1>6, <1>7, <1>8, <1>9, <1>10, <1>11, <1>12,
     <1>13, <1>14 DEF Next, Network, Dispatcher, Task, Sender
-----------------------------------------------------------------------------
(* Start-up *)

LEMMA BootStart == Init => BootInv
  BY DEF Init, BootInv

LEMMA BootStep == DataTypes /\ BootInv /\ Next => BootInv'
<1> SUFFICES ASSUME DataTypes, BootInv, Next, boot' < 8 PROVE BootInv'
  BY DEF BootInv
<1>0. BootOrder[8] = "net" /\ Len(BootOrder) = 8 /\ boot \in 0 .. 8
  BY DEF BootOrder, DataTypes
<1>1. CASE BootModule
  BY <1>0, <1>1 DEF BootModule, BootInv, control, counters, history
<1>2. CASE BootNetwork
  <2>1. boot < 8 /\ BootOrder[boot + 1] = "net"
    BY <1>0, <1>2 DEF BootNetwork
  <2>2. boot = 7
    BY <1>0, <2>1 DEF BootOrder
  <2>3. QED
    BY <1>2, <2>2 DEF BootNetwork
<1>3. CASE Network
  BY <1>3 DEF BootInv, Network, ReceiveBad, ReceiveCommand, QueueCommand, DropCommand
<1>4. CASE Dispatcher
  BY <1>4, Constants DEF BootInv, Dispatcher, DispatcherReceive, Dispatch, DispatchFails,
     DispatchUnknown, CommandQueues
<1>5. ASSUME NEW p \in Peripherals, Task(p) PROVE FALSE
  <2>1. taskCmd[p] = NoId /\ taskRes[p] = None /\ queue[p] = <<>> /\ UNCHANGED boot
    BY <1>5 DEF BootInv, DataTypes, Queues, Task, TaskReceive, TaskRun, TaskRespond,
       TaskDrop, TaskDone
  <2>2. QED
    BY <1>5, <2>1 DEF Task, TaskReceive, TaskRun, TaskRespond, TaskDrop
<1>6. CASE Sender
  BY <1>6, Constants DEF BootInv, DataTypes, Sender, SenderReceive, SenderFails,
     SenderReadAddress, SenderSend, SenderDone
<1>7. QED
  BY <1>1, <1>2, <1>3, <1>4, <1>5, <1>6 DEF Next

\* The network is the last module: with it all the queues are there.
LEMMA BootSuffices == DataTypes /\ BootInv => CreatedBeforeUse
<1> SUFFICES ASSUME DataTypes, BootInv PROVE CreatedBeforeUse
  OBVIOUS
<1>1. CASE boot < 8
  BY <1>1 DEF BootInv, CreatedBeforeUse
<1>2. CASE boot = 8
  <2>1. /\ BootOrder[1] = "response" /\ BootOrder[2] = "command"
        /\ BootOrder[3] = "TIMER" /\ BootOrder[4] = "UART" /\ BootOrder[5] = "I2C"
        /\ BootOrder[6] = "SPI" /\ BootOrder[7] = "ADC"
    BY DEF BootOrder
  <2>2. \A q \in Queues : Created(q)
    BY <1>2, <2>1, PipelineAssumption DEF Created, Queues
  <2>3. QED
    BY <2>2 DEF CreatedBeforeUse, Queues
<1>3. QED
  BY <1>1, <1>2 DEF DataTypes
-----------------------------------------------------------------------------
(* Who is answered *)

LEMMA SenderStart == Init => SenderInv
  BY DEF Init, SenderInv, RepliesToCommandSender, Maybe, EmptyBag, SetToBag

\* Of all the steps only a packet, a read of the address and an answer matter.
LEMMA SenderStep == DataTypes /\ SenderInv /\ Next => SenderInv'
<1> SUFFICES ASSUME DataTypes, SenderInv, Next, BadPackets = 0 PROVE SenderInv'
  BY DEF SenderInv
<1> USE DEF Maybe, counters, history, control
<1>1. ASSUME NEW peer \in Peers, NEW i \in Ids, ReceiveCommand(peer, i)
      PROVE  SenderInv'
  BY <1>1 DEF ReceiveCommand, SenderInv, RepliesToCommandSender
<1>2. ASSUME NEW peer \in Peers, ReceiveBad(peer) PROVE FALSE
  BY <1>2 DEF ReceiveBad, DataTypes
<1>3. CASE SenderSend
  <2> DEFINE d == [test_id |-> sendRes.test_id, result |-> sendRes.result,
                   addr |-> sendAddr, port |-> remote]
  <2>1. DOMAIN out' = DOMAIN out \cup {d}
    BY <1>3 DEF SenderSend, SetToBag, (+)
  <2>2. sendAddr \in senders /\ remote \in senders
    BY <1>3 DEF SenderSend, SenderInv, DataTypes
  <2>3. UNCHANGED <<remote, senders>> /\ sendAddr' = None
    BY <1>3 DEF SenderSend, SenderDone
  <2>4. QED
    BY <2>1, <2>2, <2>3 DEF SenderInv, RepliesToCommandSender
<1>4. CASE SenderReadAddress
  BY <1>4 DEF SenderReadAddress, SenderInv, RepliesToCommandSender
<1>5. CASE SenderReceive \/ SenderFails
  BY <1>5 DEF SenderReceive, SenderFails, SenderDone, SenderInv, RepliesToCommandSender
<1>6. CASE QueueCommand \/ DropCommand \/ Dispatcher \/ BootModule \/ BootNetwork
  <2>1. UNCHANGED <<remote, sendAddr, senders, out>>
    BY <1>6 DEF QueueCommand, DropCommand, Dispatcher, DispatcherReceive, Dispatch,
       DispatchFails, DispatchUnknown, BootModule, BootNetwork
  <2>2. QED
    BY <2>1 DEF SenderInv, RepliesToCommandSender
<1>7. ASSUME NEW p \in Peripherals, Task(p) PROVE SenderInv'
  <2>1. UNCHANGED <<remote, sendAddr, senders, out>>
    BY <1>7 DEF Task, TaskReceive, TaskRun, TaskRespond, TaskDrop, TaskDone
  <2>2. QED
    BY <2>1 DEF SenderInv, RepliesToCommandSender
<1>8. QED
  BY <1>1, <1>2, <1>3, <1>4, <1>5, <1>6, <1>7 DEF Next, Network, Sender
-----------------------------------------------------------------------------
(* The order of the tests *)

\* A step after which every test is where it was, or nowhere.
LEMMA OrderKept ==
    ASSUME OrderInv, UNCHANGED <<packets, accepted>>,
           \A i \in Ids, s \in Stages, n \in Places : At(i, s, n)' => At(i, s, n)
    PROVE  OrderInv'
<1>1. \A i \in Ids : Accepted(i)' => Accepted(i)
  BY DEF Accepted
<1>2. \A i, k \in Ids : QueuedBefore(i, k)' => QueuedBefore(i, k)
  BY DEF QueuedBefore
<1>0. 0 \in Stages /\ 1 \in Places
  BY DEF Stages, Places
<1>3. FreshInv'
  BY <1>1 DEF OrderInv, FreshInv
<1>4. OnceInv'
  BY <1>0, <1>1 DEF OrderInv, OnceInv
<1>5. AheadInv'
  BY <1>2 DEF OrderInv, AheadInv
<1>6. QED
  BY <1>3, <1>4, <1>5 DEF OrderInv

\* The first test of a queue, of those in S, moves to the empty place behind it.
LEMMA MoveFirst ==
    ASSUME OrderInv, UNCHANGED <<packets, accepted>>,
           NEW a \in {1, 3, 5}, NEW S \in SUBSET Ids,
           \A i \in S, k \in Ids : PeripheralOf[i] = PeripheralOf[k] => k \in S,
           \A i \in Ids, s \in Stages, n \in Places :
              i \notin S \/ s \notin {a, a + 1} => (At(i, s, n)' => At(i, s, n)),
           \A i \in S, n \in Places : At(i, a, n)' => At(i, a, n + 1),
           \A i \in S, n \in Places : At(i, a + 1, n)' => n = 1 /\ At(i, a, 1)
    PROVE  OrderInv'
<1>0. /\ 0 \in Stages /\ 1 \in Places /\ a \in Stages /\ a + 1 \in Stages
      /\ a \in Nat /\ a # 0 /\ \A n \in Places : n + 1 \in Places /\ n + 1 # 1
  BY DEF Stages, Places
<1>1. \A i \in Ids : Accepted(i)' => Accepted(i)
  BY DEF Accepted
<1>2. \A i, k \in Ids : QueuedBefore(i, k)' => QueuedBefore(i, k)
  BY DEF QueuedBefore
\* Where a test was that is now at stage s.
<1>3. ASSUME NEW i \in Ids, NEW s \in Stages, NEW n \in Places, At(i, s, n)'
      PROVE  \/ (i \notin S \/ s \notin {a, a + 1}) /\ At(i, s, n)
             \/ i \in S /\ s = a /\ At(i, a, n + 1)
             \/ i \in S /\ s = a + 1 /\ n = 1 /\ At(i, a, 1)
  BY <1>3
<1>4. FreshInv'
  <2> SUFFICES ASSUME NEW i \in Ids, packets'[i] = 0, NEW s \in Stages, NEW n \in Places,
                      At(i, s, n)'
               PROVE  FALSE
    BY <1>1 DEF OrderInv, FreshInv
  <2>1. QED
    BY <1>0, <1>3 DEF OrderInv, FreshInv
<1>5. OnceInv'
  <2>1. ASSUME NEW i \in Ids, packets'[i] = 1, NEW s \in Stages, NEW t \in Stages,
               NEW m \in Places, NEW n \in Places, At(i, s, m)', At(i, t, n)'
        PROVE  s = t /\ m = n
    <3>1. \A u, v \in Stages, k, l \in Places : At(i, u, k) /\ At(i, v, l) => u = v /\ k = l
      BY <2>1 DEF OrderInv, OnceInv
    <3>2. m \in Nat /\ n \in Nat
      BY DEF Places
    <3>3. QED
      BY <1>0, <1>3, <2>1, <3>1, <3>2
  <2>2. ASSUME NEW i \in Ids, packets'[i] = 1, At(i, 0, 1)' PROVE ~Accepted(i)'
    BY <1>0, <1>1, <1>3, <2>2 DEF OrderInv, OnceInv
  <2>3. QED
    BY <2>1, <2>2 DEF OnceInv
<1>6. AheadInv'
  <2> SUFFICES ASSUME NEW i \in Ids, NEW k \in Ids, packets'[i] = 1, packets'[k] = 1,
                      PeripheralOf[i] = PeripheralOf[k], QueuedBefore(i, k)'
               PROVE  /\ i # k
                      /\ \A s, t \in Stages, m, n \in Places :
                           At(i, s, m)' /\ At(k, t, n)' => t < s \/ (t = s /\ n > m)
    BY DEF AheadInv
  <2>1. /\ i # k
        /\ \A s, t \in Stages, m, n \in Places :
             At(i, s, m) /\ At(k, t, n) => t < s \/ (t = s /\ n > m)
    BY <1>2 DEF OrderInv, AheadInv
  <2>2. ASSUME NEW s \in Stages, NEW t \in Stages, NEW m \in Places, NEW n \in Places,
               At(i, s, m)', At(k, t, n)'
        PROVE  t < s \/ (t = s /\ n > m)
    <3>0. s \in Nat /\ t \in Nat /\ m \in Nat /\ n \in Nat /\ m # 0 /\ n # 0
          /\ i \in S <=> k \in S
      BY DEF Stages, Places
    <3>1. CASE i \notin S
      BY <1>3, <2>1, <2>2, <3>0, <3>1
    <3>2. CASE i \in S /\ s \notin {a, a + 1}
      <4>1. At(i, s, m)
        BY <1>3, <2>2, <3>2
      <4>2. QED
        BY <1>0, <1>3, <2>1, <2>2, <3>0, <3>2, <4>1
    <3>3. CASE i \in S /\ s = a
      <4>1. At(i, a, m + 1)
        BY <1>0, <2>2, <3>3
      <4>2. QED
        BY <1>0, <1>3, <2>1, <2>2, <3>0, <3>3, <4>1
    <3>4. CASE i \in S /\ s = a + 1
      <4>1. At(i, a, 1) /\ m = 1
        BY <1>0, <2>2, <3>4
      <4>2. QED
        BY <1>0, <1>3, <2>1, <2>2, <3>0, <3>4, <4>1
    <3>5. QED
      BY <3>1, <3>2, <3>3, <3>4
  <2>3. QED
    BY <2>1, <2>2
<1>7. QED
  BY <1>4, <1>5, <1>6 DEF OrderInv

\* The test x moves from a place of its own to the end of the queue behind it.
LEMMA MoveLast ==
    ASSUME OrderInv, UNCHANGED <<packets, accepted>>,
           NEW a \in {2, 4}, NEW x \in Ids, NEW l \in Places, At(x, a, 1),
           \A i \in Ids, s \in Stages, n \in Places : At(i, s, n)' =>
              \/ At(i, s, n) /\ ~(i = x /\ s = a)
              \/ i = x /\ s = a + 1 /\ n = l,
           \A i \in Ids, n \in Places :
              PeripheralOf[i] = PeripheralOf[x] /\ At(i, a + 1, n) => n < l,
           \A i \in Ids, n \in Places : At(i, a, n) => n = 1
    PROVE  OrderInv'
<1>0. /\ 0 \in Stages /\ 1 \in Places /\ a \in Stages /\ a + 1 \in Stages
      /\ a \in Nat /\ a # 0 /\ l \in Nat /\ a + 1 # 0 /\ a + 1 # a
  BY DEF Stages, Places
<1>1. \A i \in Ids : Accepted(i)' => Accepted(i)
  BY DEF Accepted
<1>2. \A i, k \in Ids : QueuedBefore(i, k)' => QueuedBefore(i, k)
  BY DEF QueuedBefore
<1>4. FreshInv'
  BY <1>0, <1>1 DEF OrderInv, FreshInv
<1>5. OnceInv'
  <2>1. ASSUME NEW i \in Ids, packets'[i] = 1, NEW s \in Stages, NEW t \in Stages,
               NEW m \in Places, NEW n \in Places, At(i, s, m)', At(i, t, n)'
        PROVE  s = t /\ m = n
    <3>1. \A u, v \in Stages, k, j \in Places : At(i, u, k) /\ At(i, v, j) => u = v /\ k = j
      BY <2>1 DEF OrderInv, OnceInv
    <3>2. QED
      BY <1>0, <2>1, <3>1
  <2>2. ASSUME NEW i \in Ids, packets'[i] = 1, At(i, 0, 1)' PROVE ~Accepted(i)'
    <3>1. At(i, 0, 1)
      BY <1>0, <2>2
    <3>2. QED
      BY <1>1, <2>2, <3>1 DEF OrderInv, OnceInv
  <2>3. QED
    BY <2>1, <2>2 DEF OnceInv
<1>6. AheadInv'
  <2> SUFFICES ASSUME NEW i \in Ids, NEW k \in Ids, packets'[i] = 1, packets'[k] = 1,
                      PeripheralOf[i] = PeripheralOf[k], QueuedBefore(i, k)'
               PROVE  /\ i # k
                      /\ \A s, t \in Stages, m, n \in Places :
                           At(i, s, m)' /\ At(k, t, n)' => t < s \/ (t = s /\ n > m)
    BY DEF AheadInv
  <2>1. /\ i # k
        /\ \A s, t \in Stages, m, n \in Places :
             At(i, s, m) /\ At(k, t, n) => t < s \/ (t = s /\ n > m)
    BY <1>2 DEF OrderInv, AheadInv
  <2>2. ASSUME NEW s \in Stages, NEW t \in Stages, NEW m \in Places, NEW n \in Places,
               At(i, s, m)', At(k, t, n)'
        PROVE  t < s \/ (t = s /\ n > m)
    <3>0. s \in Nat /\ t \in Nat /\ m \in Nat /\ n \in Nat /\ m # 0 /\ n # 0
      BY DEF Stages, Places
    <3>1. CASE At(i, s, m) /\ At(k, t, n)
      BY <2>1, <3>1
    <3>2. CASE i = x /\ s = a + 1 /\ m = l /\ At(k, t, n)
      <4>1. t < a \/ (t = a /\ n > 1)
        BY <1>0, <2>1, <3>2
      <4>2. t < a
        BY <3>2, <4>1
      <4>3. QED
        BY <1>0, <3>0, <3>2, <4>2
    <3>3. CASE k = x /\ t = a + 1 /\ n = l /\ At(i, s, m)
      <4>1. a < s \/ (a = s /\ 1 > m)
        BY <1>0, <2>1, <3>3
      <4>2. a + 1 < s \/ s = a + 1
        BY <1>0, <3>0, <4>1
      <4>3. s = a + 1 => l > m
        BY <3>0, <3>3, <1>0
      <4>4. QED
        BY <3>3, <4>2, <4>3
    <3>4. QED
      BY <2>1, <2>2, <3>1, <3>2, <3>3
  <2>3. QED
    BY <2>1, <2>2
<1>7. QED
  BY <1>4, <1>5, <1>6 DEF OrderInv
-----------------------------------------------------------------------------
(* What the steps move *)

\* The places of the queues after one of them was changed.
LEMMA EnqueuePlaces ==
    ASSUME DataTypes, NEW q \in Queues, NEW x, Enqueue(q, x),
           IF q = "response" THEN x \in Responses ELSE x \in Ids
    PROVE  /\ \A r \in Queues \ {q} : queue'[r] = queue[r]
           /\ Len(queue[q]) \in Nat /\ Len(queue'[q]) = Len(queue[q]) + 1
           /\ queue'[q][Len(queue[q]) + 1] = x
           /\ \A n \in 1 .. Len(queue[q]) : queue'[q][n] = queue[q][n]
<1>1. /\ queue'[q] = Append(queue[q], x)
      /\ \A r \in Queues \ {q} : queue'[r] = queue[r]
  BY DEF Enqueue, DataTypes
<1>2. PICK S : x \in S /\ queue[q] \in Seq(S)
  BY Constants DEF DataTypes
<1>3. QED
  BY <1>1, <1>2

LEMMA DequeuePlaces ==
    ASSUME DataTypes, NEW q \in Queues, Dequeue(q), queue[q] # <<>>
    PROVE  /\ \A r \in Queues \ {q} : queue'[r] = queue[r]
           /\ Len(queue[q]) \in Nat /\ Len(queue'[q]) = Len(queue[q]) - 1
           /\ Head(queue[q]) = queue[q][1] /\ 1 \in 1 .. Len(queue[q])
           /\ \A n \in 1 .. Len(queue'[q]) :
                 n + 1 \in 1 .. Len(queue[q]) /\ queue'[q][n] = queue[q][n + 1]
<1>1. /\ queue'[q] = Tail(queue[q])
      /\ \A r \in Queues \ {q} : queue'[r] = queue[r]
  BY DEF Dequeue, DataTypes
<1>2. PICK S : queue[q] \in Seq(S)
  BY Constants DEF DataTypes
<1>3. QED
  BY <1>1, <1>2

LEMMA PlaceStep == DataTypes /\ PlaceInv /\ Next => PlaceInv'
<1> SUFFICES ASSUME DataTypes, PlaceInv, Next PROVE PlaceInv'
  OBVIOUS
<1>0. "command" \in Queues /\ "response" \in Queues /\ Peripherals \subseteq Queues
      /\ "response" \notin Peripherals /\ "command" \notin Peripherals
  BY PipelineAssumption DEF Queues
<1>1. CASE Dispatch
  <2> DEFINE p == PeripheralOf[dispCmd]
  <2>1. /\ p \in Peripherals /\ dispCmd \in Ids /\ Enqueue(p, dispCmd)
        /\ UNCHANGED taskCmd
    BY <1>1 DEF Dispatch, DataTypes, MaybeId
  <2>2. ASSUME NEW n \in 1 .. Len(queue'[p]) PROVE PeripheralOf[queue'[p][n]] = p
    <3>1. /\ Len(queue[p]) \in Nat /\ Len(queue'[p]) = Len(queue[p]) + 1
          /\ queue'[p][Len(queue[p]) + 1] = dispCmd
          /\ \A k \in 1 .. Len(queue[p]) : queue'[p][k] = queue[p][k]
      BY <1>0, <2>1, EnqueuePlaces
    <3>2. n \in 1 .. Len(queue[p]) \/ n = Len(queue[p]) + 1
      BY <3>1
    <3>3. QED
      BY <2>1, <3>1, <3>2 DEF PlaceInv
  <2>3. \A r \in Peripherals \ {p} : queue'[r] = queue[r]
    BY <1>0, <2>1, EnqueuePlaces
  <2>4. QED
    BY <2>1, <2>2, <2>3 DEF PlaceInv
<1>2. ASSUME NEW p \in Peripherals, TaskReceive(p) PROVE PlaceInv'
  <2>1. /\ Dequeue(p) /\ queue[p] # <<>> /\ taskCmd'[p] = Head(queue[p])
        /\ \A r \in Peripherals \ {p} : taskCmd'[r] = taskCmd[r]
    BY <1>2 DEF TaskReceive, DataTypes
  <2>2. /\ \A r \in Queues \ {p} : queue'[r] = queue[r]
        /\ Head(queue[p]) = queue[p][1] /\ 1 \in 1 .. Len(queue[p])
        /\ \A n \in 1 .. Len(queue'[p]) :
              n + 1 \in 1 .. Len(queue[p]) /\ queue'[p][n] = queue[p][n + 1]
    BY <1>0, <2>1, DequeuePlaces
  <2>3. PeripheralOf[taskCmd'[p]] = p
    BY <2>1, <2>2 DEF PlaceInv
  <2>4. \A n \in 1 .. Len(queue'[p]) : PeripheralOf[queue'[p][n]] = p
    BY <2>2 DEF PlaceInv
  <2>5. QED
    BY <1>0, <2>1, <2>2, <2>3, <2>4 DEF PlaceInv
<1>3. ASSUME NEW p \in Peripherals, TaskRespond(p) \/ TaskDrop(p) PROVE PlaceInv'
  <2>1. \A r \in Peripherals : queue'[r] = queue[r]
    BY <1>0, <1>3 DEF TaskRespond, TaskDrop, Enqueue, DataTypes
  <2>2. \A r \in Peripherals : taskCmd'[r] \in {taskCmd[r], NoId}
    BY <1>3 DEF TaskRespond, TaskDrop, TaskDone, DataTypes
  <2>3. QED
    BY <2>1, <2>2 DEF PlaceInv
<1>4. CASE QueueCommand \/ DispatcherReceive \/ SenderReceive
  <2>1. UNCHANGED taskCmd /\ \A r \in Peripherals : queue'[r] = queue[r]
    BY <1>0, <1>4 DEF QueueCommand, DispatcherReceive, SenderReceive, Enqueue, Dequeue,
       DataTypes
  <2>2. QED
    BY <2>1 DEF PlaceInv
<1>5. CASE \/ BootModule \/ BootNetwork \/ DropCommand \/ DispatchFails \/ DispatchUnknown
           \/ SenderFails \/ SenderReadAddress \/ SenderSend
           \/ \E peer \in Peers : ReceiveBad(peer) \/ \E i \in Ids : ReceiveCommand(peer, i)
           \/ \E p \in Peripherals, r \in Results : TaskRun(p, r)
  <2>1. UNCHANGED <<queue, taskCmd>>
    BY <1>5 DEF BootModule, BootNetwork, DropCommand, DispatchFails, DispatchUnknown,
       SenderFails, SenderReadAddress, SenderSend, SenderDone, ReceiveBad, ReceiveCommand,
       TaskRun, control
  <2>2. QED
    BY <2>1 DEF PlaceInv
<1>6. QED
  BY <1>1, <1>2, <1>3, <1>4, <1>5 DEF Next, Network, Dispatcher, Task, Sender

LEMMA OrderStart == Init => PlaceInv /\ OrderInv
<1> SUFFICES ASSUME Init PROVE PlaceInv /\ OrderInv
  OBVIOUS
<1>1. \A q \in Queues : queue[q] = <<>>
  BY DEF Init
<1>2. "command" \in Queues /\ "response" \in Queues /\ Peripherals \subseteq Queues
  BY DEF Queues
<1>3. PlaceInv
  BY <1>1, <1>2 DEF Init, PlaceInv
<1>4. \A i \in Ids, s \in Stages, n \in Places : ~At(i, s, n)
  BY <1>1, <1>2, Constants DEF Init, At, NoResponse
<1>5. \A i \in Ids : ~Accepted(i)
  BY DEF Init, Accepted
<1>6. FreshInv /\ OnceInv
  BY <1>4, <1>5 DEF FreshInv, OnceInv
<1>7. AheadInv
  BY <1>5 DEF Init, AheadInv, QueuedBefore
<1>8. QED
  BY <1>3, <1>6, <1>7 DEF OrderInv

\* Steps that move no test: one may leave the pipeline.
LEMMA NothingMoves ==
    ASSUME OrderInv, UNCHANGED <<packets, accepted, queue>>,
           netCmd' \in {netCmd, NoId}, dispCmd' \in {dispCmd, NoId},
           \A p \in Peripherals : taskCmd'[p] \in {taskCmd[p], NoId},
           sendRes' \in {sendRes, NoResponse}
    PROVE  OrderInv'
<1>1. \A i \in Ids : i # NoId /\ i # NoResponse.test_id
  BY Constants DEF NoResponse
<1>2. ASSUME NEW i \in Ids, NEW s \in Stages, NEW n \in Places, At(i, s, n)'
      PROVE  At(i, s, n)
  BY <1>1, <1>2 DEF At
<1>3. QED
  BY <1>2, OrderKept

LEMMA DispatcherReceiveMoves ==
    ASSUME DataTypes, OrderInv, DispatcherReceive PROVE OrderInv'
<1>0. "command" \in Queues /\ "response" \in Queues /\ Peripherals \subseteq Queues
      /\ "command" \notin Peripherals
  BY PipelineAssumption DEF Queues
<1>1. /\ Dequeue("command") /\ queue["command"] # <<>>
      /\ dispCmd' = Head(queue["command"])
      /\ UNCHANGED <<netCmd, taskCmd, sendRes, packets, accepted>>
  BY DEF DispatcherReceive, counters, history
<1>2. /\ \A r \in Queues \ {"command"} : queue'[r] = queue[r]
      /\ Head(queue["command"]) = queue["command"][1] /\ 1 \in 1 .. Len(queue["command"])
      /\ \A n \in 1 .. Len(queue'["command"]) :
            /\ n + 1 \in 1 .. Len(queue["command"])
            /\ queue'["command"][n] = queue["command"][n + 1]
  BY <1>0, <1>1, DequeuePlaces
<1>3. ASSUME NEW i \in Ids, NEW s \in Stages, NEW n \in Places, s \notin {1, 1 + 1}, At(i, s, n)'
      PROVE  At(i, s, n)
  BY <1>0, <1>1, <1>2, <1>3 DEF At
<1>4. ASSUME NEW i \in Ids, NEW n \in Places, At(i, 1, n)' PROVE At(i, 1, n + 1)
  BY <1>2, <1>4 DEF At
<1>5. ASSUME NEW i \in Ids, NEW n \in Places, At(i, 1 + 1, n)' PROVE n = 1 /\ At(i, 1, 1)
  BY <1>1, <1>2, <1>5 DEF At
<1>6. QED
  BY <1>1, <1>3, <1>4, <1>5, MoveFirst

LEMMA SenderReceiveMoves ==
    ASSUME DataTypes, OrderInv, SenderReceive PROVE OrderInv'
<1>0. "command" \in Queues /\ "response" \in Queues /\ Peripherals \subseteq Queues
      /\ "response" \notin Peripherals
  BY PipelineAssumption DEF Queues
<1>1. /\ Dequeue("response") /\ queue["response"] # <<>>
      /\ sendRes' = Head(queue["response"])
      /\ UNCHANGED <<netCmd, dispCmd, taskCmd, packets, accepted>>
  BY DEF SenderReceive, counters, history
<1>2. /\ \A r \in Queues \ {"response"} : queue'[r] = queue[r]
      /\ Head(queue["response"]) = queue["response"][1] /\ 1 \in 1 .. Len(queue["response"])
      /\ \A n \in 1 .. Len(queue'["response"]) :
            /\ n + 1 \in 1 .. Len(queue["response"])
            /\ queue'["response"][n] = queue["response"][n + 1]
  BY <1>0, <1>1, DequeuePlaces
<1>3. ASSUME NEW i \in Ids, NEW s \in Stages, NEW n \in Places, s \notin {5, 5 + 1}, At(i, s, n)'
      PROVE  At(i, s, n)
  BY <1>0, <1>1, <1>2, <1>3 DEF At
<1>4. ASSUME NEW i \in Ids, NEW n \in Places, At(i, 5, n)' PROVE At(i, 5, n + 1)
  BY <1>2, <1>4 DEF At
<1>5. ASSUME NEW i \in Ids, NEW n \in Places, At(i, 5 + 1, n)' PROVE n = 1 /\ At(i, 5, 1)
  BY <1>1, <1>2, <1>5 DEF At
<1>6. QED
  BY <1>1, <1>3, <1>4, <1>5, MoveFirst

LEMMA TaskReceiveMoves ==
    ASSUME DataTypes, OrderInv, NEW p \in Peripherals, TaskReceive(p) PROVE OrderInv'
<1> DEFINE S == {i \in Ids : PeripheralOf[i] = p}
<1>0. "command" \in Queues /\ "response" \in Queues /\ Peripherals \subseteq Queues
      /\ "response" \notin Peripherals /\ "command" \notin Peripherals
  BY PipelineAssumption DEF Queues
<1>1. /\ Dequeue(p) /\ queue[p] # <<>>
      /\ taskCmd'[p] = Head(queue[p])
      /\ \A r \in Peripherals \ {p} : taskCmd'[r] = taskCmd[r]
      /\ UNCHANGED <<netCmd, dispCmd, sendRes, packets, accepted>>
  BY DEF TaskReceive, DataTypes, counters, history
<1>2. /\ \A r \in Queues \ {p} : queue'[r] = queue[r]
      /\ Head(queue[p]) = queue[p][1] /\ 1 \in 1 .. Len(queue[p])
      /\ \A n \in 1 .. Len(queue'[p]) :
            n + 1 \in 1 .. Len(queue[p]) /\ queue'[p][n] = queue[p][n + 1]
  BY <1>0, <1>1, DequeuePlaces
<1>3. ASSUME NEW i \in Ids, NEW s \in Stages, NEW n \in Places,
             i \notin S \/ s \notin {3, 3 + 1}, At(i, s, n)'
      PROVE  At(i, s, n)
  <2>1. CASE s \in {0, 1, 2, 5, 6}
    BY <1>0, <1>1, <1>2, <1>3, <2>1 DEF At
  <2>2. CASE s = 3
    BY <1>0, <1>1, <1>2, <1>3, <2>2 DEF At
  <2>3. CASE s = 4
    BY <1>0, <1>1, <1>2, <1>3, <2>3 DEF At
  <2>4. QED
    BY <2>1, <2>2, <2>3 DEF Stages
<1>4. ASSUME NEW i \in S, NEW n \in Places, At(i, 3, n)' PROVE At(i, 3, n + 1)
  BY <1>2, <1>4 DEF At
<1>5. ASSUME NEW i \in S, NEW n \in Places, At(i, 3 + 1, n)' PROVE n = 1 /\ At(i, 3, 1)
  BY <1>1, <1>2, <1>5 DEF At
<1>6. S \in SUBSET Ids /\ \A i \in S, k \in Ids : PeripheralOf[i] = PeripheralOf[k] => k \in S
  OBVIOUS
<1> HIDE DEF S
<1>7. QED
  BY <1>1, <1>3, <1>4, <1>5, <1>6, MoveFirst

LEMMA DispatchMoves ==
    ASSUME DataTypes, OrderInv, Dispatch PROVE OrderInv'
<1> DEFINE p == PeripheralOf[dispCmd]
           l == Len(queue[p]) + 1
<1>0. "command" \in Queues /\ "response" \in Queues /\ Peripherals \subseteq Queues
      /\ "response" \notin Peripherals /\ "command" \notin Peripherals
  BY PipelineAssumption DEF Queues
<1>1. /\ p \in Peripherals /\ dispCmd \in Ids /\ Enqueue(p, dispCmd) /\ dispCmd' = NoId
      /\ UNCHANGED <<netCmd, taskCmd, sendRes, packets, accepted>>
  BY DEF Dispatch, DataTypes, MaybeId, counters, history
<1>2. /\ \A r \in Queues \ {p} : queue'[r] = queue[r]
      /\ Len(queue[p]) \in Nat /\ Len(queue'[p]) = l /\ queue'[p][l] = dispCmd
      /\ \A n \in 1 .. Len(queue[p]) : queue'[p][n] = queue[p][n]
  BY <1>0, <1>1, EnqueuePlaces
<1>3. l \in Places /\ At(dispCmd, 2, 1)
  BY <1>1, <1>2 DEF Places, At
<1>4. ASSUME NEW i \in Ids, NEW s \in Stages, NEW n \in Places, At(i, s, n)'
      PROVE  \/ At(i, s, n) /\ ~(i = dispCmd /\ s = 2)
             \/ i = dispCmd /\ s = 2 + 1 /\ n = l
  <2>1. CASE s \in {0, 1, 2, 4, 5, 6}
    BY <1>0, <1>1, <1>2, <1>4, <2>1, Constants DEF At
  <2>2. CASE s = 3 /\ PeripheralOf[i] # p
    BY <1>0, <1>1, <1>2, <1>4, <2>2 DEF At
  <2>3. CASE s = 3 /\ PeripheralOf[i] = p
    <3>1. n \in 1 .. Len(queue'[p]) /\ queue'[p][n] = i
      BY <1>4, <2>3 DEF At
    <3>2. n = l \/ n \in 1 .. Len(queue[p])
      BY <1>2, <3>1
    <3>3. QED
      BY <1>1, <1>2, <2>3, <3>1, <3>2 DEF At
  <2>4. QED
    BY <2>1, <2>2, <2>3 DEF Stages
<1>5. ASSUME NEW i \in Ids, NEW n \in Places,
             PeripheralOf[i] = PeripheralOf[dispCmd], At(i, 2 + 1, n)
      PROVE  n < l
  BY <1>2, <1>5 DEF At
<1>6. \A i \in Ids, n \in Places : At(i, 2, n) => n = 1
  BY DEF At
<1> HIDE DEF l
<1>7. QED
  BY <1>1, <1>3, <1>4, <1>5, <1>6, MoveLast

LEMMA TaskRespondMoves ==
    ASSUME DataTypes, PlaceInv, OrderInv, NEW p \in Peripherals, TaskRespond(p)
    PROVE  OrderInv'
<1> DEFINE x == taskCmd[p]
           r == [test_id |-> taskCmd[p], result |-> taskRes[p]]
           l == Len(queue["response"]) + 1
<1>0. "command" \in Queues /\ "response" \in Queues /\ Peripherals \subseteq Queues
      /\ "response" \notin Peripherals
  BY PipelineAssumption DEF Queues
<1>1. /\ x \in Ids /\ PeripheralOf[x] = p /\ r \in Responses
      /\ Enqueue("response", r) /\ taskCmd'[p] = NoId
      /\ \A t \in Peripherals \ {p} : taskCmd'[t] = taskCmd[t]
      /\ UNCHANGED <<netCmd, dispCmd, sendRes, packets, accepted>>
  BY Constants DEF TaskRespond, TaskDone, DataTypes, PlaceInv, MaybeId, Maybe, Responses,
     counters, history
<1>2. /\ \A t \in Queues \ {"response"} : queue'[t] = queue[t]
      /\ Len(queue["response"]) \in Nat /\ Len(queue'["response"]) = l
      /\ queue'["response"][l] = r
      /\ \A n \in 1 .. Len(queue["response"]) : queue'["response"][n] = queue["response"][n]
  BY <1>0, <1>1, EnqueuePlaces
<1>3. l \in Places /\ At(x, 4, 1)
  BY <1>1, <1>2 DEF Places, At
<1>4. ASSUME NEW i \in Ids, NEW s \in Stages, NEW n \in Places, At(i, s, n)'
      PROVE  \/ At(i, s, n) /\ ~(i = x /\ s = 4)
             \/ i = x /\ s = 4 + 1 /\ n = l
  <2>1. CASE s \in {0, 1, 2, 3, 6}
    BY <1>0, <1>1, <1>2, <1>4, <2>1 DEF At
  <2>2. CASE s = 4
    BY <1>1, <1>4, <2>2, Constants DEF At
  <2>3. CASE s = 5
    <3>1. n \in 1 .. Len(queue'["response"]) /\ queue'["response"][n].test_id = i
      BY <1>4, <2>3 DEF At
    <3>2. n = l \/ n \in 1 .. Len(queue["response"])
      BY <1>2, <3>1
    <3>3. QED
      BY <1>2, <2>3, <3>1, <3>2 DEF At
  <2>4. QED
    BY <2>1, <2>2, <2>3 DEF Stages
<1>5. ASSUME NEW i \in Ids, NEW n \in Places,
             PeripheralOf[i] = PeripheralOf[x], At(i, 4 + 1, n)
      PROVE  n < l
  BY <1>2, <1>5 DEF At
<1>6. \A i \in Ids, n \in Places : At(i, 4, n) => n = 1
  BY DEF At
<1> HIDE DEF l, x
<1>7. QED
  BY <1>1, <1>3, <1>4, <1>5, <1>6, MoveLast

\* The command the network holds is accepted: it is the last of the first queue.
LEMMA QueueCommandMoves ==
    ASSUME DataTypes, OrderInv, QueueCommand PROVE OrderInv'
<1> DEFINE x == netCmd
           l == Len(queue["command"]) + 1
<1>0. "command" \in Queues /\ "response" \in Queues /\ Peripherals \subseteq Queues
      /\ "command" \notin Peripherals
  BY PipelineAssumption DEF Queues
<1>1. /\ x \in Ids /\ Enqueue("command", x) /\ netCmd' = NoId
      /\ accepted' = Append(accepted, x)
      /\ UNCHANGED <<dispCmd, taskCmd, sendRes, packets>>
  BY DEF QueueCommand, DataTypes, MaybeId, counters
<1>2. /\ \A t \in Queues \ {"command"} : queue'[t] = queue[t]
      /\ Len(queue["command"]) \in Nat /\ Len(queue'["command"]) = l
      /\ queue'["command"][l] = x
      /\ \A n \in 1 .. Len(queue["command"]) : queue'["command"][n] = queue["command"][n]
  BY <1>0, <1>1, EnqueuePlaces
<1>3. l \in Places /\ At(x, 0, 1) /\ 0 \in Stages /\ 1 \in Stages /\ 1 \in Places
  BY <1>2 DEF Places, Stages, At
<1>4. ASSUME NEW i \in Ids, NEW s \in Stages, NEW n \in Places, At(i, s, n)'
      PROVE  \/ At(i, s, n) /\ s # 0
             \/ i = x /\ s = 1 /\ n = l
  <2>1. CASE s \in {2, 4, 6}
    BY <1>1, <1>4, <2>1 DEF At
  <2>6. CASE s = 5
    <3>1. queue'["response"] = queue["response"]
      BY <1>0, <1>2
    <3>2. QED
      BY <1>4, <2>6, <3>1 DEF At
  <2>5. CASE s = 3
    <3>1. PeripheralOf[i] \in Queues \ {"command"}
      BY <1>0, <1>4, <2>5 DEF At
    <3>2. queue'[PeripheralOf[i]] = queue[PeripheralOf[i]]
      BY <1>2, <3>1
    <3>3. QED
      BY <1>4, <2>5, <3>2 DEF At
  <2>2. CASE s = 0
    BY <1>1, <1>4, <2>2, Constants DEF At
  <2>3. CASE s = 1
    <3>1. n \in 1 .. Len(queue'["command"]) /\ queue'["command"][n] = i
      BY <1>4, <2>3 DEF At
    <3>2. n = l \/ n \in 1 .. Len(queue["command"])
      BY <1>2, <3>1
    <3>3. QED
      BY <1>2, <2>3, <3>1, <3>2 DEF At
  <2>4. QED
    BY <2>1, <2>2, <2>3, <2>5, <2>6 DEF Stages
<1>5. ASSUME NEW i \in Ids, NEW n \in Places, At(i, 1, n) PROVE n < l
  BY <1>2, <1>5 DEF At
<1>6. /\ Len(accepted) \in Nat /\ Len(accepted') = Len(accepted) + 1
      /\ accepted'[Len(accepted) + 1] = x
      /\ \A n \in 1 .. Len(accepted) : accepted'[n] = accepted[n]
  BY <1>1 DEF DataTypes
<1>7. \A i \in Ids : Accepted(i)' => Accepted(i) \/ i = x
  BY <1>6 DEF Accepted
<1>8. ASSUME NEW i \in Ids, NEW k \in Ids, QueuedBefore(i, k)'
      PROVE  Accepted(i) /\ (k = x \/ (QueuedBefore(i, k) /\ Accepted(k)))
  <2>1. PICK m \in 1 .. Len(accepted'), n \in 1 .. Len(accepted') :
           m < n /\ accepted'[m] = i /\ accepted'[n] = k
    BY <1>8 DEF QueuedBefore
  <2>2. m \in 1 .. Len(accepted) /\ accepted[m] = i
    BY <1>6, <2>1
  <2>3. n \in 1 .. Len(accepted) \/ n = Len(accepted) + 1
    BY <1>6, <2>1
  <2>4. QED
    BY <1>6, <2>1, <2>2, <2>3 DEF Accepted, QueuedBefore
<1> HIDE DEF l, x
<1>9. FreshInv'
  BY <1>1, <1>3, <1>4, <1>7 DEF OrderInv, FreshInv
<1>10. OnceInv'
  <2>1. ASSUME NEW i \in Ids, packets'[i] = 1, NEW s \in Stages, NEW t \in Stages,
               NEW m \in Places, NEW n \in Places, At(i, s, m)', At(i, t, n)'
        PROVE  s = t /\ m = n
    <3>1. \A u, v \in Stages, k, j \in Places : At(i, u, k) /\ At(i, v, j) => u = v /\ k = j
      BY <1>1, <2>1 DEF OrderInv, OnceInv
    <3>2. QED
      BY <1>3, <1>4, <2>1, <3>1
  <2>2. ASSUME NEW i \in Ids PROVE ~At(i, 0, 1)'
    BY <1>3, <1>4
  <2>3. QED
    BY <2>1, <2>2 DEF OnceInv
<1>11. AheadInv'
  <2> SUFFICES ASSUME NEW i \in Ids, NEW k \in Ids, packets'[i] = 1, packets'[k] = 1,
                      PeripheralOf[i] = PeripheralOf[k], QueuedBefore(i, k)'
               PROVE  /\ i # k
                      /\ \A s, t \in Stages, m, n \in Places :
                           At(i, s, m)' /\ At(k, t, n)' => t < s \/ (t = s /\ n > m)
    BY DEF AheadInv
  <2>1. Accepted(i) /\ i # x
    BY <1>1, <1>3, <1>8 DEF OrderInv, OnceInv
  <2>2. CASE k = x
    <3>1. ASSUME NEW s \in Stages, NEW t \in Stages, NEW m \in Places, NEW n \in Places,
                 At(i, s, m)', At(k, t, n)'
          PROVE  t < s \/ (t = s /\ n > m)
      <4>1. At(i, s, m) /\ s # 0
        BY <1>4, <2>1, <3>1
      <4>2. t = 1 /\ n = l
        BY <1>1, <1>3, <1>4, <2>2, <3>1 DEF OrderInv, OnceInv
      <4>3. s = 1 => n > m
        <5>1. s = 1 => m < l
          BY <1>5, <4>1
        <5>2. l \in Nat /\ m \in Nat
          BY <1>3 DEF Places
        <5>3. QED
          BY <4>2, <5>1, <5>2
      <4>4. QED
        BY <4>1, <4>2, <4>3 DEF Stages
    <3>2. QED
      BY <2>1, <2>2, <3>1
  <2>3. CASE k # x
    <3>1. /\ i # k
          /\ \A s, t \in Stages, m, n \in Places :
               At(i, s, m) /\ At(k, t, n) => t < s \/ (t = s /\ n > m)
      BY <1>1, <1>8, <2>3 DEF OrderInv, AheadInv
    <3>2. QED
      BY <1>4, <2>1, <2>3, <3>1
  <2>4. QED
    BY <2>2, <2>3
<1>12. QED
  BY <1>9, <1>10, <1>11 DEF OrderInv

\* A packet with a command: if it is the first of its test, that test is nowhere.
LEMMA ReceiveCommandMoves ==
    ASSUME DataTypes, OrderInv, NEW peer \in Peers, NEW x \in Ids, ReceiveCommand(peer, x)
    PROVE  OrderInv'
<1>1. /\ packets' = [packets EXCEPT ![x] = packets[x] + 1] /\ packets \in [Ids -> Nat]
      /\ netCmd = NoId /\ netCmd' = x
      /\ UNCHANGED <<dispCmd, taskCmd, sendRes, queue, accepted>>
  BY DEF ReceiveCommand, DataTypes
<1>2. /\ packets'[x] # 0 /\ (packets'[x] = 1 => packets[x] = 0)
      /\ \A i \in Ids \ {x} : packets'[i] = packets[i]
  BY <1>1
<1>3. ASSUME NEW i \in Ids, NEW s \in Stages, NEW n \in Places, At(i, s, n)'
      PROVE  At(i, s, n) \/ (i = x /\ s = 0 /\ n = 1)
  BY <1>1, <1>3 DEF At
<1>4. \A i \in Ids : Accepted(i)' => Accepted(i)
  BY <1>1 DEF Accepted
<1>5. \A i, k \in Ids : QueuedBefore(i, k)' => QueuedBefore(i, k) /\ Accepted(i) /\ Accepted(k)
  BY <1>1 DEF Accepted, QueuedBefore
<1>6. 0 \in Stages /\ 1 \in Places
  BY DEF Stages, Places
<1>7. FreshInv'
  BY <1>2, <1>3, <1>4 DEF OrderInv, FreshInv
<1>8. OnceInv'
  <2> SUFFICES ASSUME NEW i \in Ids, packets'[i] = 1
               PROVE  /\ \A s, t \in Stages, m, n \in Places :
                           At(i, s, m)' /\ At(i, t, n)' => s = t /\ m = n
                      /\ At(i, 0, 1)' => ~Accepted(i)'
    BY DEF OnceInv
  <2>1. CASE i = x
    <3>1. ~Accepted(i) /\ \A s \in Stages, n \in Places : ~At(i, s, n)
      BY <1>2, <2>1 DEF OrderInv, FreshInv
    <3>2. QED
      BY <1>3, <1>4, <3>1
  <2>2. CASE i # x
    <3>1. /\ \A s, t \in Stages, m, n \in Places :
                At(i, s, m) /\ At(i, t, n) => s = t /\ m = n
          /\ At(i, 0, 1) => ~Accepted(i)
      BY <1>2, <2>2 DEF OrderInv, OnceInv
    <3>2. QED
      BY <1>3, <1>4, <1>6, <2>2, <3>1
  <2>3. QED
    BY <2>1, <2>2
<1>9. AheadInv'
  <2> SUFFICES ASSUME NEW i \in Ids, NEW k \in Ids, packets'[i] = 1, packets'[k] = 1,
                      PeripheralOf[i] = PeripheralOf[k], QueuedBefore(i, k)'
               PROVE  /\ i # k
                      /\ \A s, t \in Stages, m, n \in Places :
                           At(i, s, m)' /\ At(k, t, n)' => t < s \/ (t = s /\ n > m)
    BY DEF AheadInv
  <2>1. QueuedBefore(i, k) /\ i # x /\ k # x
    BY <1>2, <1>5 DEF OrderInv, FreshInv
  <2>2. /\ i # k
        /\ \A s, t \in Stages, m, n \in Places :
             At(i, s, m) /\ At(k, t, n) => t < s \/ (t = s /\ n > m)
    BY <1>2, <2>1 DEF OrderInv, AheadInv
  <2>3. QED
    BY <1>3, <2>1, <2>2
<1>10. QED
  BY <1>7, <1>8, <1>9 DEF OrderInv

LEMMA OrderStep == DataTypes /\ PlaceInv /\ OrderInv /\ Next => OrderInv'
<1> SUFFICES ASSUME DataTypes, PlaceInv, OrderInv, Next PROVE OrderInv'
  OBVIOUS
<1>1. CASE \/ BootModule \/ BootNetwork \/ DropCommand \/ DispatchFails \/ DispatchUnknown
           \/ SenderFails \/ SenderReadAddress \/ SenderSend
           \/ \E peer \in Peers : ReceiveBad(peer)
           \/ \E p \in Peripherals, r \in Results : TaskRun(p, r)
  <2>1. /\ UNCHANGED <<packets, accepted, queue, taskCmd>>
        /\ netCmd' \in {netCmd, NoId} /\ dispCmd' \in {dispCmd, NoId}
        /\ sendRes' \in {sendRes, NoResponse}
    BY <1>1 DEF BootModule, BootNetwork, DropCommand, DispatchFails, DispatchUnknown,
       SenderFails, SenderReadAddress, SenderSend, SenderDone, ReceiveBad, TaskRun,
       control, counters, history
  <2>2. QED
    BY <2>1, NothingMoves
<1>2. ASSUME NEW p \in Peripherals, TaskDrop(p) PROVE OrderInv'
  <2>1. /\ UNCHANGED <<packets, accepted, queue, netCmd, dispCmd, sendRes>>
        /\ \A t \in Peripherals : taskCmd'[t] \in {taskCmd[t], NoId}
    BY <1>2 DEF TaskDrop, TaskDone, DataTypes, counters, history
  <2>2. QED
    BY <2>1, NothingMoves
<1>3. QED
  BY <1>1, <1>2, ReceiveCommandMoves, QueueCommandMoves, DispatcherReceiveMoves,
     DispatchMoves, TaskReceiveMoves, TaskRespondMoves, SenderReceiveMoves
     DEF Next, Network, Dispatcher, Task, Sender

\* A test that is answered is behind every one of its peripheral on its way that
\* was accepted before: there is none.
LEMMA AnswerIsFirst == Inv /\ Next /\ out' # out =>
    \A i \in Ids : /\ packets[i] = 1 /\ packets[sendRes.test_id] = 1
                   /\ PeripheralOf[i] = PeripheralOf[sendRes.test_id]
                   /\ QueuedBefore(i, sendRes.test_id)
                   => ~InPipeline(i)
<1> SUFFICES ASSUME Inv, Next, out' # out, NEW i \in Ids,
                    packets[i] = 1, packets[sendRes.test_id] = 1,
                    PeripheralOf[i] = PeripheralOf[sendRes.test_id],
                    QueuedBefore(i, sendRes.test_id), InPipeline(i)
             PROVE  FALSE
  OBVIOUS
<1>1. SenderSend
  BY DEF Next, Network, Dispatcher, Task, Sender, BootModule, BootNetwork, ReceiveBad,
     ReceiveCommand, QueueCommand, DropCommand, DispatcherReceive, Dispatch, DispatchFails,
     DispatchUnknown, TaskReceive, TaskRun, TaskRespond, TaskDrop, TaskDone, SenderReceive,
     SenderFails, SenderReadAddress
<1>2. PICK k \in Ids : sendRes.test_id = k
  BY <1>1 DEF SenderSend, Inv, DataTypes, Responses
<1>3. At(k, 6, 1) /\ 6 \in Stages /\ 1 \in Places
  BY <1>2 DEF At, Stages, Places
<1>4. /\ i # k
      /\ \A s \in Stages, m \in Places : ~At(i, s, m)
  <2>1. /\ i # k
        /\ \A s, t \in Stages, m, n \in Places :
             At(i, s, m) /\ At(k, t, n) => t < s \/ (t = s /\ n > m)
    BY <1>2 DEF Inv, OrderInv, AheadInv
  <2>2. QED
    BY <1>3, <2>1 DEF Stages, Places
<1>5. \A s \in Stages : s \in {0, 2, 6} => ~At(i, s, 1)
  BY <1>3, <1>4
<1>6. i \notin {netCmd, dispCmd, sendRes.test_id}
  BY <1>5 DEF At, Stages
<1>7. ASSUME NEW p \in Peripherals, taskCmd[p] = i PROVE FALSE
  <2>1. PeripheralOf[i] = p
    BY <1>7, Constants DEF Inv, PlaceInv
  <2>2. At(i, 4, 1) /\ 4 \in Stages
    BY <1>7, <2>1 DEF At, Stages
  <2>3. QED
    BY <1>3, <1>4, <2>2
<1>8. ASSUME NEW q \in CommandQueues, NEW n \in 1 .. Len(queue[q]), queue[q][n] = i
      PROVE  FALSE
  <2>1. n \in Places /\ 1 \in Stages /\ 3 \in Stages
    <3>1. Len(queue[q]) \in Nat
      BY DEF Inv, DataTypes
    <3>2. QED
      BY <3>1 DEF Places, Stages
  <2>2. CASE q = "command"
    BY <1>4, <1>8, <2>1, <2>2 DEF At
  <2>3. CASE q \in Peripherals
    <3>1. PeripheralOf[i] = q
      BY <1>8, <2>3 DEF Inv, PlaceInv
    <3>2. At(i, 3, n)
      BY <1>8, <2>3, <3>1 DEF At
    <3>3. QED
      BY <1>4, <2>1, <3>2
  <2>4. QED
    BY <2>2, <2>3 DEF CommandQueues
<1>9. ASSUME NEW n \in 1 .. Len(queue["response"]), queue["response"][n].test_id = i
      PROVE  FALSE
  <2>1. n \in Places /\ 5 \in Stages
    <3>1. Len(queue["response"]) \in Nat
      BY DEF Inv, DataTypes
    <3>2. QED
      BY <3>1 DEF Places, Stages
  <2>2. QED
    BY <1>4, <1>9, <2>1 DEF At
<1>10. QED
  BY <1>6, <1>7, <1>8, <1>9, Constants DEF InPipeline, Holding
-----------------------------------------------------------------------------
LEMMA Invariant == Spec => []Inv
<1>1. Init => Inv
  BY TypeStart, BootStart, SenderStart, OrderStart DEF Inv
<1>2. Inv /\ [Next]_vars => Inv'
  <2>1. Inv /\ Next => Inv'
    BY TypeStep, BootStep, SenderStep, PlaceStep, OrderStep DEF Inv
  <2>2. Inv /\ UNCHANGED vars => Inv'
    <3> SUFFICES ASSUME Inv, UNCHANGED vars PROVE Inv'
      OBVIOUS
    <3> USE DEF vars, control, counters, history
    <3>1. DataTypes' /\ BootInv' /\ SenderInv' /\ PlaceInv'
      BY DEF Inv, DataTypes, BootInv, SenderInv, RepliesToCommandSender, PlaceInv
    <3>2. OrderInv'
      BY NothingMoves DEF Inv
    <3>3. QED
      BY <3>1, <3>2 DEF Inv
  <2>3. QED
    BY <2>1, <2>2
<1>3. QED
  BY <1>1, <1>2, PTL DEF Spec

\* The variables of the pipeline keep their types, and no queue is longer than
\* it was created.
THEOREM TypeCorrect == Spec => []TypeOK
<1>1. Inv => TypeOK
  BY TypesSuffice DEF Inv
<1>2. QED
  BY <1>1, Invariant, PTL

\* No task uses a queue before StartDefaultTask has created it.
THEOREM QueuesCreated == Spec => []CreatedBeforeUse
<1>1. Inv => CreatedBeforeUse
  BY BootSuffices DEF Inv
<1>2. QED
  BY <1>1, Invariant, PTL

\* When no packet of a wrong size arrives, a response goes to the address and
\* to the port of a peer that has sent a command.
THEOREM SendersAnswered == BadPackets = 0 => (Spec => []RepliesToCommandSender)
<1> SUFFICES ASSUME BadPackets = 0 PROVE Spec => []RepliesToCommandSender
  OBVIOUS
<1>1. Inv => RepliesToCommandSender
  BY DEF Inv, SenderInv
<1>2. QED
  BY <1>1, Invariant, PTL

\* Two tests of one peripheral are answered in the order in which their commands
\* were queued, whatever is dropped on the way.
THEOREM OrderCorrect == Spec => AnsweredInOrder
<1>1. Inv /\ [Next]_vars =>
        [out' # out =>
           LET k == sendRes.test_id
           IN  \A i \in Ids : /\ packets[i] = 1 /\ packets[k] = 1
                              /\ PeripheralOf[i] = PeripheralOf[k]
                              /\ QueuedBefore(i, k)
                              => ~InPipeline(i)]_vars
  BY AnswerIsFirst DEF vars
<1>2. QED
  BY <1>1, Invariant, PTL DEF Spec, AnsweredInOrder
-----------------------------------------------------------------------------
(* How many items wait *)

One(b) == IF b THEN 1 ELSE 0

\* The positions of x in a sequence.
Slots(s, x) == {k \in 1 .. Len(s) : s[k] = x}

\* A sequence has finitely many positions of anything.
LEMMA SlotsFinite ==
    ASSUME NEW S, NEW s \in Seq(S), NEW x
    PROVE  /\ IsFiniteSet(Slots(s, x)) /\ Cardinality(Slots(s, x)) \in Nat
           /\ Slots(s, x) \subseteq Nat
<1>1. Len(s) \in Nat /\ IsFiniteSet(1 .. Len(s))
  BY FS_Interval
<1>2. Slots(s, x) \in SUBSET (1 .. Len(s))
  BY DEF Slots
<1>3. IsFiniteSet(Slots(s, x))
  BY <1>1, <1>2, FS_Subset
<1>4. QED
  BY <1>1, <1>2, <1>3, FS_CardinalityType

\* An item more is one position more, of that item.
LEMMA AppendSlots ==
    ASSUME NEW S, NEW s \in Seq(S), NEW x \in S, NEW y
    PROVE  Cardinality(Slots(Append(s, x), y)) = Cardinality(Slots(s, y)) + One(x = y)
<1>1. /\ Len(s) \in Nat /\ Len(Append(s, x)) = Len(s) + 1
      /\ Append(s, x)[Len(s) + 1] = x
      /\ \A k \in 1 .. Len(s) : Append(s, x)[k] = s[k]
  OBVIOUS
<1>2. 1 .. Len(s) + 1 = (1 .. Len(s)) \cup {Len(s) + 1} /\ Len(s) + 1 \notin 1 .. Len(s)
  BY <1>1
<1>3. /\ IsFiniteSet(Slots(s, y)) /\ Cardinality(Slots(s, y)) \in Nat
      /\ Len(s) + 1 \notin Slots(s, y)
  BY <1>2, SlotsFinite DEF Slots
<1>4. CASE x = y
  <2>1. Slots(Append(s, x), y) = Slots(s, y) \cup {Len(s) + 1}
    BY <1>1, <1>2, <1>4 DEF Slots
  <2>2. QED
    BY <2>1, <1>3, <1>4, FS_AddElement DEF One
<1>5. CASE x # y
  <2>1. Slots(Append(s, x), y) = Slots(s, y)
    BY <1>1, <1>2, <1>5 DEF Slots
  <2>2. QED
    BY <2>1, <1>3, <1>5 DEF One
<1>6. QED
  BY <1>4, <1>5

\* Without its head a sequence has the other items, one position further on.
LEMMA TailSlots ==
    ASSUME NEW S, NEW s \in Seq(S), s # <<>>, NEW y
    PROVE  Cardinality(Slots(Tail(s), y)) = Cardinality(Slots(s, y)) - One(Head(s) = y)
<1>1. /\ Len(s) \in Nat /\ Len(Tail(s)) = Len(s) - 1 /\ Len(s) >= 1
      /\ Head(s) = s[1] /\ Tail(s) \in Seq(S)
      /\ \A k \in 1 .. Len(s) - 1 : Tail(s)[k] = s[k + 1]
  OBVIOUS
<1> DEFINE T == Slots(Tail(s), y)
           f == [k \in T |-> k + 1]
<1>2. f \in Bijection(T, Slots(s, y) \ {1})
  <2>1. f \in [T -> Slots(s, y) \ {1}]
    BY <1>1 DEF Slots
  <2>2. \A a, b \in T : f[a] = f[b] => a = b
    BY <1>1 DEF Slots
  <2>3. \A n \in Slots(s, y) \ {1} : \E k \in T : f[k] = n
    <3> SUFFICES ASSUME NEW n \in Slots(s, y) \ {1} PROVE \E k \in T : f[k] = n
      OBVIOUS
    <3>1. n - 1 \in 1 .. Len(s) - 1 /\ s[n] = y /\ n \in Nat
      BY <1>1 DEF Slots
    <3>2. n - 1 \in T /\ (n - 1) + 1 = n
      BY <1>1, <3>1 DEF Slots
    <3>3. QED
      BY <3>2
  <2>4. QED
    BY <2>1, <2>2, <2>3 DEF Bijection, Injection, Surjection, IsInjective
<1>3. IsFiniteSet(T) /\ IsFiniteSet(Slots(s, y))
  BY <1>1, SlotsFinite
<1>4. Cardinality(T) = Cardinality(Slots(s, y) \ {1})
  BY <1>2, <1>3, FS_Bijection DEF ExistsBijection
<1>5. 1 \in Slots(s, y) <=> Head(s) = y
  BY <1>1 DEF Slots
<1>6. Cardinality(Slots(s, y)) \in Nat
  BY SlotsFinite
<1>7. Cardinality(Slots(s, y) \ {1}) =
        IF 1 \in Slots(s, y) THEN Cardinality(Slots(s, y)) - 1
                             ELSE Cardinality(Slots(s, y))
  BY <1>3, FS_RemoveElement
<1>8. QED
  BY <1>4, <1>5, <1>6, <1>7 DEF One

\* The places of the copies of command i in some of the queues qs.
Within(qs, Q, i) == UNION {{r} \X Slots(qs[r], i) : r \in Q}
Waiting(qs, i) == Within(qs, CommandQueues, i)
Others(qs, q, i) == Within(qs, CommandQueues \ {q}, i)

\* There are five peripherals at most, and as many queues for them.
LEMMA QueuesFinite == IsFiniteSet(CommandQueues)
<1>1. IsFiniteSet({})
  BY FS_EmptySet
<1>2. IsFiniteSet({} \cup {"TIMER"})
  BY <1>1, FS_AddElement
<1>3. IsFiniteSet(({} \cup {"TIMER"}) \cup {"UART"})
  BY <1>2, FS_AddElement
<1>4. IsFiniteSet((({} \cup {"TIMER"}) \cup {"UART"}) \cup {"I2C"})
  BY <1>3, FS_AddElement
<1>5. IsFiniteSet(((({} \cup {"TIMER"}) \cup {"UART"}) \cup {"I2C"}) \cup {"SPI"})
  BY <1>4, FS_AddElement
<1>6. IsFiniteSet((((({} \cup {"TIMER"}) \cup {"UART"}) \cup {"I2C"}) \cup {"SPI"}) \cup {"ADC"})
  BY <1>5, FS_AddElement
<1>7. Peripherals \in SUBSET ((((({} \cup {"TIMER"}) \cup {"UART"}) \cup {"I2C"}) \cup {"SPI"}) \cup {"ADC"})
  BY PipelineAssumption
<1>8. IsFiniteSet(Peripherals)
  BY <1>6, <1>7, FS_Subset
<1>9. QED
  BY <1>8, FS_AddElement DEF CommandQueues

LEMMA PeripheralsFinite == IsFiniteSet(Peripherals)
<1>1. Peripherals \in SUBSET CommandQueues
  BY DEF CommandQueues
<1>2. QED
  BY <1>1, QueuesFinite, FS_Subset

\* A union over some queues is finite.
LEMMA UnionFinite ==
    ASSUME NEW qs, NEW i, NEW Q \in SUBSET CommandQueues,
           \A r \in CommandQueues : qs[r] \in Seq(Ids)
    PROVE  IsFiniteSet(Within(qs, Q, i))
<1> DEFINE T == {{r} \X Slots(qs[r], i) : r \in Q}
           f == [r \in Q |-> {r} \X Slots(qs[r], i)]
<1>1. IsFiniteSet(Q)
  BY QueuesFinite, FS_Subset
<1>2. f \in Surjection(Q, T)
  BY DEF Surjection
<1>3. IsFiniteSet(T)
  BY <1>1, <1>2, FS_Surjection
<1>4. \A r \in Q : IsFiniteSet({r} \X Slots(qs[r], i))
  <2> SUFFICES ASSUME NEW r \in Q PROVE IsFiniteSet({r} \X Slots(qs[r], i))
    OBVIOUS
  <2>1. IsFiniteSet({r}) /\ IsFiniteSet(Slots(qs[r], i))
    BY FS_Singleton, SlotsFinite
  <2>2. QED
    BY <2>1, FS_Product
<1>5. \A U \in T : IsFiniteSet(U)
  BY <1>4
<1>6. QED
  BY <1>3, <1>5, FS_UNION DEF Within

\* The copies in one queue and those in the others are all there are.
LEMMA WaitingSplit ==
    ASSUME NEW qs, NEW i, NEW q \in CommandQueues,
           \A r \in CommandQueues : qs[r] \in Seq(Ids)
    PROVE  /\ Cardinality(Waiting(qs, i)) =
                Cardinality(Slots(qs[q], i)) + Cardinality(Others(qs, q, i))
           /\ Cardinality(Waiting(qs, i)) \in Nat
           /\ Cardinality(Slots(qs[q], i)) \in Nat
           /\ Cardinality(Others(qs, q, i)) \in Nat
<1> DEFINE P == {q} \X Slots(qs[q], i)
           O == Others(qs, q, i)
<1>1. IsFiniteSet(O)
  <2>1. CommandQueues \ {q} \in SUBSET CommandQueues
    OBVIOUS
  <2>2. QED
    BY <2>1, UnionFinite DEF Others
<1>2. /\ IsFiniteSet(Slots(qs[q], i)) /\ Cardinality(Slots(qs[q], i)) \in Nat
      /\ IsFiniteSet({q}) /\ Cardinality({q}) = 1
  BY SlotsFinite, FS_Singleton
<1>3. IsFiniteSet(P) /\ Cardinality(P) = Cardinality(Slots(qs[q], i))
  <2>1. IsFiniteSet(P) /\ Cardinality(P) = 1 * Cardinality(Slots(qs[q], i))
    BY <1>2, FS_Product
  <2>2. QED
    BY <2>1, <1>2
<1>4. Waiting(qs, i) = P \cup O
  BY DEF Waiting, Others, Within
<1>5. P \cap O = {}
  BY DEF Others, Within
<1>6. Cardinality(P \cap O) = 0
  BY <1>5, FS_EmptySet
<1>7. Cardinality(O) \in Nat
  BY <1>1, FS_CardinalityType
<1>8. Cardinality(P \cup O) = Cardinality(P) + Cardinality(O) - Cardinality(P \cap O)
  BY <1>1, <1>3, FS_Union
<1>9. QED
  BY <1>2, <1>3, <1>4, <1>6, <1>7, <1>8
\* A command that enters a queue, or leaves one.
LEMMA EnqueueCounts ==
    ASSUME DataTypes, NEW q \in CommandQueues, NEW x \in Ids, ~Full(q), Enqueue(q, x), NEW i
    PROVE  /\ Cardinality(Waiting(queue', i)) = Cardinality(Waiting(queue, i)) + One(x = i)
           /\ queue'["response"] = queue["response"]
<1>1. /\ queue'[q] = Append(queue[q], x)
      /\ \A r \in Queues \ {q} : queue'[r] = queue[r]
      /\ q \in Queues /\ q # "response"
  BY Constants DEF Enqueue, DataTypes
<1>2. \A r \in CommandQueues : queue'[r] \in Seq(Ids)
  BY <1>1, EnqueueTyped
<1>3. \A r \in CommandQueues : queue[r] \in Seq(Ids)
  BY DEF DataTypes
<1>4. Others(queue', q, i) = Others(queue, q, i)
  BY <1>1, Constants DEF Others, Within
<1>5. Cardinality(Slots(queue'[q], i)) = Cardinality(Slots(queue[q], i)) + One(x = i)
  BY <1>1, <1>3, AppendSlots
<1>6. One(x = i) \in Nat
  BY DEF One
<1>7. Cardinality(Waiting(queue', i)) =
        Cardinality(Slots(queue'[q], i)) + Cardinality(Others(queue', q, i))
  BY <1>2, WaitingSplit
<1>8. /\ Cardinality(Waiting(queue, i)) =
           Cardinality(Slots(queue[q], i)) + Cardinality(Others(queue, q, i))
      /\ Cardinality(Slots(queue[q], i)) \in Nat /\ Cardinality(Others(queue, q, i)) \in Nat
  BY <1>3, WaitingSplit
<1>9. QED
  BY <1>1, <1>4, <1>5, <1>6, <1>7, <1>8, Constants

LEMMA DequeueCounts ==
    ASSUME DataTypes, NEW q \in CommandQueues, queue[q] # <<>>, Dequeue(q), NEW i
    PROVE  /\ Cardinality(Waiting(queue', i)) =
                Cardinality(Waiting(queue, i)) - One(Head(queue[q]) = i)
           /\ queue'["response"] = queue["response"]
<1>1. /\ queue'[q] = Tail(queue[q])
      /\ \A r \in Queues \ {q} : queue'[r] = queue[r]
      /\ q \in Queues /\ q # "response"
  BY Constants DEF Dequeue, DataTypes
<1>2. \A r \in CommandQueues : queue'[r] \in Seq(Ids)
  BY <1>1, DequeueTyped
<1>3. \A r \in CommandQueues : queue[r] \in Seq(Ids)
  BY DEF DataTypes
<1>4. Others(queue', q, i) = Others(queue, q, i)
  BY <1>1, Constants DEF Others, Within
<1>5. Cardinality(Slots(queue'[q], i)) =
        Cardinality(Slots(queue[q], i)) - One(Head(queue[q]) = i)
  BY <1>1, <1>3, TailSlots
<1>6. One(Head(queue[q]) = i) \in Nat
  BY DEF One
<1>7. Cardinality(Waiting(queue', i)) =
        Cardinality(Slots(queue'[q], i)) + Cardinality(Others(queue', q, i))
  BY <1>2, WaitingSplit
<1>8. /\ Cardinality(Waiting(queue, i)) =
           Cardinality(Slots(queue[q], i)) + Cardinality(Others(queue, q, i))
      /\ Cardinality(Slots(queue[q], i)) \in Nat /\ Cardinality(Others(queue, q, i)) \in Nat
  BY <1>3, WaitingSplit
<1>9. QED
  BY <1>1, <1>4, <1>5, <1>6, <1>7, <1>8, Constants

\* The response queue: a change of it leaves the commands alone.
LEMMA ResponseCounts ==
    ASSUME DataTypes, \A q \in CommandQueues : queue'[q] = queue[q], NEW i
    PROVE  Waiting(queue', i) = Waiting(queue, i)
  BY DEF Waiting, Within

Response(i, r) == [test_id |-> i, result |-> r]

\* A response that enters its queue, or leaves it.
LEMMA EnqueueResponse ==
    ASSUME DataTypes, NEW x \in Responses, Enqueue("response", x), NEW y
    PROVE  /\ Cardinality(Slots(queue'["response"], y)) =
                Cardinality(Slots(queue["response"], y)) + One(x = y)
           /\ \A q \in CommandQueues : queue'[q] = queue[q]
<1>1. /\ queue'["response"] = Append(queue["response"], x)
      /\ \A q \in CommandQueues : queue'[q] = queue[q]
      /\ queue["response"] \in Seq(Responses)
  BY Constants DEF Enqueue, DataTypes
<1>2. QED
  BY <1>1, AppendSlots

LEMMA DequeueResponse ==
    ASSUME DataTypes, queue["response"] # <<>>, Dequeue("response"), NEW y
    PROVE  /\ Cardinality(Slots(queue'["response"], y)) =
                Cardinality(Slots(queue["response"], y)) - One(Head(queue["response"]) = y)
           /\ \A q \in CommandQueues : queue'[q] = queue[q]
<1>1. /\ queue'["response"] = Tail(queue["response"])
      /\ \A q \in CommandQueues : queue'[q] = queue[q]
      /\ queue["response"] \in Seq(Responses)
  BY Constants DEF Dequeue, DataTypes
<1>2. QED
  BY <1>1, TailSlots
-----------------------------------------------------------------------------
(* The variables of the service *)

\* The test tasks that are to run test i, and those that have run it.
Running(i) == {p \in Peripherals : taskCmd[p] = i /\ taskRes[p] = None}
Finished(i, r) == {p \in Peripherals : taskCmd[p] = i /\ taskRes[p] = r}

\* The answers to test i that have been sent, as elements of a bag and as pairs.
Kinds(i, r) == {d \in DOMAIN out : d.test_id = i /\ d.result = r}
Answers(i, r) == UNION {{d} \X (1 .. out[d]) : d \in Kinds(i, r)}

\* The variables of the service are sums of such numbers, before a step and after.
LEMMA Counts ==
    ASSUME NEW i, NEW r
    PROVE  /\ PendingOf(i) = One(netCmd = i) + One(dispCmd = i)
                               + Cardinality(Running(i)) + Cardinality(Waiting(queue, i))
           /\ VerdictsOf(i, r) = Cardinality(Finished(i, r))
                + Cardinality(Slots(queue["response"], Response(i, r)))
                + One(sendRes = Response(i, r))
           /\ AnsweredOf(i, r) = Cardinality(Answers(i, r))
<1>1. Queues \ {"response"} = CommandQueues
  BY Constants
<1>2. UNION {{q} \X Holding(q, i) : q \in Queues \ {"response"}} = Waiting(queue, i)
  BY <1>1 DEF Waiting, Within, Slots, Holding
<1>3. PendingOf(i) = One(netCmd = i) + One(dispCmd = i)
                      + Cardinality(Running(i)) + Cardinality(Waiting(queue, i))
  BY <1>2 DEF PendingOf, Running, One
<1>4. VerdictsOf(i, r) = Cardinality(Finished(i, r))
        + Cardinality(Slots(queue["response"], Response(i, r)))
        + One(sendRes = Response(i, r))
  BY DEF VerdictsOf, Finished, Slots, Holding, One, Response
<1>5. AnsweredOf(i, r) = Cardinality(Answers(i, r))
  BY DEF AnsweredOf, Answers, Kinds
<1>6. QED
  BY <1>3, <1>4, <1>5

LEMMA CountsNext ==
    ASSUME NEW i, NEW r
    PROVE  /\ PendingOf(i)' = One(netCmd' = i) + One(dispCmd' = i)
                + Cardinality(Running(i)') + Cardinality(Waiting(queue', i))
           /\ VerdictsOf(i, r)' = Cardinality(Finished(i, r)')
                + Cardinality(Slots(queue'["response"], Response(i, r)))
                + One(sendRes' = Response(i, r))
           /\ AnsweredOf(i, r)' = Cardinality(Answers(i, r)')
<1>1. Queues \ {"response"} = CommandQueues
  BY Constants
<1>2. UNION {{q} \X Holding(q, i)' : q \in Queues \ {"response"}} = Waiting(queue', i)
  BY <1>1 DEF Waiting, Within, Slots, Holding
<1>3. PendingOf(i)' = One(netCmd' = i) + One(dispCmd' = i)
                      + Cardinality(Running(i)') + Cardinality(Waiting(queue', i))
  BY <1>2 DEF PendingOf, Running, One
<1>4. VerdictsOf(i, r)' = Cardinality(Finished(i, r)')
        + Cardinality(Slots(queue'["response"], Response(i, r)))
        + One(sendRes' = Response(i, r))
  BY DEF VerdictsOf, Finished, Slots, Holding, One, Response
<1>5. AnsweredOf(i, r)' = Cardinality(Answers(i, r)')
  BY DEF AnsweredOf, Answers, Kinds
<1>6. QED
  BY <1>3, <1>4, <1>5

\* The sets are finite and the sums numbers.
LEMMA NumbersTyped ==
    ASSUME DataTypes, NEW i, NEW r
    PROVE  /\ Cardinality(Running(i)) \in Nat /\ IsFiniteSet(Running(i))
           /\ Cardinality(Waiting(queue, i)) \in Nat
           /\ Cardinality(Finished(i, r)) \in Nat /\ IsFiniteSet(Finished(i, r))
           /\ Cardinality(Slots(queue["response"], Response(i, r))) \in Nat
<1>1. /\ Running(i) \in SUBSET Peripherals
      /\ Finished(i, r) \in SUBSET Peripherals
  BY DEF Running, Finished
<1>2. IsFiniteSet(Running(i)) /\ IsFiniteSet(Finished(i, r))
  BY <1>1, PeripheralsFinite, FS_Subset
<1>3. Cardinality(Waiting(queue, i)) \in Nat
  <2>1. "command" \in CommandQueues
    BY DEF CommandQueues
  <2>2. \A c \in CommandQueues : queue[c] \in Seq(Ids)
    BY DEF DataTypes
  <2>3. QED
    BY <2>1, <2>2, WaitingSplit
<1>4. Cardinality(Slots(queue["response"], Response(i, r))) \in Nat
  BY SlotsFinite DEF DataTypes
<1>5. QED
  BY <1>2, <1>3, <1>4, FS_CardinalityType-----------------------------------------------------------------------------
(* The steps of the service *)

\* What the pipeline must do to the numbers for a step of the service.
LEMMA Stays ==
    ASSUME NEW i \in Ids, packets'[i] = packets[i], PendingOf(i)' = PendingOf(i),
           \A r \in Results : /\ VerdictsOf(i, r)' = VerdictsOf(i, r)
                              /\ AnsweredOf(i, r)' = AnsweredOf(i, r)
    PROVE  [Service(i)!Next]_(Service(i)!vars)
  BY DEF Service!vars

LEMMA Accepts ==
    ASSUME NEW i \in Ids, packets'[i] = packets[i] + 1,
           PendingOf(i)' = PendingOf(i) + 1,
           \A r \in Results : /\ VerdictsOf(i, r)' = VerdictsOf(i, r)
                              /\ AnsweredOf(i, r)' = AnsweredOf(i, r)
    PROVE  Service(i)!Next
  BY DEF Service!Next, Service!Accept

LEMMA LosesCommand ==
    ASSUME NEW i \in Ids, packets'[i] = packets[i],
           PendingOf(i) > 0, PendingOf(i)' = PendingOf(i) - 1,
           \A r \in Results : /\ VerdictsOf(i, r)' = VerdictsOf(i, r)
                              /\ AnsweredOf(i, r)' = AnsweredOf(i, r)
    PROVE  Service(i)!Next
  BY DEF Service!Next, Service!LoseCommand

LEMMA Runs ==
    ASSUME NEW i \in Ids, NEW r \in Results, packets'[i] = packets[i],
           PendingOf(i) > 0, PendingOf(i)' = PendingOf(i) - 1,
           VerdictsOf(i, r)' = VerdictsOf(i, r) + 1,
           \A s \in Results \ {r} : VerdictsOf(i, s)' = VerdictsOf(i, s),
           \A s \in Results : AnsweredOf(i, s)' = AnsweredOf(i, s)
    PROVE  Service(i)!Next
<1>1. Service(i)!Run(r)
  BY DEF Service!Run
<1>2. QED
  BY <1>1 DEF Service!Next

LEMMA LosesAnswer ==
    ASSUME NEW i \in Ids, NEW r \in Results, packets'[i] = packets[i],
           PendingOf(i)' = PendingOf(i),
           VerdictsOf(i, r) > 0, VerdictsOf(i, r)' = VerdictsOf(i, r) - 1,
           \A s \in Results \ {r} : VerdictsOf(i, s)' = VerdictsOf(i, s),
           \A s \in Results : AnsweredOf(i, s)' = AnsweredOf(i, s)
    PROVE  Service(i)!Next
<1>1. Service(i)!LoseAnswer(r)
  BY DEF Service!LoseAnswer
<1>2. QED
  BY <1>1 DEF Service!Next

LEMMA IsAnswered ==
    ASSUME NEW i \in Ids, NEW r \in Results, packets'[i] = packets[i],
           PendingOf(i)' = PendingOf(i),
           VerdictsOf(i, r) > 0, VerdictsOf(i, r)' = VerdictsOf(i, r) - 1,
           AnsweredOf(i, r)' = AnsweredOf(i, r) + 1,
           \A s \in Results \ {r} : /\ VerdictsOf(i, s)' = VerdictsOf(i, s)
                                    /\ AnsweredOf(i, s)' = AnsweredOf(i, s)
    PROVE  Service(i)!Next
<1>1. Service(i)!Answer(r)
  BY DEF Service!Answer
<1>2. QED
  BY <1>1 DEF Service!Next

\* What a step changes in the sets of tasks.
LEMMA TasksStay ==
    ASSUME UNCHANGED <<taskCmd, taskRes>>, NEW i, NEW r
    PROVE  Running(i)' = Running(i) /\ Finished(i, r)' = Finished(i, r)
  BY DEF Running, Finished

LEMMA AnswersStay ==
    ASSUME UNCHANGED out, NEW i, NEW r PROVE Answers(i, r)' = Answers(i, r)
  BY DEF Answers, Kinds

\* The steps before the test tasks.
LEMMA CommandStep ==
    ASSUME DataTypes, NEW i \in Ids,
           \/ \E peer \in Peers, k \in Ids : ReceiveCommand(peer, k)
           \/ QueueCommand \/ DropCommand \/ Dispatcher
    PROVE  [Service(i)!Next]_(Service(i)!vars)
<1> USE DEF One, MaybeId
<1>1. i # NoId /\ NoId \notin Ids /\ i \in Nat
  BY Constants, PipelineAssumption
<1>2. /\ Cardinality(Running(i)) \in Nat /\ Cardinality(Waiting(queue, i)) \in Nat
  BY NumbersTyped
<1>3. /\ Running(i)' = Running(i)
      /\ \A r : Finished(i, r)' = Finished(i, r) /\ Answers(i, r)' = Answers(i, r)
      /\ UNCHANGED sendRes
  <2>1. UNCHANGED <<taskCmd, taskRes, out, sendRes>>
    BY DEF ReceiveCommand, QueueCommand, DropCommand, Dispatcher, DispatcherReceive,
       Dispatch, DispatchFails, DispatchUnknown
  <2>2. QED
    BY <2>1, TasksStay, AnswersStay
<1>4. ASSUME queue'["response"] = queue["response"]
      PROVE  \A r : /\ VerdictsOf(i, r)' = VerdictsOf(i, r)
                    /\ AnsweredOf(i, r)' = AnsweredOf(i, r)
  BY <1>3, <1>4, Counts, CountsNext
<1>5. /\ PendingOf(i) = One(netCmd = i) + One(dispCmd = i)
                         + Cardinality(Running(i)) + Cardinality(Waiting(queue, i))
      /\ PendingOf(i)' = One(netCmd' = i) + One(dispCmd' = i)
                         + Cardinality(Running(i)) + Cardinality(Waiting(queue', i))
  BY <1>3, Counts, CountsNext
<1>6. ASSUME NEW peer \in Peers, NEW k \in Ids, ReceiveCommand(peer, k)
      PROVE  [Service(i)!Next]_(Service(i)!vars)
  <2>1. /\ netCmd = NoId /\ netCmd' = k /\ UNCHANGED <<dispCmd, queue>>
        /\ packets' = [packets EXCEPT ![k] = packets[k] + 1] /\ packets \in [Ids -> Nat]
    BY <1>6 DEF ReceiveCommand, DataTypes
  <2>2. CASE k = i
    <3>1. PendingOf(i)' = PendingOf(i) + 1 /\ packets'[i] = packets[i] + 1
      BY <1>1, <1>2, <1>5, <2>1, <2>2
    <3>2. QED
      BY <1>4, <2>1, <3>1, Accepts
  <2>3. CASE k # i
    <3>1. PendingOf(i)' = PendingOf(i) /\ packets'[i] = packets[i]
      BY <1>1, <1>2, <1>5, <2>1, <2>3
    <3>2. QED
      BY <1>4, <2>1, <3>1, Stays
  <2>4. QED
    BY <2>2, <2>3
<1>7. CASE QueueCommand
  <2>1. /\ netCmd \in Ids /\ netCmd' = NoId /\ UNCHANGED <<dispCmd, packets>>
        /\ ~Full("command") /\ Enqueue("command", netCmd)
    BY <1>7 DEF QueueCommand, DataTypes, counters
  <2>2. /\ Cardinality(Waiting(queue', i)) = Cardinality(Waiting(queue, i)) + One(netCmd = i)
        /\ queue'["response"] = queue["response"]
    <3>1. "command" \in CommandQueues
      BY DEF CommandQueues
    <3>2. QED
      BY <2>1, <3>1, EnqueueCounts
  <2>3. PendingOf(i)' = PendingOf(i)
    BY <1>1, <1>2, <1>5, <2>1, <2>2
  <2>4. QED
    BY <1>4, <2>1, <2>2, <2>3, Stays
<1>8. CASE DropCommand
  <2>1. netCmd' = NoId /\ UNCHANGED <<dispCmd, queue, packets>>
    BY <1>8 DEF DropCommand, counters
  <2>2. CASE netCmd = i
    <3>1. PendingOf(i) > 0 /\ PendingOf(i)' = PendingOf(i) - 1
      BY <1>1, <1>2, <1>5, <2>1, <2>2
    <3>2. QED
      BY <1>4, <2>1, <3>1, LosesCommand
  <2>3. CASE netCmd # i
    <3>1. PendingOf(i)' = PendingOf(i)
      BY <1>1, <1>2, <1>5, <2>1, <2>3
    <3>2. QED
      BY <1>4, <2>1, <3>1, Stays
  <2>4. QED
    BY <2>2, <2>3
<1>9. CASE DispatcherReceive
  <2>1. /\ dispCmd = NoId /\ dispCmd' = Head(queue["command"])
        /\ UNCHANGED <<netCmd, packets>>
        /\ queue["command"] # <<>> /\ Dequeue("command")
    BY <1>9 DEF DispatcherReceive, counters
  <2>2. /\ Cardinality(Waiting(queue', i)) =
             Cardinality(Waiting(queue, i)) - One(Head(queue["command"]) = i)
        /\ queue'["response"] = queue["response"]
    <3>1. "command" \in CommandQueues
      BY DEF CommandQueues
    <3>2. QED
      BY <2>1, <3>1, DequeueCounts
  <2>3. PendingOf(i)' = PendingOf(i)
    BY <1>1, <1>2, <1>5, <2>1, <2>2
  <2>4. QED
    BY <1>4, <2>1, <2>2, <2>3, Stays
<1>10. CASE Dispatch
  <2> DEFINE p == PeripheralOf[dispCmd]
  <2>1. /\ dispCmd \in Ids /\ dispCmd' = NoId /\ UNCHANGED <<netCmd, packets>>
        /\ p \in CommandQueues /\ ~Full(p) /\ Enqueue(p, dispCmd)
    BY <1>10 DEF Dispatch, DataTypes, counters, CommandQueues
  <2>2. /\ Cardinality(Waiting(queue', i)) = Cardinality(Waiting(queue, i)) + One(dispCmd = i)
        /\ queue'["response"] = queue["response"]
    BY <2>1, EnqueueCounts
  <2>3. PendingOf(i)' = PendingOf(i)
    BY <1>1, <1>2, <1>5, <2>1, <2>2
  <2>4. QED
    BY <1>4, <2>1, <2>2, <2>3, Stays
<1>11. CASE DispatchFails \/ DispatchUnknown
  <2>1. dispCmd' = NoId /\ UNCHANGED <<netCmd, queue, packets>>
    BY <1>11 DEF DispatchFails, DispatchUnknown, counters
  <2>2. CASE dispCmd = i
    <3>1. PendingOf(i) > 0 /\ PendingOf(i)' = PendingOf(i) - 1
      BY <1>1, <1>2, <1>5, <2>1, <2>2
    <3>2. QED
      BY <1>4, <2>1, <3>1, LosesCommand
  <2>3. CASE dispCmd # i
    <3>1. PendingOf(i)' = PendingOf(i)
      BY <1>1, <1>2, <1>5, <2>1, <2>3
    <3>2. QED
      BY <1>4, <2>1, <3>1, Stays
  <2>4. QED
    BY <2>2, <2>3
<1>12. QED
  BY <1>6, <1>7, <1>8, <1>9, <1>10, <1>11 DEF Dispatcher
\* The steps of a test task.
LEMMA TaskServes ==
    ASSUME DataTypes, NEW i \in Ids, NEW p \in Peripherals, Task(p)
    PROVE  [Service(i)!Next]_(Service(i)!vars)
<1> USE DEF One
<1>1. /\ i # NoId /\ i \in Nat /\ None \notin Results
      /\ p \in CommandQueues
  BY Constants, PipelineAssumption DEF CommandQueues
<1>2. /\ Cardinality(Running(i)) \in Nat /\ IsFiniteSet(Running(i))
      /\ Cardinality(Waiting(queue, i)) \in Nat
      /\ \A r : /\ Cardinality(Finished(i, r)) \in Nat /\ IsFiniteSet(Finished(i, r))
                /\ Cardinality(Slots(queue["response"], Response(i, r))) \in Nat
  BY NumbersTyped
<1>3. UNCHANGED <<netCmd, dispCmd, packets, out, sendRes>>
  BY DEF Task, TaskReceive, TaskRun, TaskRespond, TaskDrop, TaskDone, counters
<1>4. \A r : AnsweredOf(i, r)' = AnsweredOf(i, r)
  BY <1>3, AnswersStay, Counts, CountsNext
<1>5. /\ PendingOf(i) = One(netCmd = i) + One(dispCmd = i)
                         + Cardinality(Running(i)) + Cardinality(Waiting(queue, i))
      /\ PendingOf(i)' = One(netCmd = i) + One(dispCmd = i)
                         + Cardinality(Running(i)') + Cardinality(Waiting(queue', i))
  BY <1>3, Counts, CountsNext
<1>6. \A r : /\ VerdictsOf(i, r) = Cardinality(Finished(i, r))
                   + Cardinality(Slots(queue["response"], Response(i, r)))
                   + One(sendRes = Response(i, r))
             /\ VerdictsOf(i, r)' = Cardinality(Finished(i, r)')
                   + Cardinality(Slots(queue'["response"], Response(i, r)))
                   + One(sendRes = Response(i, r))
  BY <1>3, Counts, CountsNext
<1>7. CASE TaskReceive(p)
  <2>1. /\ taskCmd[p] = NoId /\ taskRes[p] = None /\ UNCHANGED taskRes
        /\ taskCmd' = [taskCmd EXCEPT ![p] = Head(queue[p])]
        /\ taskCmd \in [Peripherals -> MaybeId]
        /\ queue[p] # <<>> /\ Dequeue(p)
    BY <1>7 DEF TaskReceive, DataTypes
  <2>2. /\ Cardinality(Waiting(queue', i)) =
             Cardinality(Waiting(queue, i)) - One(Head(queue[p]) = i)
        /\ queue'["response"] = queue["response"]
    BY <1>1, <2>1, DequeueCounts
  <2>3. \A r \in Results : Finished(i, r)' = Finished(i, r)
    BY <1>1, <2>1 DEF Finished
  <2>4. Cardinality(Running(i)') = Cardinality(Running(i)) + One(Head(queue[p]) = i)
    <3>1. p \notin Running(i)
      BY <1>1, <2>1 DEF Running
    <3>2. CASE Head(queue[p]) = i
      <4>1. Running(i)' = Running(i) \cup {p}
        BY <2>1, <3>2 DEF Running
      <4>2. QED
        BY <1>2, <3>1, <3>2, <4>1, FS_AddElement
    <3>3. CASE Head(queue[p]) # i
      <4>1. Running(i)' = Running(i)
        BY <1>1, <2>1, <3>3 DEF Running
      <4>2. QED
        BY <1>2, <3>3, <4>1
    <3>4. QED
      BY <3>2, <3>3
  <2>5. PendingOf(i)' = PendingOf(i)
    BY <1>2, <1>5, <2>2, <2>4
  <2>6. \A r \in Results : VerdictsOf(i, r)' = VerdictsOf(i, r)
    BY <1>6, <2>2, <2>3
  <2>7. QED
    BY <1>3, <1>4, <2>5, <2>6, Stays
<1>8. ASSUME NEW r \in Results, TaskRun(p, r)
      PROVE  [Service(i)!Next]_(Service(i)!vars)
  <2>1. /\ taskCmd[p] # NoId /\ taskRes[p] = None /\ UNCHANGED <<taskCmd, queue>>
        /\ taskRes' = [taskRes EXCEPT ![p] = r]
        /\ taskRes \in [Peripherals -> Maybe(Results)]
    BY <1>8 DEF TaskRun, DataTypes
  <2>2. CASE taskCmd[p] = i
    <3>1. /\ Running(i)' = Running(i) \ {p} /\ p \in Running(i)
          /\ Finished(i, r)' = Finished(i, r) \cup {p} /\ p \notin Finished(i, r)
          /\ \A s \in Results \ {r} : Finished(i, s)' = Finished(i, s)
      BY <1>1, <2>1, <2>2 DEF Running, Finished
    <3>2. Cardinality(Running(i)') = Cardinality(Running(i)) - 1
      BY <1>2, <3>1, FS_RemoveElement
    <3>3. Cardinality(Running(i)) # 0
      BY <1>2, <3>1, FS_EmptySet
    <3>4. Cardinality(Finished(i, r)') = Cardinality(Finished(i, r)) + 1
      BY <1>2, <3>1, FS_AddElement
    <3>5. PendingOf(i) > 0 /\ PendingOf(i)' = PendingOf(i) - 1
      BY <1>2, <1>5, <2>1, <3>2, <3>3
    <3>6. VerdictsOf(i, r)' = VerdictsOf(i, r) + 1
      BY <1>2, <1>6, <2>1, <3>4
    <3>7. \A s \in Results \ {r} : VerdictsOf(i, s)' = VerdictsOf(i, s)
      BY <1>6, <2>1, <3>1
    <3>8. QED
      BY <1>3, <1>4, <3>5, <3>6, <3>7, Runs
  <2>3. CASE taskCmd[p] # i
    <3>1. Running(i)' = Running(i) /\ \A s \in Results : Finished(i, s)' = Finished(i, s)
      BY <2>1, <2>3 DEF Running, Finished
    <3>2. /\ PendingOf(i)' = PendingOf(i)
          /\ \A s \in Results : VerdictsOf(i, s)' = VerdictsOf(i, s)
      BY <1>5, <1>6, <2>1, <3>1
    <3>3. QED
      BY <1>3, <1>4, <3>2, Stays
  <2>4. QED
    BY <2>2, <2>3
<1>9. ASSUME taskRes[p] # None, TaskDone(p)
      PROVE  /\ taskRes[p] \in Results /\ taskCmd[p] \in Ids
             /\ Running(i)' = Running(i)
             /\ \A r \in Results : Cardinality(Finished(i, r)') =
                  Cardinality(Finished(i, r)) - One(taskCmd[p] = i /\ taskRes[p] = r)
             /\ \A r \in Results : taskCmd[p] = i /\ taskRes[p] = r
                                   => Cardinality(Finished(i, r)) # 0
  <2>1. /\ taskCmd' = [taskCmd EXCEPT ![p] = NoId] /\ taskCmd \in [Peripherals -> MaybeId]
        /\ taskRes' = [taskRes EXCEPT ![p] = None]
        /\ taskRes \in [Peripherals -> Maybe(Results)] /\ taskCmd[p] # NoId
    BY <1>9 DEF TaskDone, DataTypes
  <2>2. taskRes[p] \in Results /\ taskCmd[p] \in Ids
    BY <1>9, <2>1 DEF Maybe, MaybeId
  <2>3. Running(i)' = Running(i)
    BY <1>1, <1>9, <2>1 DEF Running
  <2>4. ASSUME NEW r \in Results
        PROVE  /\ Cardinality(Finished(i, r)') =
                    Cardinality(Finished(i, r)) - One(taskCmd[p] = i /\ taskRes[p] = r)
               /\ taskCmd[p] = i /\ taskRes[p] = r => Cardinality(Finished(i, r)) # 0
    <3>1. Finished(i, r)' = Finished(i, r) \ {p}
      BY <1>1, <2>1 DEF Finished
    <3>2. p \in Finished(i, r) <=> taskCmd[p] = i /\ taskRes[p] = r
      BY DEF Finished
    <3>3. Cardinality(Finished(i, r) \ {p}) =
            IF p \in Finished(i, r) THEN Cardinality(Finished(i, r)) - 1
                                    ELSE Cardinality(Finished(i, r))
      BY <1>2, FS_RemoveElement
    <3>4. p \in Finished(i, r) => Cardinality(Finished(i, r)) # 0
      BY <1>2, FS_EmptySet
    <3>5. QED
      BY <1>2, <3>1, <3>2, <3>3, <3>4
  <2>5. QED
    BY <2>2, <2>3, <2>4
<1>10. CASE TaskRespond(p)
  <2> DEFINE x == [test_id |-> taskCmd[p], result |-> taskRes[p]]
  <2>1. taskRes[p] # None /\ Enqueue("response", x) /\ TaskDone(p)
    BY <1>10 DEF TaskRespond
  <2>2. x \in Responses
    BY <1>9, <2>1 DEF Responses
  <2>3. Waiting(queue', i) = Waiting(queue, i)
    BY <2>1, <2>2, EnqueueResponse, ResponseCounts
  <2>4. PendingOf(i)' = PendingOf(i)
    BY <1>5, <1>9, <2>1, <2>3
  <2>5. ASSUME NEW r \in Results PROVE VerdictsOf(i, r)' = VerdictsOf(i, r)
    <3>1. Cardinality(Slots(queue'["response"], Response(i, r))) =
            Cardinality(Slots(queue["response"], Response(i, r))) + One(x = Response(i, r))
      BY <2>1, <2>2, EnqueueResponse
    <3>2. x = Response(i, r) <=> taskCmd[p] = i /\ taskRes[p] = r
      BY DEF Response
    <3>3. Cardinality(Finished(i, r)') =
            Cardinality(Finished(i, r)) - One(taskCmd[p] = i /\ taskRes[p] = r)
      BY <1>9, <2>1
    <3>4. QED
      BY <1>2, <1>6, <3>1, <3>2, <3>3
  <2>6. QED
    BY <1>3, <1>4, <2>4, <2>5, Stays
<1>11. CASE TaskDrop(p)
  <2>1. taskRes[p] # None /\ UNCHANGED queue /\ TaskDone(p)
    BY <1>11 DEF TaskDrop
  <2>2. PendingOf(i)' = PendingOf(i)
    BY <1>5, <1>9, <2>1
  <2>3. \A r \in Results : VerdictsOf(i, r)' =
                            VerdictsOf(i, r) - One(taskCmd[p] = i /\ taskRes[p] = r)
    BY <1>2, <1>6, <1>9, <2>1
  <2>4. ASSUME NEW r \in Results, taskCmd[p] = i, taskRes[p] = r
        PROVE  [Service(i)!Next]_(Service(i)!vars)
    <3>1. Cardinality(Finished(i, r)) # 0
      BY <1>9, <2>1, <2>4
    <3>2. VerdictsOf(i, r) > 0
      BY <1>2, <1>6, <3>1
    <3>3. VerdictsOf(i, r)' = VerdictsOf(i, r) - 1
      BY <2>3, <2>4
    <3>4. \A s \in Results \ {r} : VerdictsOf(i, s)' = VerdictsOf(i, s)
      BY <1>2, <1>6, <2>3, <2>4
    <3>5. QED
      BY <1>3, <1>4, <2>2, <3>2, <3>3, <3>4, LosesAnswer
  <2>5. CASE taskCmd[p] # i
    <3>1. \A s \in Results : VerdictsOf(i, s)' = VerdictsOf(i, s)
      BY <1>2, <1>6, <2>3, <2>5
    <3>2. QED
      BY <1>3, <1>4, <2>2, <3>1, Stays
  <2>6. QED
    BY <1>9, <2>1, <2>4, <2>5
<1>12. QED
  BY <1>7, <1>8, <1>10, <1>11 DEF Task
\* Every datagram that was sent was sent a number of times, and the answers to
\* a test are finitely many.
BagInv == /\ \A d \in DOMAIN out : out[d] \in Nat
          /\ \A i \in Ids, r \in Results : IsFiniteSet(Answers(i, r))

LEMMA BagStart == Init => BagInv
<1> SUFFICES ASSUME Init PROVE BagInv
  OBVIOUS
<1>1. DOMAIN out = {}
  BY DEF Init, EmptyBag, SetToBag
<1>2. \A i \in Ids, r \in Results : Answers(i, r) = {}
  BY <1>1 DEF Answers, Kinds
<1>3. QED
  BY <1>1, <1>2, FS_EmptySet DEF BagInv

\* A datagram is one more answer to its own test, and to no other.
LEMMA SendCounts ==
    ASSUME DataTypes, BagInv, SenderSend
    PROVE  /\ \A d \in DOMAIN out' : out'[d] \in Nat
           /\ \A i \in Ids, r \in Results :
                /\ IsFiniteSet(Answers(i, r)')
                /\ Cardinality(Answers(i, r)') =
                     Cardinality(Answers(i, r)) + One(sendRes = Response(i, r))
                /\ Cardinality(Answers(i, r)) \in Nat
<1> DEFINE d == [test_id |-> sendRes.test_id, result |-> sendRes.result,
                 addr |-> sendAddr, port |-> remote]
           n == IF d \in DOMAIN out THEN out[d] + 1 ELSE 1
<1>1. /\ DOMAIN out' = DOMAIN out \cup {d}
      /\ out'[d] = n
      /\ \A e \in DOMAIN out \ {d} : out'[e] = out[e]
  <2>1. \A e \in DOMAIN out : out[e] \in Nat
    BY DEF BagInv
  <2>2. out' = out (+) SetToBag({d})
    BY DEF SenderSend
  <2>3. QED
    BY <2>1, <2>2 DEF SetToBag, (+)
<1>2. n \in Nat \ {0} /\ \A e \in DOMAIN out : out[e] \in Nat
  BY DEF BagInv
<1>3. sendRes \in Responses /\ sendRes = [test_id |-> d.test_id, result |-> d.result]
  BY DEF SenderSend, DataTypes, Responses
<1>4. ASSUME NEW i \in Ids, NEW r \in Results
      PROVE  /\ IsFiniteSet(Answers(i, r)')
             /\ Cardinality(Answers(i, r)') =
                  Cardinality(Answers(i, r)) + One(sendRes = Response(i, r))
             /\ Cardinality(Answers(i, r)) \in Nat
  <2>1. IsFiniteSet(Answers(i, r)) /\ Cardinality(Answers(i, r)) \in Nat
    BY FS_CardinalityType DEF BagInv
  <2>2. CASE sendRes = Response(i, r)
    <3>1. d.test_id = i /\ d.result = r
      BY <1>3, <2>2 DEF Response
    <3>2. Kinds(i, r)' = Kinds(i, r) \cup {d}
      BY <1>1, <3>1 DEF Kinds
    <3>3. Answers(i, r)' = Answers(i, r) \cup {<<d, n>>}
      <4>1. CASE d \in DOMAIN out
        <5>1. 1 .. n = (1 .. out[d]) \cup {n}
          BY <1>2, <4>1
        <5>2. d \in Kinds(i, r)
          BY <3>1, <4>1 DEF Kinds
        <5>3. \A e \in Kinds(i, r) \ {d} : out'[e] = out[e]
          BY <1>1 DEF Kinds
        <5>4. \A x : x \in Answers(i, r)' <=>
                       \E e \in Kinds(i, r) \cup {d} : x \in {e} \X (1 .. out'[e])
          BY <3>2 DEF Answers
        <5>5. \A x : x \in Answers(i, r) <=>
                       \E e \in Kinds(i, r) : x \in {e} \X (1 .. out[e])
          BY DEF Answers
        <5>6. \A x : x \in {d} \X (1 .. n) <=> x \in {d} \X (1 .. out[d]) \/ x = <<d, n>>
          BY <5>1
        <5>7. QED
          BY <1>1, <5>2, <5>3, <5>4, <5>5, <5>6
      <4>2. CASE d \notin DOMAIN out
        <5>1. n = 1 /\ 1 .. n = {1}
          BY <4>2
        <5>2. d \notin Kinds(i, r)
          BY <4>2 DEF Kinds
        <5>3. \A e \in Kinds(i, r) : out'[e] = out[e]
          BY <1>1, <5>2 DEF Kinds
        <5>4. {d} \X (1 .. out'[d]) = {<<d, n>>}
          BY <1>1, <5>1
        <5>5. \A x : x \in Answers(i, r)' <=>
                       \E e \in Kinds(i, r) \cup {d} : x \in {e} \X (1 .. out'[e])
          BY <3>2 DEF Answers
        <5>6. \A x : x \in Answers(i, r) <=>
                       \E e \in Kinds(i, r) : x \in {e} \X (1 .. out[e])
          BY DEF Answers
        <5>7. QED
          BY <5>3, <5>4, <5>5, <5>6
      <4>3. QED
        BY <4>1, <4>2
    <3>4. <<d, n>> \notin Answers(i, r)
      <4>1. d \in DOMAIN out => n \notin 1 .. out[d]
        BY <1>2
      <4>2. QED
        BY <4>1 DEF Answers, Kinds
    <3>5. QED
      BY <2>1, <2>2, <3>3, <3>4, FS_AddElement DEF One
  <2>3. CASE sendRes # Response(i, r)
    <3>1. ~(d.test_id = i /\ d.result = r)
      BY <1>3, <2>3 DEF Response
    <3>2. Kinds(i, r)' = Kinds(i, r) /\ d \notin Kinds(i, r)
      BY <1>1, <3>1 DEF Kinds
    <3>3. \A e \in Kinds(i, r) : out'[e] = out[e]
      BY <1>1, <3>2 DEF Kinds
    <3>4. Answers(i, r)' = Answers(i, r)
      BY <3>2, <3>3 DEF Answers
    <3>5. QED
      BY <2>1, <2>3, <3>4 DEF One
  <2>4. QED
    BY <2>2, <2>3
<1>5. QED
  BY <1>1, <1>2, <1>4

\* Only the sender sends.
LEMMA BagStep == DataTypes /\ BagInv /\ Next => BagInv'
<1> SUFFICES ASSUME DataTypes, BagInv, Next PROVE BagInv'
  OBVIOUS
<1>1. CASE SenderSend
  BY <1>1, SendCounts DEF BagInv
<1>2. CASE ~SenderSend
  <2>1. UNCHANGED out
    BY <1>2 DEF Next, Network, Dispatcher, Task, Sender, ReceiveBad, ReceiveCommand,
       QueueCommand, DropCommand, DispatcherReceive, Dispatch, DispatchFails,
       DispatchUnknown, BootModule, BootNetwork, TaskReceive, TaskRun, TaskRespond,
       TaskDrop, TaskDone, SenderReceive, SenderFails, SenderReadAddress
  <2>2. QED
    BY <2>1, AnswersStay DEF BagInv
<1>3. QED
  BY <1>1, <1>2

\* The steps of the response sender.
LEMMA SenderServes ==
    ASSUME DataTypes, BagInv, NEW i \in Ids, Sender
    PROVE  [Service(i)!Next]_(Service(i)!vars)
<1> USE DEF One
<1>1. /\ Cardinality(Waiting(queue, i)) \in Nat
      /\ \A r : /\ Cardinality(Finished(i, r)) \in Nat
                /\ Cardinality(Slots(queue["response"], Response(i, r))) \in Nat
  BY NumbersTyped
<1>2. UNCHANGED <<netCmd, dispCmd, packets, taskCmd, taskRes>>
  BY DEF Sender, SenderReceive, SenderFails, SenderReadAddress, SenderSend, SenderDone,
     counters
<1>3. ASSUME \A q \in CommandQueues : queue'[q] = queue[q]
      PROVE  PendingOf(i)' = PendingOf(i)
  BY <1>2, <1>3, ResponseCounts, TasksStay, Counts, CountsNext
<1>4. \A r : /\ VerdictsOf(i, r) = Cardinality(Finished(i, r))
                   + Cardinality(Slots(queue["response"], Response(i, r)))
                   + One(sendRes = Response(i, r))
             /\ VerdictsOf(i, r)' = Cardinality(Finished(i, r))
                   + Cardinality(Slots(queue'["response"], Response(i, r)))
                   + One(sendRes' = Response(i, r))
  BY <1>2, TasksStay, Counts, CountsNext
<1>5. \A r : UNCHANGED out => AnsweredOf(i, r)' = AnsweredOf(i, r)
  BY AnswersStay, Counts, CountsNext
<1>6. \A r : NoResponse # Response(i, r)
  BY Constants DEF NoResponse, Response, Responses
<1>7. CASE SenderReceive
  <2>1. /\ sendRes = NoResponse /\ sendRes' = Head(queue["response"])
        /\ queue["response"] # <<>> /\ Dequeue("response") /\ UNCHANGED out
    BY <1>7 DEF SenderReceive
  <2>2. \A r \in Results : VerdictsOf(i, r)' = VerdictsOf(i, r)
    <3> SUFFICES ASSUME NEW r \in Results PROVE VerdictsOf(i, r)' = VerdictsOf(i, r)
      OBVIOUS
    <3>1. Cardinality(Slots(queue'["response"], Response(i, r))) =
            Cardinality(Slots(queue["response"], Response(i, r)))
              - One(Head(queue["response"]) = Response(i, r))
      BY <2>1, DequeueResponse
    <3>2. QED
      BY <1>1, <1>4, <1>6, <2>1, <3>1
  <2>3. PendingOf(i)' = PendingOf(i)
    BY <1>3, <2>1, DequeueResponse
  <2>4. QED
    BY <1>2, <1>5, <2>1, <2>2, <2>3, Stays
<1>8. CASE SenderReadAddress
  <2>1. UNCHANGED <<queue, sendRes, out>>
    BY <1>8 DEF SenderReadAddress
  <2>2. PendingOf(i)' = PendingOf(i)
    BY <1>3, <2>1
  <2>3. \A r \in Results : VerdictsOf(i, r)' = VerdictsOf(i, r)
    BY <1>4, <2>1
  <2>4. QED
    BY <1>2, <1>5, <2>1, <2>2, <2>3, Stays
<1>9. ASSUME SenderDone, sendRes \in Responses
      PROVE  /\ PendingOf(i)' = PendingOf(i)
             /\ \A r \in Results : VerdictsOf(i, r)' =
                      VerdictsOf(i, r) - One(sendRes = Response(i, r))
             /\ \A r \in Results : sendRes = Response(i, r) => VerdictsOf(i, r) > 0
             /\ sendRes.test_id = i => \E r \in Results : sendRes = Response(i, r)
             /\ \A r, s \in Results : r # s => Response(i, r) # Response(i, s)
  <2>1. sendRes' = NoResponse /\ UNCHANGED queue
    BY <1>9 DEF SenderDone
  <2>2. PendingOf(i)' = PendingOf(i)
    BY <1>3, <2>1
  <2>3. \A r \in Results : VerdictsOf(i, r)' =
                            VerdictsOf(i, r) - One(sendRes = Response(i, r))
    BY <1>1, <1>4, <1>6, <2>1
  <2>4. \A r \in Results : sendRes = Response(i, r) => VerdictsOf(i, r) > 0
    BY <1>1, <1>4
  <2>5. sendRes.test_id = i => \E r \in Results : sendRes = Response(i, r)
    BY <1>9 DEF Responses, Response
  <2>6. \A r, s \in Results : r # s => Response(i, r) # Response(i, s)
    BY DEF Response
  <2>7. QED
    BY <2>2, <2>3, <2>4, <2>5, <2>6
<1>10. ASSUME SenderDone, sendRes \in Responses,
             \A r \in Results : sendRes # Response(i, r),
             \A r \in Results : AnsweredOf(i, r)' = AnsweredOf(i, r)
      PROVE  [Service(i)!Next]_(Service(i)!vars)
  <2>1. \A r \in Results : VerdictsOf(i, r)' = VerdictsOf(i, r)
    BY <1>1, <1>4, <1>9, <1>10
  <2>2. QED
    BY <1>2, <1>9, <1>10, <2>1, Stays
<1>11. ASSUME NEW r \in Results, sendRes = Response(i, r), sendRes \in Responses, SenderDone
       PROVE  /\ PendingOf(i)' = PendingOf(i)
              /\ VerdictsOf(i, r) > 0 /\ VerdictsOf(i, r)' = VerdictsOf(i, r) - 1
              /\ \A s \in Results \ {r} : /\ VerdictsOf(i, s)' = VerdictsOf(i, s)
                                           /\ sendRes # Response(i, s)
  <2>1. \A s \in Results \ {r} : sendRes # Response(i, s)
    BY <1>9, <1>11
  <2>2. \A s \in Results \ {r} : VerdictsOf(i, s)' = VerdictsOf(i, s)
    BY <1>1, <1>4, <1>9, <1>11, <2>1
  <2>3. QED
    BY <1>9, <1>11, <2>1, <2>2
<1>12. CASE SenderFails
  <2>1. SenderDone /\ sendRes \in Responses /\ UNCHANGED out
    BY <1>12 DEF SenderFails, DataTypes
  <2>2. ASSUME NEW r \in Results, sendRes = Response(i, r)
        PROVE  [Service(i)!Next]_(Service(i)!vars)
    BY <1>2, <1>5, <1>11, <2>1, <2>2, LosesAnswer
  <2>3. QED
    BY <1>5, <1>10, <2>1, <2>2
<1>13. CASE SenderSend
  <2>1. SenderDone /\ sendRes \in Responses
    BY <1>13 DEF SenderSend, DataTypes
  <2>2. \A r \in Results : /\ AnsweredOf(i, r)' =
                                  AnsweredOf(i, r) + One(sendRes = Response(i, r))
                           /\ AnsweredOf(i, r) \in Nat
    BY <1>13, SendCounts, Counts, CountsNext
  <2>3. ASSUME NEW r \in Results, sendRes = Response(i, r)
        PROVE  [Service(i)!Next]_(Service(i)!vars)
    <3>1. AnsweredOf(i, r)' = AnsweredOf(i, r) + 1
      BY <2>2, <2>3
    <3>2. \A s \in Results \ {r} : AnsweredOf(i, s)' = AnsweredOf(i, s)
      BY <1>11, <2>1, <2>2, <2>3
    <3>3. QED
      BY <1>2, <1>11, <2>1, <2>3, <3>1, <3>2, IsAnswered
  <2>4. CASE \A r \in Results : sendRes # Response(i, r)
    <3>1. \A r \in Results : AnsweredOf(i, r)' = AnsweredOf(i, r)
      BY <2>2, <2>4
    <3>2. QED
      BY <1>10, <2>1, <2>4, <3>1
  <2>5. QED
    BY <2>3, <2>4
<1>14. QED
  BY <1>7, <1>8, <1>12, <1>13 DEF Sender

\* The steps that serve no test.
LEMMA OthersServe ==
    ASSUME UNCHANGED <<queue, control, packets, out>>, NEW i \in Ids
    PROVE  [Service(i)!Next]_(Service(i)!vars)
<1>1. UNCHANGED <<taskCmd, taskRes, netCmd, dispCmd, sendRes>>
  BY DEF control
<1>2. Running(i)' = Running(i) /\ \A r : Finished(i, r)' = Finished(i, r)
                                       /\ Answers(i, r)' = Answers(i, r)
  BY <1>1, TasksStay, AnswersStay
<1>3. PendingOf(i)' = PendingOf(i)
  BY <1>1, <1>2, Counts, CountsNext
<1>4. \A r \in Results : /\ VerdictsOf(i, r)' = VerdictsOf(i, r)
                         /\ AnsweredOf(i, r)' = AnsweredOf(i, r)
  BY <1>1, <1>2, Counts, CountsNext
<1>5. QED
  BY <1>3, <1>4, Stays

\* So every step of the pipeline is for each test a step of the service, or none.
LEMMA EveryStepServes ==
    DataTypes /\ BagInv /\ [Next]_vars
       => [\A i \in Ids : [Service(i)!Next]_(Service(i)!vars)]_vars
<1> SUFFICES ASSUME DataTypes, BagInv, Next, NEW i \in Ids
             PROVE  [Service(i)!Next]_(Service(i)!vars)
  OBVIOUS
<1>1. ASSUME \/ BootModule \/ BootNetwork
             \/ \E peer \in Peers : ReceiveBad(peer)
      PROVE  [Service(i)!Next]_(Service(i)!vars)
  <2>1. UNCHANGED <<queue, control, packets, out>>
    BY <1>1 DEF BootModule, BootNetwork, ReceiveBad, counters
  <2>2. QED
    BY <2>1, OthersServe
<1>2. QED
  BY <1>1, CommandStep, TaskServes, SenderServes DEF Next, Network

LEMMA ServiceStart == Init => \A i \in Ids : Service(i)!Init
<1> SUFFICES ASSUME Init, NEW i \in Ids PROVE Service(i)!Init
  OBVIOUS
<1>1. i # NoId /\ \A r : NoResponse # Response(i, r)
  BY Constants DEF NoResponse, Response
<1>2. \A q \in Queues : queue[q] = <<>>
  BY DEF Init
<1>3. Waiting(queue, i) = {}
  BY <1>2, Constants DEF Waiting, Within, Slots
<1>4. \A r : Slots(queue["response"], Response(i, r)) = {}
  BY <1>2, Constants DEF Slots
<1>5. Running(i) = {} /\ \A r : Finished(i, r) = {}
  BY <1>1 DEF Init, Running, Finished
<1>6. DOMAIN out = {}
  BY DEF Init, EmptyBag, SetToBag
<1>7. \A r : Answers(i, r) = {}
  BY <1>6 DEF Answers, Kinds
<1>8. Cardinality({}) = 0
  BY FS_EmptySet
<1>9. PendingOf(i) = 0
  <2>1. netCmd # i /\ dispCmd # i
    BY <1>1 DEF Init
  <2>2. PendingOf(i) = One(netCmd = i) + One(dispCmd = i)
                        + Cardinality(Running(i)) + Cardinality(Waiting(queue, i))
    BY Counts
  <2>3. One(netCmd = i) = 0 /\ One(dispCmd = i) = 0
    BY <2>1 DEF One
  <2>4. QED
    BY <1>3, <1>5, <1>8, <2>2, <2>3
<1>10. \A r \in Results : VerdictsOf(i, r) = 0 /\ AnsweredOf(i, r) = 0
  BY <1>1, <1>4, <1>5, <1>7, <1>8, Counts DEF Init, One
<1>11. QED
  BY <1>9, <1>10 DEF Service!Init, Init

LEMMA BagInvariant == Spec => []BagInv
<1>1. DataTypes /\ BagInv /\ [Next]_vars => BagInv'
  <2>1. BagInv /\ UNCHANGED vars => BagInv'
    BY AnswersStay DEF BagInv, vars
  <2>2. QED
    BY <2>1, BagStep
<1>2. Inv => DataTypes
  BY DEF Inv
<1>3. QED
  BY <1>1, <1>2, BagStart, Invariant, PTL DEF Spec

\* The pipeline implements TestService: however many commands of however many
\* tests are on their way, and whatever is dropped, a test is answered at most
\* once for each time its command was received and with an outcome it has had.
THEOREM ServiceImplemented == Spec => ImplementsService
<1>1. Inv => DataTypes
  BY DEF Inv
<1>2. QED
  BY <1>1, ServiceStart, EveryStepServes, Invariant, BagInvariant, PTL
     DEF Spec, ImplementsService
-----------------------------------------------------------------------------
(* What the service means for the server *)

\* The copies of test i that are in the firmware as commands or as responses,
\* and the answers to it that have been sent.
Accounted(i) == PendingOf(i) + VerdictsOf(i, "SUCCESS") + VerdictsOf(i, "FAIL")
                  + AnsweredOf(i, "SUCCESS") + AnsweredOf(i, "FAIL")

\* A packet of the server is in one place only: as a command that waits or
\* runs, as a response that waits, or as an answer that was sent.
NothingDuplicated == \A i \in Ids : Accounted(i) <= packets[i]

\* The numbers of the service are natural numbers.
LEMMA ServiceTyped ==
    ASSUME DataTypes, BagInv, NEW i \in Ids
    PROVE  /\ PendingOf(i) \in Nat /\ packets[i] \in Nat
           /\ \A r \in Results : VerdictsOf(i, r) \in Nat /\ AnsweredOf(i, r) \in Nat
<1>1. packets[i] \in Nat
  BY DEF DataTypes
<1>2. \A b : One(b) \in Nat
  BY DEF One
<1>3. PendingOf(i) \in Nat
  <2>1. Cardinality(Running(i)) \in Nat /\ Cardinality(Waiting(queue, i)) \in Nat
    BY NumbersTyped
  <2>2. One(netCmd = i) \in Nat /\ One(dispCmd = i) \in Nat
    BY <1>2
  <2>3. PendingOf(i) = One(netCmd = i) + One(dispCmd = i)
                        + Cardinality(Running(i)) + Cardinality(Waiting(queue, i))
    BY Counts
  <2>4. QED
    BY <2>1, <2>2, <2>3
<1>4. ASSUME NEW r \in Results
      PROVE  VerdictsOf(i, r) \in Nat /\ AnsweredOf(i, r) \in Nat
  <2>1. Cardinality(Answers(i, r)) \in Nat
    BY FS_CardinalityType DEF BagInv
  <2>2. QED
    BY <1>2, <2>1, Counts, NumbersTyped
<1>5. QED
  BY <1>1, <1>3, <1>4

\* No step of the service makes a test count for more than was received.
LEMMA ServiceKeepsAccount ==
    ASSUME DataTypes, BagInv, NEW i \in Ids, Service(i)!Next,
           Accounted(i) <= packets[i]
    PROVE  Accounted(i)' <= packets'[i]
<1>1. /\ PendingOf(i) \in Nat /\ packets[i] \in Nat
      /\ VerdictsOf(i, "SUCCESS") \in Nat /\ VerdictsOf(i, "FAIL") \in Nat
      /\ AnsweredOf(i, "SUCCESS") \in Nat /\ AnsweredOf(i, "FAIL") \in Nat
  BY ServiceTyped DEF Results
<1>2. CASE Service(i)!Accept
  BY <1>1, <1>2 DEF Service!Accept, Accounted, Results
<1>3. CASE Service(i)!LoseCommand
  BY <1>1, <1>3 DEF Service!LoseCommand, Accounted, Results
<1>4. ASSUME NEW r \in Results, Service(i)!Run(r)
      PROVE  Accounted(i)' <= packets'[i]
  <2>1. packets'[i] = packets[i] /\ PendingOf(i)' = PendingOf(i) - 1
    BY <1>4 DEF Service!Run
  <2>2. \A s \in Results : VerdictsOf(i, s)' = IF s = r THEN VerdictsOf(i, s) + 1
                                                        ELSE VerdictsOf(i, s)
    <3>1. [s \in Results |-> VerdictsOf(i, s)'] =
             [[s \in Results |-> VerdictsOf(i, s)] EXCEPT ![r] = @ + 1]
      BY <1>4 DEF Service!Run
    <3>2. QED
      BY <3>1
  <2>3. \A s \in Results : AnsweredOf(i, s)' = AnsweredOf(i, s)
    BY <1>4 DEF Service!Run
  <2>4. CASE r = "SUCCESS"
    BY <1>1, <2>1, <2>2, <2>3, <2>4 DEF Accounted, Results
  <2>5. CASE r = "FAIL"
    BY <1>1, <2>1, <2>2, <2>3, <2>5 DEF Accounted, Results
  <2>6. QED
    BY <2>4, <2>5 DEF Results
<1>5. ASSUME NEW r \in Results, Service(i)!Answer(r)
      PROVE  Accounted(i)' <= packets'[i]
  <2>1. packets'[i] = packets[i] /\ PendingOf(i)' = PendingOf(i)
    BY <1>5 DEF Service!Answer
  <2>2. \A s \in Results : VerdictsOf(i, s)' = IF s = r THEN VerdictsOf(i, s) - 1
                                                        ELSE VerdictsOf(i, s)
    <3>1. [s \in Results |-> VerdictsOf(i, s)'] =
             [[s \in Results |-> VerdictsOf(i, s)] EXCEPT ![r] = @ - 1]
      BY <1>5 DEF Service!Answer
    <3>2. QED
      BY <3>1
  <2>3. \A s \in Results : AnsweredOf(i, s)' = IF s = r THEN AnsweredOf(i, s) + 1
                                                        ELSE AnsweredOf(i, s)
    <3>1. [s \in Results |-> AnsweredOf(i, s)'] =
             [[s \in Results |-> AnsweredOf(i, s)] EXCEPT ![r] = @ + 1]
      BY <1>5 DEF Service!Answer
    <3>2. QED
      BY <3>1
  <2>4. CASE r = "SUCCESS"
    BY <1>1, <2>1, <2>2, <2>3, <2>4 DEF Accounted, Results
  <2>5. CASE r = "FAIL"
    BY <1>1, <2>1, <2>2, <2>3, <2>5 DEF Accounted, Results
  <2>6. QED
    BY <2>4, <2>5 DEF Results
<1>6. ASSUME NEW r \in Results, Service(i)!LoseAnswer(r)
      PROVE  Accounted(i)' <= packets'[i]
  <2>1. packets'[i] = packets[i] /\ PendingOf(i)' = PendingOf(i)
    BY <1>6 DEF Service!LoseAnswer
  <2>2. \A s \in Results : VerdictsOf(i, s)' = IF s = r THEN VerdictsOf(i, s) - 1
                                                        ELSE VerdictsOf(i, s)
    <3>1. [s \in Results |-> VerdictsOf(i, s)'] =
             [[s \in Results |-> VerdictsOf(i, s)] EXCEPT ![r] = @ - 1]
      BY <1>6 DEF Service!LoseAnswer
    <3>2. QED
      BY <3>1
  <2>3. \A s \in Results : AnsweredOf(i, s)' = AnsweredOf(i, s)
    BY <1>6 DEF Service!LoseAnswer
  <2>4. CASE r = "SUCCESS"
    BY <1>1, <2>1, <2>2, <2>3, <2>4 DEF Accounted, Results
  <2>5. CASE r = "FAIL"
    BY <1>1, <2>1, <2>2, <2>3, <2>5 DEF Accounted, Results
  <2>6. QED
    BY <2>4, <2>5 DEF Results
<1>7. QED
  BY <1>2, <1>3, <1>4, <1>5, <1>6 DEF Service!Next

\* Of every test no more copies and answers exist than packets were received:
\* however the queues fill, a server that sends a command once gets at most one
\* response to it.
THEOREM NothingIsDuplicated == Spec => []NothingDuplicated
<1>1. Init => NothingDuplicated
  <2> SUFFICES ASSUME Init, NEW i \in Ids PROVE Accounted(i) <= packets[i]
    BY DEF NothingDuplicated
  <2>1. Service(i)!Init
    BY ServiceStart
  <2>2. QED
    BY <2>1 DEF Service!Init, Accounted, Results
<1>2. DataTypes /\ BagInv /\ NothingDuplicated /\ [Next]_vars => NothingDuplicated'
  <2> SUFFICES ASSUME DataTypes, BagInv, NothingDuplicated, [Next]_vars,
                      NEW i \in Ids
               PROVE  Accounted(i)' <= packets'[i]
    BY DEF NothingDuplicated
  <2>1. Accounted(i) <= packets[i]
    BY DEF NothingDuplicated
  <2>2. CASE UNCHANGED vars
    <3>1. Accounted(i)' = Accounted(i) /\ packets' = packets
      BY <2>2 DEF vars, control, counters, Accounted, PendingOf, VerdictsOf,
         AnsweredOf, Holding
    <3>2. QED
      BY <2>1, <3>1
  <2>3. CASE Next
    <3>0. [\A k \in Ids : [Service(k)!Next]_(Service(k)!vars)]_vars
      BY <2>3, EveryStepServes
    <3>1. [Service(i)!Next]_(Service(i)!vars) \/ UNCHANGED vars
      BY <3>0
    <3>2. CASE Service(i)!Next
      BY <2>1, <3>2, ServiceKeepsAccount
    <3>3. CASE UNCHANGED Service(i)!vars
      BY <2>1, <3>3 DEF Service!vars, Accounted, Results
    <3>4. QED
      BY <2>2, <3>1, <3>2, <3>3
  <2>4. QED
    BY <2>2, <2>3
<1>3. Inv => DataTypes
  BY DEF Inv
<1>4. QED
  BY <1>1, <1>2, <1>3, Invariant, BagInvariant, PTL DEF Spec
-----------------------------------------------------------------------------
(* How much work a command is *)

\* The steps that the commands with the task of peripheral p, and in its queue,
\* are away from their end at most, those of the sender with them: a response in
\* the queue of the sender is four steps away.
RunLeft(p) == IF taskCmd[p] = NoId THEN 0 ELSE IF taskRes[p] = None THEN 6 ELSE 5
TaskLeft(p) == IF p \in Peripherals THEN 7 * Len(queue[p]) + RunLeft(p) ELSE 0

TasksLeft == TaskLeft("TIMER") + TaskLeft("UART") + TaskLeft("I2C") + TaskLeft("SPI")
               + TaskLeft("ADC")

\* The same for the commands that no task has yet, and for the responses.
NetLeft == IF netCmd = NoId THEN 0 ELSE 10
DispLeft == IF dispCmd = NoId THEN 0 ELSE 8
FrontLeft == NetLeft + 9 * Len(queue["command"]) + DispLeft

SendLeft == IF sendRes = NoResponse THEN 0 ELSE IF sendAddr = None THEN 3 ELSE 2
BackLeft == 4 * Len(queue["response"]) + SendLeft

\* The most steps that the firmware can still make with what it holds.
WorkLeft == FrontLeft + TasksLeft + BackLeft

\* A step of the firmware with a command or a response that it holds.
PipelineStep == \/ QueueCommand \/ DropCommand \/ Dispatcher
                \/ \E p \in Peripherals : Task(p)
                \/ Sender

\* Every step with a command brings it nearer to its end, and work is only
\* added by a packet, ten steps at most: no command goes round in the firmware,
\* whatever is full, fails or is dropped.
WorkIsBounded ==
    [][/\ PipelineStep => WorkLeft' < WorkLeft
       /\ WorkLeft' > WorkLeft => /\ netCmd = NoId /\ netCmd' # NoId
                                  /\ WorkLeft' = WorkLeft + 10]_vars

LEMMA LengthsTyped ==
    DataTypes => \A q \in Queues : Len(queue[q]) \in Nat
  BY Constants DEF DataTypes

\* The length of a queue that gets or loses an item.
LEMMA EnqueueLength ==
    ASSUME DataTypes, NEW q \in Queues, NEW x, Enqueue(q, x)
    PROVE  /\ Len(queue'[q]) = Len(queue[q]) + 1
           /\ \A r \in Queues \ {q} : queue'[r] = queue[r]
<1>1. queue'[q] = Append(queue[q], x) /\ \A r \in Queues \ {q} : queue'[r] = queue[r]
  BY DEF Enqueue, DataTypes
<1>2. \E S : queue[q] \in Seq(S)
  BY Constants DEF DataTypes
<1>3. QED
  BY <1>1, <1>2

LEMMA DequeueLength ==
    ASSUME DataTypes, NEW q \in Queues, queue[q] # <<>>, Dequeue(q)
    PROVE  /\ Len(queue'[q]) = Len(queue[q]) - 1
           /\ \A r \in Queues \ {q} : queue'[r] = queue[r]
<1>1. queue'[q] = Tail(queue[q]) /\ \A r \in Queues \ {q} : queue'[r] = queue[r]
  BY DEF Dequeue, DataTypes
<1>2. \E S : queue[q] \in Seq(S)
  BY Constants DEF DataTypes
<1>3. QED
  BY <1>1, <1>2, TailTyped

LEMMA PartsTyped == /\ NetLeft \in Nat /\ DispLeft \in Nat /\ SendLeft \in Nat
                    /\ \A p : RunLeft(p) \in Nat
  BY DEF NetLeft, DispLeft, SendLeft, RunLeft

LEMMA PartsNext ==
    /\ NetLeft' = IF netCmd' = NoId THEN 0 ELSE 10
    /\ DispLeft' = IF dispCmd' = NoId THEN 0 ELSE 8
    /\ SendLeft' = IF sendRes' = NoResponse THEN 0 ELSE IF sendAddr' = None THEN 3 ELSE 2
    /\ \A p : RunLeft(p)' = IF taskCmd'[p] = NoId THEN 0
                            ELSE IF taskRes'[p] = None THEN 6 ELSE 5
  BY DEF NetLeft, DispLeft, SendLeft, RunLeft

LEMMA TaskLeftTyped == DataTypes => \A p : TaskLeft(p) \in Nat
<1> SUFFICES ASSUME DataTypes, NEW p PROVE TaskLeft(p) \in Nat
  OBVIOUS
<1>1. RunLeft(p) \in Nat
  BY PartsTyped
<1>2. CASE p \in Peripherals
  <2>1. Len(queue[p]) \in Nat
    BY <1>2, LengthsTyped DEF Queues
  <2>2. QED
    BY <1>1, <1>2, <2>1 DEF TaskLeft
<1>3. CASE p \notin Peripherals
  BY <1>3 DEF TaskLeft, RunLeft
<1>4. QED
  BY <1>2, <1>3

LEMMA WorkLeftTyped ==
    DataTypes => /\ FrontLeft \in Nat /\ TasksLeft \in Nat /\ BackLeft \in Nat
                 /\ WorkLeft \in Nat
<1> SUFFICES ASSUME DataTypes
             PROVE  FrontLeft \in Nat /\ TasksLeft \in Nat /\ BackLeft \in Nat
                      /\ WorkLeft \in Nat
  OBVIOUS
<1>1. FrontLeft \in Nat
  <2>1. Len(queue["command"]) \in Nat
    BY LengthsTyped DEF Queues
  <2>2. QED
    BY <2>1, PartsTyped DEF FrontLeft
<1>2. TasksLeft \in Nat
  BY TaskLeftTyped DEF TasksLeft
<1>3. BackLeft \in Nat
  <2>1. Len(queue["response"]) \in Nat
    BY LengthsTyped DEF Queues
  <2>2. QED
    BY <2>1, PartsTyped DEF BackLeft
<1>4. QED
  BY <1>1, <1>2, <1>3 DEF WorkLeft

\* The tasks have as much to do when none of them moves, and by as much less as
\* the one that moves has.
LEMMA TasksRest ==
    ASSUME UNCHANGED <<taskCmd, taskRes>>, \A p \in Peripherals : queue'[p] = queue[p]
    PROVE  TasksLeft' = TasksLeft
<1>1. \A p : RunLeft(p)' = RunLeft(p)
  BY DEF RunLeft
<1>2. \A p : TaskLeft(p)' = TaskLeft(p)
  BY <1>1 DEF TaskLeft
<1>3. QED
  BY <1>2 DEF TasksLeft

LEMMA OneTaskMoves ==
    ASSUME DataTypes, NEW p \in Peripherals, NEW d \in Int,
           TaskLeft(p)' = TaskLeft(p) + d,
           \A r \in Peripherals \ {p} : TaskLeft(r)' = TaskLeft(r)
    PROVE  TasksLeft' = TasksLeft + d
<1>1. \A r : TaskLeft(r) \in Nat
  BY TaskLeftTyped
<1>2. \A r : r # p => TaskLeft(r)' = TaskLeft(r)
  BY DEF TaskLeft
<1>3. p \in {"TIMER", "UART", "I2C", "SPI", "ADC"}
  BY PipelineAssumption
<1> HIDE DEF TaskLeft, RunLeft
<1>4. CASE p = "TIMER"
  BY <1>1, <1>2, <1>4 DEF TasksLeft
<1>5. CASE p = "UART"
  BY <1>1, <1>2, <1>5 DEF TasksLeft
<1>6. CASE p = "I2C"
  BY <1>1, <1>2, <1>6 DEF TasksLeft
<1>7. CASE p = "SPI"
  BY <1>1, <1>2, <1>7 DEF TasksLeft
<1>8. CASE p = "ADC"
  BY <1>1, <1>2, <1>8 DEF TasksLeft
<1>9. QED
  BY <1>3, <1>4, <1>5, <1>6, <1>7, <1>8

LEMMA QueueNames ==
    /\ "command" \in Queues /\ "response" \in Queues /\ "command" # "response"
    /\ Peripherals \subseteq Queues
    /\ "command" \notin Peripherals /\ "response" \notin Peripherals
    /\ NoId \notin Ids /\ NoResponse \notin Responses /\ None \notin Results
    /\ None \notin Peers
  BY PipelineAssumption, Constants DEF Queues

\* What each step adds to the work, or takes from it.
LEMMA NetworkWork ==
    DataTypes =>
        /\ QueueCommand => WorkLeft' = WorkLeft - 1
        /\ DropCommand => WorkLeft' = WorkLeft - 10
<1> SUFFICES ASSUME DataTypes
             PROVE  /\ QueueCommand => WorkLeft' = WorkLeft - 1
                    /\ DropCommand => WorkLeft' = WorkLeft - 10
  OBVIOUS
<1>1. FrontLeft \in Nat /\ TasksLeft \in Nat /\ BackLeft \in Nat
  BY WorkLeftTyped
<1>2. \A q \in Queues : Len(queue[q]) \in Nat
  BY LengthsTyped
<1>3. ASSUME QueueCommand PROVE WorkLeft' = WorkLeft - 1
  <2>1. /\ Len(queue'["command"]) = Len(queue["command"]) + 1
        /\ \A r \in Queues \ {"command"} : queue'[r] = queue[r]
    BY <1>3, QueueNames, EnqueueLength DEF QueueCommand
  <2>2. FrontLeft' = FrontLeft - 1
    <3>1. NetLeft = 10 /\ NetLeft' = 0 /\ DispLeft' = DispLeft
      BY <1>3, PartsNext DEF QueueCommand, NetLeft, DispLeft
    <3>2. QED
      BY <1>2, <2>1, <3>1, QueueNames, PartsTyped DEF FrontLeft
  <2>3. TasksLeft' = TasksLeft
    BY <1>3, <2>1, QueueNames, TasksRest DEF QueueCommand
  <2>4. BackLeft' = BackLeft
    BY <1>3, <2>1, QueueNames DEF QueueCommand, BackLeft, SendLeft
  <2>5. QED
    BY <1>1, <2>2, <2>3, <2>4 DEF WorkLeft
<1>4. ASSUME DropCommand PROVE WorkLeft' = WorkLeft - 10
  <2>1. FrontLeft' = FrontLeft - 10
    <3>1. /\ NetLeft = 10 /\ NetLeft' = 0 /\ DispLeft' = DispLeft
          /\ UNCHANGED queue
      BY <1>4, PartsNext DEF DropCommand, NetLeft, DispLeft
    <3>2. QED
      BY <1>2, <3>1, QueueNames, PartsTyped DEF FrontLeft
  <2>2. TasksLeft' = TasksLeft
    BY <1>4, TasksRest DEF DropCommand
  <2>3. BackLeft' = BackLeft
    BY <1>4 DEF DropCommand, BackLeft, SendLeft
  <2>4. QED
    BY <1>1, <2>1, <2>2, <2>3 DEF WorkLeft
<1>5. QED
  BY <1>3, <1>4

LEMMA DispatcherWork ==
    DataTypes =>
        /\ DispatcherReceive \/ Dispatch => WorkLeft' = WorkLeft - 1
        /\ DispatchFails \/ DispatchUnknown => WorkLeft' = WorkLeft - 8
<1> SUFFICES ASSUME DataTypes
             PROVE  /\ DispatcherReceive \/ Dispatch => WorkLeft' = WorkLeft - 1
                    /\ DispatchFails \/ DispatchUnknown => WorkLeft' = WorkLeft - 8
  OBVIOUS
<1>1. FrontLeft \in Nat /\ TasksLeft \in Nat /\ BackLeft \in Nat
  BY WorkLeftTyped
<1>2. \A q \in Queues : Len(queue[q]) \in Nat
  BY LengthsTyped
<1>3. ASSUME DispatcherReceive PROVE WorkLeft' = WorkLeft - 1
  <2>1. /\ Len(queue'["command"]) = Len(queue["command"]) - 1
        /\ \A r \in Queues \ {"command"} : queue'[r] = queue[r]
    BY <1>3, QueueNames, DequeueLength DEF DispatcherReceive
  <2>2. dispCmd = NoId /\ dispCmd' # NoId /\ netCmd' = netCmd
    <3>1. dispCmd = NoId /\ dispCmd' = Head(queue["command"]) /\ netCmd' = netCmd
          /\ queue["command"] # <<>>
      BY <1>3 DEF DispatcherReceive
    <3>2. queue["command"] \in Seq(Ids)
      BY DEF DataTypes, CommandQueues
    <3>3. Head(queue["command"]) \in Ids
      BY <3>1, <3>2, TailTyped
    <3>4. QED
      BY <3>1, <3>3, QueueNames
  <2>3. FrontLeft' = FrontLeft - 1
    <3>1. DispLeft = 0 /\ DispLeft' = 8 /\ NetLeft' = NetLeft
      BY <2>2, PartsNext DEF NetLeft, DispLeft
    <3>2. QED
      BY <1>2, <2>1, <3>1, QueueNames, PartsTyped DEF FrontLeft
  <2>4. TasksLeft' = TasksLeft
    BY <1>3, <2>1, QueueNames, TasksRest DEF DispatcherReceive
  <2>5. BackLeft' = BackLeft
    BY <1>3, <2>1, QueueNames DEF DispatcherReceive, BackLeft, SendLeft
  <2>6. QED
    BY <1>1, <2>3, <2>4, <2>5 DEF WorkLeft
<1>4. ASSUME Dispatch PROVE WorkLeft' = WorkLeft - 1
  <2>1. PICK p \in Peripherals : Enqueue(p, dispCmd)
    BY <1>4 DEF Dispatch
  <2>2. /\ dispCmd # NoId /\ dispCmd' = NoId
        /\ UNCHANGED <<netCmd, taskCmd, taskRes, sendRes, sendAddr>>
    BY <1>4 DEF Dispatch
  <2>3. /\ Len(queue'[p]) = Len(queue[p]) + 1
        /\ \A r \in Queues \ {p} : queue'[r] = queue[r]
    BY <2>1, QueueNames, EnqueueLength
  <2>4. FrontLeft' = FrontLeft - 8
    <3>1. DispLeft = 8 /\ DispLeft' = 0 /\ NetLeft' = NetLeft
      BY <2>2, PartsNext DEF NetLeft, DispLeft
    <3>2. QED
      BY <1>2, <2>3, <3>1, QueueNames, PartsTyped DEF FrontLeft
  <2>5. TaskLeft(p)' = TaskLeft(p) + 7
    <3>1. RunLeft(p)' = RunLeft(p)
      BY <2>2 DEF RunLeft
    <3>2. QED
      BY <1>2, <2>3, <3>1, QueueNames, PartsTyped DEF TaskLeft
  <2>6. \A r \in Peripherals \ {p} : TaskLeft(r)' = TaskLeft(r)
    BY <2>2, <2>3, QueueNames DEF TaskLeft, RunLeft
  <2>7. TasksLeft' = TasksLeft + 7
    BY <2>5, <2>6, OneTaskMoves
  <2>8. BackLeft' = BackLeft
    BY <2>2, <2>3, QueueNames DEF BackLeft, SendLeft
  <2>9. QED
    BY <1>1, <2>4, <2>7, <2>8 DEF WorkLeft
<1>5. ASSUME DispatchFails \/ DispatchUnknown PROVE WorkLeft' = WorkLeft - 8
  <2>1. /\ dispCmd # NoId /\ dispCmd' = NoId
        /\ UNCHANGED <<queue, netCmd, taskCmd, taskRes, sendRes, sendAddr>>
    BY <1>5 DEF DispatchFails, DispatchUnknown
  <2>2. FrontLeft' = FrontLeft - 8
    <3>1. DispLeft = 8 /\ DispLeft' = 0 /\ NetLeft' = NetLeft
      BY <2>1, PartsNext DEF NetLeft, DispLeft
    <3>2. QED
      BY <1>2, <2>1, <3>1, QueueNames, PartsTyped DEF FrontLeft
  <2>3. TasksLeft' = TasksLeft
    BY <2>1, TasksRest
  <2>4. BackLeft' = BackLeft
    BY <2>1 DEF BackLeft, SendLeft
  <2>5. QED
    BY <1>1, <2>2, <2>3, <2>4 DEF WorkLeft
<1>6. QED
  BY <1>3, <1>4, <1>5

LEMMA TaskWork ==
    DataTypes => \A p \in Peripherals :
        /\ TaskReceive(p) \/ (\E r \in Results : TaskRun(p, r)) \/ TaskRespond(p)
             => WorkLeft' = WorkLeft - 1
        /\ TaskDrop(p) => WorkLeft' = WorkLeft - 5
<1> SUFFICES ASSUME DataTypes, NEW p \in Peripherals
             PROVE  /\ TaskReceive(p) \/ (\E r \in Results : TaskRun(p, r)) \/ TaskRespond(p)
                         => WorkLeft' = WorkLeft - 1
                    /\ TaskDrop(p) => WorkLeft' = WorkLeft - 5
  OBVIOUS
<1>1. FrontLeft \in Nat /\ TasksLeft \in Nat /\ BackLeft \in Nat
  BY WorkLeftTyped
<1>2. \A q \in Queues : Len(queue[q]) \in Nat
  BY LengthsTyped
<1>3. /\ taskCmd \in [Peripherals -> MaybeId] /\ taskRes \in [Peripherals -> Maybe(Results)]
      /\ taskRes[p] # None => taskCmd[p] # NoId
  BY DEF DataTypes
<1>4. ASSUME TaskReceive(p) PROVE WorkLeft' = WorkLeft - 1
  <2>1. /\ Len(queue'[p]) = Len(queue[p]) - 1
        /\ \A r \in Queues \ {p} : queue'[r] = queue[r]
    BY <1>4, QueueNames, DequeueLength DEF TaskReceive
  <2>2. /\ taskCmd[p] = NoId /\ taskCmd' = [taskCmd EXCEPT ![p] = Head(queue[p])]
        /\ UNCHANGED <<netCmd, dispCmd, taskRes, sendRes, sendAddr>>
    BY <1>4 DEF TaskReceive
  <2>3. taskCmd'[p] # NoId
    <3>1. queue[p] # <<>> /\ queue[p] \in Seq(Ids)
      BY <1>4 DEF TaskReceive, DataTypes, CommandQueues
    <3>2. Head(queue[p]) \in Ids
      BY <3>1, TailTyped
    <3>3. QED
      BY <1>3, <2>2, <3>2, QueueNames
  <2>4. taskRes[p] = None
    BY <1>3, <2>2
  <2>5. TaskLeft(p)' = TaskLeft(p) + (-1)
    BY <1>2, <2>1, <2>2, <2>3, <2>4, QueueNames DEF TaskLeft, RunLeft
  <2>6. \A r \in Peripherals \ {p} : TaskLeft(r)' = TaskLeft(r)
    BY <1>3, <2>1, <2>2, QueueNames DEF TaskLeft, RunLeft
  <2>7. TasksLeft' = TasksLeft + (-1)
    BY <2>5, <2>6, OneTaskMoves
  <2>8. FrontLeft' = FrontLeft
    BY <2>1, <2>2, QueueNames DEF FrontLeft, NetLeft, DispLeft
  <2>9. BackLeft' = BackLeft
    BY <2>1, <2>2, QueueNames DEF BackLeft, SendLeft
  <2>10. QED
    BY <1>1, <2>7, <2>8, <2>9 DEF WorkLeft
<1>5. ASSUME NEW r \in Results, TaskRun(p, r) PROVE WorkLeft' = WorkLeft - 1
  <2>1. /\ taskCmd[p] # NoId /\ taskRes[p] = None /\ taskRes' = [taskRes EXCEPT ![p] = r]
        /\ UNCHANGED <<queue, netCmd, dispCmd, taskCmd, sendRes, sendAddr>>
    BY <1>5 DEF TaskRun
  <2>2. taskRes'[p] # None
    BY <1>3, <2>1, QueueNames
  <2>3. TaskLeft(p)' = TaskLeft(p) + (-1)
    BY <1>2, <2>1, <2>2, QueueNames DEF TaskLeft, RunLeft
  <2>4. \A s \in Peripherals \ {p} : TaskLeft(s)' = TaskLeft(s)
    BY <1>3, <2>1 DEF TaskLeft, RunLeft
  <2>5. TasksLeft' = TasksLeft + (-1)
    BY <2>3, <2>4, OneTaskMoves
  <2>6. FrontLeft' = FrontLeft /\ BackLeft' = BackLeft
    BY <2>1 DEF FrontLeft, BackLeft, NetLeft, DispLeft, SendLeft
  <2>7. QED
    BY <1>1, <2>5, <2>6 DEF WorkLeft
<1>6. ASSUME TaskDone(p), taskRes[p] # None, queue'[p] = queue[p],
             \A r \in Peripherals : queue'[r] = queue[r]
      PROVE  TasksLeft' = TasksLeft + (-5)
  <2>1. /\ taskCmd' = [taskCmd EXCEPT ![p] = NoId]
        /\ taskCmd'[p] = NoId /\ \A r \in Peripherals \ {p} : taskCmd'[r] = taskCmd[r]
    BY <1>3, <1>6 DEF TaskDone
  <2>2. \A r \in Peripherals \ {p} : taskRes'[r] = taskRes[r]
    BY <1>3, <1>6 DEF TaskDone
  <2>3. TaskLeft(p)' = TaskLeft(p) + (-5)
    BY <1>2, <1>3, <1>6, <2>1, QueueNames DEF TaskLeft, RunLeft
  <2>4. \A r \in Peripherals \ {p} : TaskLeft(r)' = TaskLeft(r)
    BY <1>6, <2>1, <2>2 DEF TaskLeft, RunLeft
  <2>5. QED
    BY <2>3, <2>4, OneTaskMoves
<1>7. ASSUME TaskRespond(p) PROVE WorkLeft' = WorkLeft - 1
  <2>1. /\ Len(queue'["response"]) = Len(queue["response"]) + 1
        /\ \A r \in Queues \ {"response"} : queue'[r] = queue[r]
    BY <1>7, QueueNames, EnqueueLength DEF TaskRespond
  <2>2. TasksLeft' = TasksLeft + (-5)
    BY <1>6, <1>7, <2>1, QueueNames DEF TaskRespond
  <2>3. UNCHANGED <<netCmd, dispCmd, sendRes, sendAddr>>
    BY <1>7 DEF TaskRespond, TaskDone
  <2>4. FrontLeft' = FrontLeft
    BY <2>1, <2>3, QueueNames DEF FrontLeft, NetLeft, DispLeft
  <2>5. BackLeft' = BackLeft + 4
    <3>1. SendLeft' = SendLeft
      BY <2>3 DEF SendLeft
    <3>2. QED
      BY <1>2, <2>1, <3>1, QueueNames, PartsTyped DEF BackLeft
  <2>6. QED
    BY <1>1, <2>2, <2>4, <2>5 DEF WorkLeft
<1>8. ASSUME TaskDrop(p) PROVE WorkLeft' = WorkLeft - 5
  <2>1. UNCHANGED <<queue, netCmd, dispCmd, sendRes, sendAddr>>
    BY <1>8 DEF TaskDrop, TaskDone
  <2>2. TasksLeft' = TasksLeft + (-5)
    BY <1>6, <1>8, <2>1 DEF TaskDrop
  <2>3. FrontLeft' = FrontLeft /\ BackLeft' = BackLeft
    BY <2>1 DEF FrontLeft, BackLeft, NetLeft, DispLeft, SendLeft
  <2>4. QED
    BY <1>1, <2>2, <2>3 DEF WorkLeft
<1>9. QED
  BY <1>4, <1>5, <1>7, <1>8

LEMMA SenderWork == DataTypes /\ Sender => WorkLeft' < WorkLeft
<1> SUFFICES ASSUME DataTypes, Sender PROVE WorkLeft' < WorkLeft
  OBVIOUS
<1>1. FrontLeft \in Nat /\ TasksLeft \in Nat /\ BackLeft \in Nat
  BY WorkLeftTyped
<1>2. \A q \in Queues : Len(queue[q]) \in Nat
  BY LengthsTyped
<1>3. sendAddr # None => sendRes # NoResponse
  BY DEF DataTypes
<1>4. CASE SenderReceive
  <2>1. /\ Len(queue'["response"]) = Len(queue["response"]) - 1
        /\ \A r \in Queues \ {"response"} : queue'[r] = queue[r]
    BY <1>4, QueueNames, DequeueLength DEF SenderReceive
  <2>2. /\ sendRes = NoResponse /\ sendRes' = Head(queue["response"])
        /\ UNCHANGED <<netCmd, dispCmd, taskCmd, taskRes, sendAddr>>
    BY <1>4 DEF SenderReceive
  <2>3. sendRes' # NoResponse
    <3>1. queue["response"] # <<>> /\ queue["response"] \in Seq(Responses)
      BY <1>4 DEF SenderReceive, DataTypes
    <3>2. Head(queue["response"]) \in Responses
      BY <3>1, TailTyped
    <3>3. QED
      BY <2>2, <3>2, QueueNames
  <2>4. sendAddr = None /\ sendAddr' = None
    BY <1>3, <2>2
  <2>5. FrontLeft' = FrontLeft
    BY <2>1, <2>2, QueueNames DEF FrontLeft, NetLeft, DispLeft
  <2>6. TasksLeft' = TasksLeft
    BY <2>1, <2>2, QueueNames, TasksRest
  <2>7. BackLeft' = BackLeft - 1
    BY <1>2, <2>1, <2>2, <2>3, <2>4, QueueNames DEF BackLeft, SendLeft
  <2>8. QED
    BY <1>1, <2>5, <2>6, <2>7 DEF WorkLeft
<1>5. CASE SenderReadAddress
  <2>1. /\ sendRes # NoResponse /\ sendAddr = None /\ sendAddr' # None
        /\ UNCHANGED <<queue, netCmd, dispCmd, taskCmd, taskRes, sendRes>>
    BY <1>5 DEF SenderReadAddress
  <2>2. FrontLeft' = FrontLeft
    BY <2>1 DEF FrontLeft, NetLeft, DispLeft
  <2>3. TasksLeft' = TasksLeft
    BY <2>1, TasksRest
  <2>4. BackLeft' = BackLeft - 1
    BY <1>2, <2>1, QueueNames DEF BackLeft, SendLeft
  <2>5. QED
    BY <1>1, <2>2, <2>3, <2>4 DEF WorkLeft
<1>6. CASE SenderFails \/ SenderSend
  <2>1. /\ sendRes # NoResponse /\ sendRes' = NoResponse
        /\ UNCHANGED <<queue, netCmd, dispCmd, taskCmd, taskRes>>
    BY <1>3, <1>6 DEF SenderFails, SenderSend, SenderDone
  <2>2. FrontLeft' = FrontLeft
    BY <2>1 DEF FrontLeft, NetLeft, DispLeft
  <2>3. TasksLeft' = TasksLeft
    BY <2>1, TasksRest
  <2>4. \E d \in {2, 3} : BackLeft' = BackLeft - d
    <3>1. SendLeft \in {2, 3} /\ SendLeft' = 0
      BY <2>1, PartsNext DEF SendLeft
    <3>2. BackLeft' = BackLeft - SendLeft
      BY <1>2, <2>1, <3>1, QueueNames DEF BackLeft
    <3>3. QED
      BY <3>1, <3>2
  <2>5. QED
    BY <1>1, <2>2, <2>3, <2>4 DEF WorkLeft
<1>7. QED
  BY <1>4, <1>5, <1>6 DEF Sender

LEMMA StepWorks == DataTypes /\ PipelineStep => WorkLeft' < WorkLeft
<1> SUFFICES ASSUME DataTypes, PipelineStep PROVE WorkLeft' < WorkLeft
  OBVIOUS
<1>1. WorkLeft \in Nat
  BY WorkLeftTyped
<1>2. CASE QueueCommand \/ DropCommand
  BY <1>1, <1>2, NetworkWork
<1>3. CASE Dispatcher
  BY <1>1, <1>3, DispatcherWork DEF Dispatcher
<1>4. ASSUME NEW p \in Peripherals, Task(p) PROVE WorkLeft' < WorkLeft
  BY <1>1, <1>4, TaskWork DEF Task
<1>5. CASE Sender
  BY <1>5, SenderWork
<1>6. QED
  BY <1>2, <1>3, <1>4, <1>5 DEF PipelineStep

\* The other steps leave the work as it is, but for a packet with a command.
LEMMA PacketWork ==
    ASSUME DataTypes, NEW peer \in Peers, NEW i \in Ids, ReceiveCommand(peer, i)
    PROVE  netCmd = NoId /\ netCmd' # NoId /\ WorkLeft' = WorkLeft + 10
<1>1. FrontLeft \in Nat /\ TasksLeft \in Nat /\ BackLeft \in Nat
  BY WorkLeftTyped
<1>2. /\ netCmd = NoId /\ netCmd' = i
      /\ UNCHANGED <<queue, dispCmd, taskCmd, taskRes, sendRes, sendAddr>>
  BY DEF ReceiveCommand
<1>3. netCmd' # NoId
  BY <1>2, QueueNames
<1>4. \A q \in Queues : Len(queue[q]) \in Nat
  BY LengthsTyped
<1>5. FrontLeft' = FrontLeft + 10
  <2>1. NetLeft = 0 /\ NetLeft' = 10 /\ DispLeft' = DispLeft
    BY <1>2, <1>3, PartsNext DEF NetLeft, DispLeft
  <2>2. QED
    BY <1>2, <1>4, <2>1, QueueNames, PartsTyped DEF FrontLeft
<1>6. TasksLeft' = TasksLeft
  BY <1>2, TasksRest
<1>7. BackLeft' = BackLeft
  BY <1>2 DEF BackLeft, SendLeft
<1>8. QED
  BY <1>1, <1>2, <1>3, <1>5, <1>6, <1>7 DEF WorkLeft

LEMMA OthersWork ==
    ASSUME UNCHANGED <<queue, control>>
    PROVE  WorkLeft' = WorkLeft
<1>1. UNCHANGED <<queue, netCmd, dispCmd, taskCmd, taskRes, sendRes, sendAddr>>
  BY DEF control
<1>2. TasksLeft' = TasksLeft
  BY <1>1, TasksRest
<1>3. QED
  BY <1>1, <1>2 DEF WorkLeft, FrontLeft, BackLeft, NetLeft, DispLeft, SendLeft

\* With what it holds the firmware makes a bounded number of steps, whatever the
\* queues, their lengths and the commands are: the safety core of CommandsLeave,
\* which asks besides that a task that can run does.
THEOREM WorkIsBoundedAlways == Spec => [](WorkLeft \in Nat) /\ WorkIsBounded
<1>1. Inv => DataTypes /\ WorkLeft \in Nat
  BY WorkLeftTyped DEF Inv
<1>2. DataTypes /\ [Next]_vars
        => [/\ PipelineStep => WorkLeft' < WorkLeft
            /\ WorkLeft' > WorkLeft => /\ netCmd = NoId /\ netCmd' # NoId
                                       /\ WorkLeft' = WorkLeft + 10]_vars
  <2> SUFFICES ASSUME DataTypes, Next
               PROVE  /\ PipelineStep => WorkLeft' < WorkLeft
                      /\ WorkLeft' > WorkLeft => /\ netCmd = NoId /\ netCmd' # NoId
                                                 /\ WorkLeft' = WorkLeft + 10
    OBVIOUS
  <2>1. WorkLeft \in Nat
    BY WorkLeftTyped
  <2>2. PipelineStep => WorkLeft' < WorkLeft
    BY StepWorks
  <2>3. WorkLeft' \in Nat
    <3>1. DataTypes'
      BY TypeStep
    <3>2. (DataTypes => WorkLeft \in Nat)'
      BY WorkLeftTyped, PTL
    <3>3. QED
      BY <3>1, <3>2
  <2>4. \/ PipelineStep
        \/ BootModule \/ BootNetwork \/ \E peer \in Peers : ReceiveBad(peer)
        \/ \E peer \in Peers : \E i \in Ids : ReceiveCommand(peer, i)
    BY DEF Next, Network, PipelineStep
  <2>5. CASE PipelineStep
    BY <2>1, <2>2, <2>3, <2>5
  <2>6. CASE BootModule \/ BootNetwork \/ \E peer \in Peers : ReceiveBad(peer)
    <3>1. UNCHANGED <<queue, control>>
      BY <2>6 DEF BootModule, BootNetwork, ReceiveBad
    <3>2. QED
      BY <2>1, <2>2, <3>1, OthersWork
  <2>7. ASSUME NEW peer \in Peers, NEW i \in Ids, ReceiveCommand(peer, i)
        PROVE  WorkLeft' > WorkLeft => /\ netCmd = NoId /\ netCmd' # NoId
                                       /\ WorkLeft' = WorkLeft + 10
    BY <2>7, PacketWork
  <2>8. QED
    BY <2>2, <2>4, <2>5, <2>6, <2>7
<1>3. QED
  BY <1>1, <1>2, Invariant, PTL DEF Spec, WorkIsBounded
=============================================================================
