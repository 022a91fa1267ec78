-------------------------- MODULE FirmwarePipeline --------------------------
(***************************************************************************)
(* The command pipeline of the firmware (STM32PeripheralTester/App/Src):   *)
(* the UDP receive callback (app_net.c) puts a command in the command      *)
(* queue, the dispatcher task forwards it to the queue of its peripheral,  *)
(* the test task of the peripheral runs the test and puts the response in  *)
(* the response queue, and the response sender task sends it to the peer.  *)
(*                                                                         *)
(* What a test does is left to the modules of the peripherals: here a test *)
(* ends with either outcome.  A FreeRTOS queue is external: a sequence of  *)
(* bounded length, whose send waits while the queue is full and gives up   *)
(* after its time-out.  A receive that times out goes round the loop of    *)
(* its task without any effect, which is a stuttering step.                *)
(***************************************************************************)
EXTENDS Naturals, Sequences, FiniteSets, Bags

CONSTANTS QueueLength,    \* the length of each queue
          Ids,            \* test identifiers of the commands that may arrive
          PeripheralOf,   \* the peripheral field of each command
          Peripherals,    \* the peripherals with a test task that are modelled
          Peers,          \* UDP end points that send packets
          MaxPackets,     \* bound: packets received for each command
          BadPackets      \* bound: packets of a wrong size

Queues == {"command", "response"} \cup Peripherals

ASSUME PipelineAssumption == /\ QueueLength \in [Queues -> Nat \ {0}]
                             /\ MaxPackets \in [Ids -> Nat]
                             /\ BadPackets \in Nat
                             /\ Ids \subseteq Nat \ {0}
                             /\ Peripherals \subseteq {"TIMER", "UART", "I2C",
                                                       "SPI", "ADC"}
                             /\ "none" \notin Peers

Results == {"SUCCESS", "FAIL"}
Responses == [test_id : Ids, result : Results]
None == "none"
NoId == 0
NoResponse == [test_id |-> NoId, result |-> None]

\* Mutant: the network is initialised before the test modules.
BootOrderNetworkFirst == <<"response", "command", "net", "TIMER", "UART", "I2C",
                           "SPI", "ADC">>

\* The queues and tasks of the application, in the order StartDefaultTask
\* creates them; the network comes last.
BootOrder == <<"response", "command", "TIMER", "UART", "I2C", "SPI", "ADC",
               "net">>

VARIABLES
    boot,          \* how many modules StartDefaultTask has initialised
    pcb,           \* app_udp_pcb is set and the receive callback installed
    remote,        \* app_udp_remote_addr, _port: the end point to answer
    queue,         \* the contents of each queue
    netCmd,        \* the command the receive callback is sending
    dispCmd,       \* the command the dispatcher is forwarding
    taskCmd,       \* the command each test task is running
    taskRes,       \* the outcome each test task is sending
    sendRes,       \* the response the sender is sending
    sendAddr,      \* the remote address the sender has read
    out,           \* the bag of datagrams sent: [test_id, result, addr, port]
    packets, bad,  \* packets received for each command, and of a wrong size
    accepted,      \* history: commands in the order they were queued
    senders        \* history: peers that have sent a command

control == <<netCmd, dispCmd, taskCmd, taskRes, sendRes, sendAddr>>
counters == <<packets, bad>>
history == <<accepted, senders>>
vars == <<boot, pcb, remote, queue, control, out, counters, history>>

Init == /\ boot = 0
        /\ pcb = FALSE
        /\ remote = None
        /\ queue = [q \in Queues |-> <<>>]
        /\ netCmd = NoId
        /\ dispCmd = NoId
        /\ taskCmd = [p \in Peripherals |-> NoId]
        /\ taskRes = [p \in Peripherals |-> None]
        /\ sendRes = NoResponse
        /\ sendAddr = None
        /\ out = EmptyBag
        /\ packets = [i \in Ids |-> 0]
        /\ bad = 0
        /\ accepted = <<>>
        /\ senders = {}

\* Mutant: a queue takes one item too many.
FullTooLate(q) == Len(queue[q]) > QueueLength[q]

Created(q) == \E k \in 1 .. boot : BootOrder[k] = q
Full(q) == Len(queue[q]) >= QueueLength[q]
Enqueue(q, x) == queue' = [queue EXCEPT ![q] = Append(@, x)]
Dequeue(q) == queue' = [queue EXCEPT ![q] = Tail(@)]
-----------------------------------------------------------------------------
(* StartDefaultTask *)

\* One of the *_init functions creates its queue and its task.
BootModule == /\ boot < Len(BootOrder) /\ BootOrder[boot + 1] # "net"
              /\ boot' = boot + 1
              /\ UNCHANGED <<pcb, remote, queue, control, out, counters, history>>

\* app_net_init; the UDP control block may not be had.
BootNetwork == /\ boot < Len(BootOrder) /\ BootOrder[boot + 1] = "net"
               /\ boot' = boot + 1
               /\ pcb' \in BOOLEAN
               /\ UNCHANGED <<remote, queue, control, out, counters, history>>
-----------------------------------------------------------------------------
(* app_net_udp_rx_callback, in the TCP/IP thread of lwIP *)

\* The end point is stored before the packet is looked at.
ReceiveBad(peer) == /\ pcb /\ netCmd = NoId
                    /\ bad < BadPackets
                    /\ bad' = bad + 1
                    /\ remote' = peer
                    /\ UNCHANGED <<boot, pcb, queue, control, out, packets,
                                   history>>

ReceiveCommand(peer, i) == /\ pcb /\ netCmd = NoId
                           /\ packets[i] < MaxPackets[i]
                           /\ packets' = [packets EXCEPT ![i] = @ + 1]
                           /\ remote' = peer
                           /\ netCmd' = i
                           /\ senders' = senders \cup {peer}
                           /\ UNCHANGED <<boot, pcb, queue, dispCmd, taskCmd,
                                          taskRes, sendRes, sendAddr, out, bad,
                                          accepted>>

\* Mutant: the command is put before the ones that wait.
QueueCommandFirst == /\ netCmd # NoId
                     /\ Created("command") /\ ~Full("command")
                     /\ queue' = [queue EXCEPT !["command"] = <<netCmd>> \o @]
                     /\ accepted' = Append(accepted, netCmd)
                     /\ netCmd' = NoId
                     /\ UNCHANGED <<boot, pcb, remote, dispCmd, taskCmd, taskRes,
                                    sendRes, sendAddr, out, counters, senders>>

QueueCommand == /\ netCmd # NoId
                /\ Created("command") /\ ~Full("command")
                /\ Enqueue("command", netCmd)
                /\ accepted' = Append(accepted, netCmd)
                /\ netCmd' = NoId
                /\ UNCHANGED <<boot, pcb, remote, dispCmd, taskCmd, taskRes,
                               sendRes, sendAddr, out, counters, senders>>

\* The command queue stays full for APP_COMMAND_QUEUE_SEND_WAIT.
DropCommand == /\ netCmd # NoId
               /\ Created("command") => Full("command")
               /\ netCmd' = NoId
               /\ UNCHANGED <<boot, pcb, remote, queue, dispCmd, taskCmd,
                              taskRes, sendRes, sendAddr, out, counters, history>>
-----------------------------------------------------------------------------
(* app_dispatcher_task *)

DispatcherReceive == /\ dispCmd = NoId
                     /\ Created("command") /\ queue["command"] # <<>>
                     /\ dispCmd' = Head(queue["command"])
                     /\ Dequeue("command")
                     /\ UNCHANGED <<boot, pcb, remote, netCmd, taskCmd, taskRes,
                                    sendRes, sendAddr, out, counters, history>>

\* app_*_test_send_command of the peripheral succeeds.
Dispatch == /\ dispCmd # NoId
            /\ PeripheralOf[dispCmd] \in Peripherals
            /\ LET p == PeripheralOf[dispCmd]
               IN  Created(p) /\ ~Full(p) /\ Enqueue(p, dispCmd)
            /\ dispCmd' = NoId
            /\ UNCHANGED <<boot, pcb, remote, netCmd, taskCmd, taskRes, sendRes,
                           sendAddr, out, counters, history>>

\* The queue of the peripheral stays full: the command is dropped.
DispatchFails == /\ dispCmd # NoId
                 /\ PeripheralOf[dispCmd] \in Peripherals
                 /\ LET p == PeripheralOf[dispCmd] IN Created(p) => Full(p)
                 /\ dispCmd' = NoId
                 /\ UNCHANGED <<boot, pcb, remote, queue, netCmd, taskCmd,
                                taskRes, sendRes, sendAddr, out, counters,
                                history>>

\* Mutant: a command that cannot be dispatched is put back in the queue.
DispatchUnknownLater == /\ dispCmd # NoId
                        /\ PeripheralOf[dispCmd] \notin Peripherals
                        /\ ~Full("command")
                        /\ Enqueue("command", dispCmd)
                        /\ dispCmd' = NoId
                        /\ UNCHANGED <<boot, pcb, remote, netCmd, taskCmd,
                                       taskRes, sendRes, sendAddr, out, counters,
                                       history>>

DispatchUnknown == /\ dispCmd # NoId
                   /\ PeripheralOf[dispCmd] \notin Peripherals
                   /\ dispCmd' = NoId
                   /\ UNCHANGED <<boot, pcb, remote, queue, netCmd, taskCmd,
                                  taskRes, sendRes, sendAddr, out, counters,
                                  history>>
-----------------------------------------------------------------------------
(* app_timer_test_task, app_uart_test_task, ...: the task of a peripheral *)

TaskReceive(p) == /\ taskCmd[p] = NoId
                  /\ Created(p) /\ queue[p] # <<>>
                  /\ taskCmd' = [taskCmd EXCEPT ![p] = Head(queue[p])]
                  /\ Dequeue(p)
                  /\ UNCHANGED <<boot, pcb, remote, netCmd, dispCmd, taskRes,
                                 sendRes, sendAddr, out, counters, history>>

TaskRun(p, r) == /\ taskCmd[p] # NoId
                 /\ taskRes[p] = None
                 /\ taskRes' = [taskRes EXCEPT ![p] = r]
                 /\ UNCHANGED <<boot, pcb, remote, queue, netCmd, dispCmd,
                                taskCmd, sendRes, sendAddr, out, counters,
                                history>>

TaskDone(p) == /\ taskCmd' = [taskCmd EXCEPT ![p] = NoId]
               /\ taskRes' = [taskRes EXCEPT ![p] = None]
               /\ UNCHANGED <<boot, pcb, remote, netCmd, dispCmd, sendRes,
                              sendAddr, out, counters, history>>

\* Mutant: the task tries again with the command it has just answered.
TaskRespondTwice(p) ==
    /\ taskRes[p] # None
    /\ ~Full("response")
    /\ Enqueue("response", [test_id |-> taskCmd[p], result |-> taskRes[p]])
    /\ taskRes' = [taskRes EXCEPT ![p] = None]
    /\ UNCHANGED <<boot, pcb, remote, netCmd, dispCmd, taskCmd, sendRes,
                   sendAddr, out, counters, history>>

\* app_response_queue_send succeeds.
TaskRespond(p) ==
    /\ taskRes[p] # None
    /\ ~Full("response")
    /\ Enqueue("response", [test_id |-> taskCmd[p], result |-> taskRes[p]])
    /\ TaskDone(p)

\* The response queue stays full: the response is dropped.
TaskDrop(p) == /\ taskRes[p] # None
               /\ Full("response")
               /\ UNCHANGED queue
               /\ TaskDone(p)
-----------------------------------------------------------------------------
(* app_response_sender_task and app_net_udp_send_response *)

SenderReceive == /\ sendRes = NoResponse
                 /\ Created("response") /\ queue["response"] # <<>>
                 /\ sendRes' = Head(queue["response"])
                 /\ Dequeue("response")
                 /\ UNCHANGED <<boot, pcb, remote, netCmd, dispCmd, taskCmd,
                                taskRes, sendAddr, out, counters, history>>

SenderDone == /\ sendRes' = NoResponse
              /\ sendAddr' = None
              /\ UNCHANGED <<boot, pcb, remote, queue, netCmd, dispCmd, taskCmd,
                             taskRes, counters, history>>

\* There is nobody to answer, or no buffer, or udp_sendto fails.
SenderFails == sendRes # NoResponse /\ UNCHANGED out /\ SenderDone

\* The address and the port of the peer are read one after the other, and the
\* TCP/IP thread, which has a higher priority, may run in between.
SenderReadAddress == /\ sendRes # NoResponse /\ sendAddr = None
                     /\ pcb /\ remote # None
                     /\ sendAddr' = remote
                     /\ UNCHANGED <<boot, pcb, remote, queue, netCmd, dispCmd,
                                    taskCmd, taskRes, sendRes, out, counters,
                                    history>>

SenderSend == /\ sendAddr # None
              /\ out' = out (+) SetToBag({[test_id |-> sendRes.test_id,
                                           result |-> sendRes.result,
                                           addr |-> sendAddr, port |-> remote]})
              /\ SenderDone
-----------------------------------------------------------------------------
Network == \/ \E peer \in Peers : \/ ReceiveBad(peer)
                                  \/ \E i \in Ids : ReceiveCommand(peer, i)
           \/ QueueCommand
           \/ DropCommand

Dispatcher == \/ DispatcherReceive
              \/ Dispatch
              \/ DispatchFails
              \/ DispatchUnknown

Task(p) == \/ TaskReceive(p)
           \/ \E r \in Results : TaskRun(p, r)
           \/ TaskRespond(p)
           \/ TaskDrop(p)

Sender == SenderReceive \/ SenderFails \/ SenderReadAddress \/ SenderSend

Next == \/ BootModule
        \/ BootNetwork
        \/ Network
        \/ Dispatcher
        \/ \E p \in Peripherals : Task(p)
        \/ Sender

Spec == Init /\ [][Next]_vars

\* Every task runs whenever it can: each wait has a time-out, and FreeRTOS
\* shares the processor between tasks of one priority.  A test that was started
\* ends, because every wait of every test is bounded.  No packet has to arrive.
Fairness == /\ WF_vars(BootModule \/ BootNetwork)
            /\ WF_vars(QueueCommand \/ DropCommand)
            /\ WF_vars(Dispatcher)
            /\ \A p \in Peripherals : WF_vars(Task(p))
            /\ WF_vars(Sender)

FairSpec == Spec /\ Fairness
-----------------------------------------------------------------------------
Maybe(S) == S \cup {None}
MaybeId == Ids \cup {NoId}

TypeOK ==
    /\ boot \in 0 .. Len(BootOrder)
    /\ pcb \in BOOLEAN
    /\ remote \in Maybe(Peers)
    /\ \A q \in Queues : Len(queue[q]) <= QueueLength[q]
    /\ \A q \in Queues \ {"response"} :
         \A k \in 1 .. Len(queue[q]) : queue[q][k] \in Ids
    /\ \A k \in 1 .. Len(queue["response"]) : queue["response"][k] \in Responses
    /\ netCmd \in MaybeId /\ dispCmd \in MaybeId
    /\ taskCmd \in [Peripherals -> MaybeId]
    /\ taskRes \in [Peripherals -> Maybe(Results)]
    /\ sendRes \in Responses \cup {NoResponse}
    /\ sendAddr \in Maybe(Peers)

\* A command reaches the network thread, the dispatcher or a test task only
\* after StartDefaultTask has created the queues it goes on to: no send meets a
\* queue that does not exist yet.
CreatedBeforeUse ==
    /\ netCmd # NoId => Created("command")
    /\ dispCmd # NoId => \A p \in Peripherals : Created(p)
    /\ \A p \in Peripherals : taskCmd[p] # NoId => Created("response")

\* The places of queue q that hold x.
Holding(q, x) == {k \in 1 .. Len(queue[q]) : queue[q][k] = x}

\* How many copies of the command of test i are on their way to a test task,
\* and how many responses with outcome r on their way to the server.
PendingOf(i) ==
    (IF netCmd = i THEN 1 ELSE 0) + (IF dispCmd = i THEN 1 ELSE 0)
      + Cardinality({p \in Peripherals : taskCmd[p] = i /\ taskRes[p] = None})
      + Cardinality(UNION {{q} \X Holding(q, i) : q \in Queues \ {"response"}})

VerdictsOf(i, r) ==
    LET response == [test_id |-> i, result |-> r]
    IN  Cardinality({p \in Peripherals : taskCmd[p] = i /\ taskRes[p] = r})
          + Cardinality(Holding("response", response))
          + (IF sendRes = response THEN 1 ELSE 0)

AnsweredOf(i, r) ==
    LET answers == {d \in DOMAIN out : d.test_id = i /\ d.result = r}
    IN  Cardinality(UNION {{d} \X (1 .. out[d]) : d \in answers})

Service(i) == INSTANCE TestService
                WITH received <- packets[i],
                     pending <- PendingOf(i),
                     verdicts <- [r \in Results |-> VerdictsOf(i, r)],
                     answered <- [r \in Results |-> AnsweredOf(i, r)]

\* The pipeline answers a command that was received at most once for each time
\* it was received, with the outcome of a test that was run for it: no queue,
\* task or time-out duplicates a command or a response or makes one up.
ImplementsService ==
    /\ \A i \in Ids : Service(i)!Init
    /\ [][\A i \in Ids : [Service(i)!Next]_(Service(i)!vars)]_vars

\* A copy of the command of test i, or a response to it, is on its way.
InPipeline(i) ==
    \/ i \in {netCmd, dispCmd, sendRes.test_id}
    \/ \E p \in Peripherals : taskCmd[p] = i
    \/ \E q \in Queues \ {"response"} : Holding(q, i) # {}
    \/ \E k \in 1 .. Len(queue["response"]) : queue["response"][k].test_id = i

\* Command i was queued before command k.
QueuedBefore(i, k) == \E m, n \in 1 .. Len(accepted) :
                         m < n /\ accepted[m] = i /\ accepted[n] = k

\* Two tests of one peripheral are answered in the order in which their
\* commands were queued: when a response is sent, no command of the peripheral
\* that was queued earlier is still on its way.  (Of a command that the network
\* has duplicated, the answers cannot be told apart.)
AnsweredInOrder ==
    [][out' # out =>
         LET k == sendRes.test_id
         IN  \A i \in Ids : /\ packets[i] = 1 /\ packets[k] = 1
                            /\ PeripheralOf[i] = PeripheralOf[k]
                            /\ QueuedBefore(i, k)
                            => ~InPipeline(i)]_vars

\* No wait of one task for another lasts for ever: a command that was received
\* leaves the pipeline, answered or dropped, whatever fills the queues.
CommandsLeave == \A i \in Ids : InPipeline(i) ~> ~InPipeline(i)

\* app_net.c: a response is sent "to the last UDP command sender", whose address
\* and port it goes to.
RepliesToCommandSender == \A d \in DOMAIN out : {d.addr, d.port} \subseteq senders
=============================================================================
