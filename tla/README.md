# TLA+ models of STM32 Peripheral Tester

The repository holds two programs that talk over UDP:

* **STM32_Server**, a Linux application with three threads. It generates test
  commands, sends them to the target, receives the responses and keeps one row
  per test in an SQLite file.
* **STM32PeripheralTester**, firmware for an STM32F756 with FreeRTOS and lwIP.
  It receives commands, runs the test of a peripheral (timer, UART, SPI, I2C,
  ADC) and sends one response per command.

This directory models both, checks the models with TLC and proves the central
results with TLAPS. `PROJECT.json` maps every definition to the lines it models.

## 1. Inventory

| Part | State | Operations | Interacts with |
|---|---|---|---|
| server `main.c` | `app_running`, the current command | start-up with error paths, command loop, SIGINT, shutdown | all other server parts |
| `command_generator.c` | `next_test_id`, `peripheral_index` | init, build_next | called by main |
| `udp_client.c` | socket, `rx_thread_running` | open, start thread, receive, send, stop, close | pushes into the response queue |
| `response_queue.c` | ring, `head`, `tail`, `count`, `shutdown_requested`, mutex, condition variable | init, push, pop, shutdown | receive thread, writer, main |
| `response_writer.c` | `response_writer_running` | start, thread, stop | pops the queue, updates the database |
| `result_database.c` | SQLite handle, table `test_results` | open and clear, insert, update, summary, close | main and the writer share the handle |
| firmware `app_net.c` | control block, remote end point, link state | init, receive callback, send_response, poll | TCP/IP thread, sender task, default task |
| `app_command_queue.c`, `app_response_queue.c` | a FreeRTOS queue of 10 each | init, send (100 ms), receive | |
| `app_dispatcher.c` | the command in hand | receive, forward by peripheral | queue of every test task |
| `app_timer_test.c`, `app_uart_test.c`, `app_spi_test.c`, `app_i2c_test.c`, `app_adc_test.c` | queue of 10, command in hand, completion flags set by interrupts | init, send_command, task, run | HAL, response queue, comparison |
| `app_data_compare.c`, `app_crc.c` | the CRC unit (one for all tasks) | compare, calculate | called by UART, SPI, I2C tasks |
| `app_response_sender.c` | the response in hand | receive, send | response queue, `app_net.c` |
| `Core/Src/freertos.c` | | StartDefaultTask | initialises everything in order, then polls the link |
| `io_tools.c` | the lazily created `printf_mutex` | app_printf, _write | every task, one interrupt |
| `LWIP/Target/ethernetif.c`, `LWIP/App/lwip.c` | the PHY's state, the MAC, the flags of the interface | initialisation, link thread | `app_net_poll`, which reads and sets the same flags |

What is hard here: three threads on a ring with a condition variable; a shutdown
sequence that has to stop both threads while responses still arrive; responses
that overtake the bookkeeping of their command, come twice, or contradict each
other; a chain of five kinds of tasks coupled by bounded queues that give up
after 100 ms; variables (the remote end point) and hardware (the CRC unit) that
several tasks use without a lock; interrupts that race time-outs; counters that
wrap and delays that begin between two ticks; a mutex that is created by whoever
logs first; flags of the network interface that two tasks set without a lock; a
target that outlives the server and still answers the process before.

What makes each part correct: the queue is a FIFO, loses no wake-up and ends when
it is shut down; the server terminates, uses no closed handle and writes only
what the target answered; the pipeline never duplicates or invents an answer,
keeps the order per peripheral and never gets stuck; a comparison gives the
right verdict when nobody disturbs it; a test passes only by what it has
transferred or measured itself and fails only for a reason; log messages are
neither lost nor mixed; the interface and the LED follow the cable.

## 2. Modules

| Module | Models | Checked by | Proofs |
|---|---|---|---|
| `BoundedFifo` | what the response queue promises: a bounded FIFO that can be closed | as a property of `ResponseQueue` | |
| `ResponseQueue` | `response_queue.c`, with one action per lock, test, store and signal | `MCResponseQueue` | `ResponseQueueProofs`, `FifoRefinementProofs` |
| `StmServer` | main, receive and writer threads, generator and database, over `BoundedFifo` | `MCStmServer` | `ServerProofs` |
| `TestService` | what the firmware promises: one answer at most per received command | as a property of `FirmwarePipeline` | |
| `FirmwarePipeline` | StartDefaultTask, receive callback, dispatcher, test tasks as stages, sender | `MCFirmwarePipeline` | `PipelineProofs` |
| `CrcCompare` | `app_data_compare`, `app_crc_calculate` and the shared CRC unit | `MCCrcCompare` | `CrcCompareProofs` |
| `LoopbackTransfer` | the UART, SPI and I2C tests: a run, its transfers, callbacks, time-out, abort | `MCLoopbackTransfer` | `LoopbackProofs` |
| `MeasuringTests` | the timer and ADC tests: counter, ticks, DAC, converter | `MCMeasuringTests` | `MeasuringProofs` |
| `Logging` | `io_tools.c` and the transmission behind it | through `LinkMonitor` | `LinkProofs` |
| `LinkMonitor` | `app_net_poll`, the driver's link thread, and the tasks that log, under the scheduler | `MCLinkMonitor` | `LinkProofs` |

`StmServer` uses `BoundedFifo`, and `ResponseQueue` implements it, so that what
holds of the server holds of the server over the real queue. `TestService` is
in the same way the firmware as the server sees it: a command may be answered
never, once, or once more for each time the network has duplicated it. The
server's network (`Deliver`) is weaker still.
`LinkMonitor` extends `Logging`: the tasks of the one call the actions of the
other. `FirmwarePipeline` leaves to `LoopbackTransfer`, `MeasuringTests` and
`CrcCompare` what happens within one of its `TaskRun` steps.

Operators whose comment starts with *Mutant* are faulty variants of the
definition whose name theirs extends; no specification uses them. Each property is
violated when the definition listed beside it in `PROJECT.json` is replaced by
its mutant.

### ResponseQueue
`head`, `tail`, `count`, `shutdown_requested` and `buffer` are the static
variables of the file. `mutex` is its holder, `waiters` are the threads asleep in
`pthread_cond_wait`, `pc` is where a thread is. A pop that finds the queue empty
releases the mutex and goes to sleep in one step (that is what
`pthread_cond_wait` guarantees) and must get the mutex again before it re-tests
the condition; `SpuriousWakeup` is the wake-up POSIX allows at any time.
Inside the critical section the store with its index and the counter are two
steps, so `count` lags behind the indices; `Stored` and `Readable` say by how
much, and `Contents` is the sequence the ring stands for.

### StmServer
`mainPc`, `rxPc` and `wrPc` are the next statements of the three threads. A row
of the database is `absent`, `PENDING`, `PASSED` or `FAILED`; SQLite serialises
the statements of the two threads on the shared handle, so an insert or an
update is one action. `Faults` names what may go wrong in an instance.
`answers`, `accepted` and `unwritten` are history variables.
The network is external: an answer may never come, come once or several times,
with the same or another result, in any order. The target outlives the server:
`DeliverStale` is an answer to a test of the process before, and `Init` leaves in
the file whatever rows that process has written.

### FirmwarePipeline
`BootOrder` is the order in which StartDefaultTask calls the `_init` functions.
A FreeRTOS queue is a sequence of bounded length; a send that finds it full waits
up to 100 ms and gives up, so while the queue is full both outcomes are possible,
and a send into a queue that was not created fails at once. A receive that times
out has no effect and is a stuttering step. The sender reads the address of the
remote end point in one step and its port in the next, with the TCP/IP thread
possibly in between. What a test computes is left open: it ends with either
outcome. Two test tasks stand for the five, whose task functions are the same
text up to names; a third kind of command names no peripheral at all.

### CrcCompare
A buffer is a sequence of the units fed to the data register. The register is the
sequence fed since the last reset: two sequences have the same CRC only if they
are equal, that is, collisions are left out. The first operand of `!=` in
`app_data_compare` is evaluated first; C leaves the order open, and the module is
symmetric in the two buffers. `disturbed[t]` records whether another task has
used the unit since `t` was called.

### LoopbackTransfer
One module for three files whose code has the same steps; `bus` says which one a
behaviour is about. They differ in the flags the callbacks set (`UartFlag`,
`SpiFlag`, `I2cFlag`), in which side is started first (`FirstSide`), and in who
rejects a pattern without bytes. The modes are those `app_config.h` selects:
interrupts for UART, DMA for SPI and I2C; the other modes poll the same way. `pc`
is where the task is: the loop's head, its test of the error and its test of the
time are three steps, with interrupts between any two. `hal` says which side the
HAL has active; a start function refuses a side that is active. A completion
delivers what was sent or garbage, an error stops a side or, on a UART, does
not. The error callback of the UART logs, from an interrupt, through a mutex:
FreeRTOS asserts that nobody does that. `elapsed` is the tick count since the
start; a delay of one tick may take longer. `carried` and `trouble` are history
variables. Comparisons are right here: `CrcCompare` has the rest.

### MeasuringTests
The timer test compares a delay of the kernel with the microseconds TIM2 has
counted, the ADC test reads the levels it gives out with the DAC; `kind` says
which one a behaviour is about. Time is modelled as such: `counter` wraps at
`CounterSize`, `phase` is how far the present tick has advanced, a delay ends
at its n-th tick *to come*, and `HeldUp` is a microsecond in which other tasks
have the processor. An ADC polling loop tests the flag, then the time, then the
flag again; a converter may finish between any two. `fault` and `late` are
histories: that a peripheral has failed, and how long the task was held up.

### Logging and LinkMonitor
`at` is where a task is inside `app_printf` or `_write`; `printf_mutex` is read
when it is tested, when it is taken and when it is given, as in the code.
`LinkMonitor` has the scheduler: of the ready tasks one of the highest priority
runs, a task may be preempted at any step by a task of higher priority that
becomes ready, tasks of one priority share the processor at any granularity,
and the holder of a mutex inherits the priority of who waits for it. The
modules differ here from the others, where any task may run at any time: what
is true of the log is true because of the priorities. The tests and the response
sender are one task, `worker`: with the dispatcher that makes two tasks of one
priority, which is what a conflict takes. The flags of the interface are changed
in a copy that is then stored, since two tasks do that without a lock.
`netif_is_link_up`, the LED and the MAC are single assignments. The heap is
assumed to hold the mutex, and the branch of `app_printf` for a scheduler that
does not run is left out, as no caller runs then.

## 3. Runs

| Run | Bounds | What it shows |
|---|---|---|
| `queue` | capacity 2, two producers, one consumer, one closer, two records | the ring is consistent, the mutex excludes, no wake-up is lost, pushes, pops and shutdown finish, and the module implements `BoundedFifo` |
| `server` | two commands, two answers, one of which may be stale, queue of 1, socket buffer of 1, every fault, fair threads | handles, identifiers, the table and the summary are right; Ctrl+C ends the application; a queued response is recorded |
| `server_early`, `server_restart` | one command, one answer | two disagreements, section 5 |
| `pipeline` | command queue of 2, the others of 1, four commands: two for one peripheral, one for another, one for none; a packet of a wrong size; fair tasks | boot order, order of answers, implements `TestService`, every command leaves |
| `pipeline_bad_sender` | one command, two peers | a disagreement |
| `crc_undisturbed` | two tasks, buffers of 0 to 2 words, CRC from 2 words on | undisturbed comparisons are right |
| `crc_false_pass` | the same | a disagreement |
| `loopback` | each bus, two commands of up to two iterations, two patterns, a time-out of 1 tick, fair task | a pass is earned by the test's own transfers, a failure has a reason, every transfer starts on an idle HAL, every test ends |
| `loopback_uart_error` | UART, one command of one iteration | a disagreement |
| `measurements` | each kind, two commands of up to two iterations, a tick of 3 counts, a delay of 3 ticks, a tolerance of one tick, a counter of 16, up to 5 counts held up, two levels | a pass means every measurement was good, a failure has a reason, the converter is stopped between measurements, every test ends |
| `link` | two speeds, queue of 1, and one of the sets of events in `MCCases`: three commands; two commands and a change of the cable; one of each from a start without a cable; three changes; a command and a silence of 71.6 minutes | messages stay whole and the mutex is given by its holder, the link is up only over a running MAC, every log ends, the interface and the LED follow the cable |

Why the bounds are enough. A capacity of 2 lets both ring indices wrap, lets the
queue be full, empty and half full, and with two records distinguishes order; the
proofs cover every capacity. Two commands and two responses give conflicting
and duplicated answers, a queue that refuses a push, and a response before, during and
after each step of the shutdown. Queues of 1 or 2 are full as soon as one or two
commands wait, which makes each drop and each wait of one task for another
happen with few commands. Two words are enough for another task to come between
the feeding of two words. Two iterations and two commands let the flags and
buffers of a transfer, or the state of a converter, meet the next one
of the same test and of the next test. A counter of 16 wraps within an
iteration of 9 counts at nearly every start, the delay begins at every point of a tick, and 5
counts of lateness are more than the tolerance. Three changes of the cable make it go down and
up between two readings of either task; more events only repeat these once every
task is back at its delay. Deadlock checking is off where the modelled system
may stop: the server's failed start, the firmware that waits when no packet
arrives, and a failed kernel assertion in `link`.

Fairness. A POSIX thread, or a task among tasks of one FreeRTOS priority, that
can take a step gets to take it: weak fairness per thread. In `ResponseQueue`
asking for the mutex has strong fairness, since no thread asks for it again and
again: the receive thread blocks in `recvfrom` between two pushes. In
`LinkMonitor` a step of a task is enabled only while the scheduler would choose
the task, so the steps have strong fairness: the tasks of higher priority sleep
most of the time and those of one priority have time slices, so a task that is
ready again and again does run. Delays end. In `MeasuringTests` ticks come. Nothing
obliges a caller to call, the user to press Ctrl+C, the target to answer, a
packet to arrive, a transfer or a conversion to end. `recvfrom` has a time-out,
so the receive thread keeps looking at its flag.

## 4. Proofs

TLAPS checks these for every value of the constants, from the assumptions on the
constants alone.

* `ResponseQueueProofs`. The inductive invariant adds to type correctness that a
  thread is in the critical section exactly when it holds the mutex, that the
  waiters are the threads at the wait, and that the distance from `head` to `tail`
  is what the ring holds *at that point of the critical section*: neither
  `RingConsistent` nor the type invariant is inductive without knowing that only
  the holder of the mutex is between the index and the counter.
  `NoWakeupIsLost` needs one consumer: with two, the code's single signal may
  wake the one while the other sleeps with a record queued, which is harmless
  but is not the property.
* `FifoRefinementProofs`. Initial states map to initial states, and each step maps to
  the abstract step or to stuttering: the store is `Put`, the take is `Take`, the
  failed test is `Refuse`, the assignment of the flag is `Close`, and the rest
  stutters. The argument about indices that wrap is made once, in lemmas on
  `SlotAt` and `Contents`.
* `ServerProofs`: every invariant of the server. `ControlInv` says which threads may run and which
  handles are open at each place of main; `HandlesOpen` is a consequence. `IdInv` says that
  identifiers grow, `OriginInv` that every response anywhere between the socket and
  the table was given by the target, `OrderInv` that the youngest response of a test
  on its way is the one accepted last, `SummaryInv` that the totals stay those of
  the table. The conjuncts need each other: the summary is final because the writer has
  been joined, and a row describes its command because identifiers are unique.
* `PipelineProofs`. The type invariant, the boot order, and the order of the answers.
  The latter needs the position of a command as a pair of a stage (0 in the receive
  callback to 6 at the sender) and a place within it: `AheadInv` says that of two
  commands of one peripheral the one that was queued first is strictly ahead, which a
  step keeps if it moves only the first of its stage to the last place of a later one
  (`MoveFirst`, `MoveLast`). `SendersAnswered` is the condition under which the
  claim of `pipeline_bad_sender` is true: that no bad packet arrives.
  `ServiceImplemented` is the refinement: each variable of `TestService` is a sum
  of cardinalities (places in queues, tasks, datagrams sent), and each step of the
  pipeline moves one element from one set to another, which is a step of the
  service for the test it belongs to and stuttering for every other test. The lemmas say what an
  item more or less in a sequence does to the number of its places; `BagInv`
  keeps the answers that have been sent finite.
* `CrcCompareProofs`. A task that is not disturbed knows what the unit holds at each point:
  after feeding n words of a buffer the register is its first n words, and the
  first value is the first buffer. A step of another task leaves the task where
  it was and either does not change the register or marks the task as disturbed.
* `LoopbackProofs`. `PassMeansTransferred` is not inductive: one must know that a flag which is
  polled was set by a side of *this* transfer (`FlagInv`), which holds because the transfer starts with both
  sides idle and these flags clear (`HalInv`), that a receiver with its flag set holds either the pattern or garbage
  (`DataInv`), and that what goes back is the pattern. `TroubleInv` gives the reasons of a failure.
* `MeasuringProofs`. `ClockInv` relates the wrapped difference of the two readings to the time that has really
  passed, which is between the delay less what was left of a tick and the delay plus the lateness; it rests on
  the assumptions that the tolerance is at least a tick and that an iteration
  takes less than a turn of the counter, both true of `app_config.h` and of TIM2.
  `ConverterInv` says where the converter may be busy, and that it was given the
  level of this index; `ProgressInv` which measurements have been made.
* `LinkProofs`. The messages are whole because of who can preempt whom: while a task
  of low priority holds the mutex and another task waits for it, only the holder runs, and
  printing without the mutex is over before a lower task can begin. `PhaseInv` and `OwnerInv` say
  this of the mutex that exists, and of the two that exist for a while when the
  default task preempts the dispatcher between its test and its creation.
  For the flags, `DefaultInv` and `LinkInv` say what each of the two tasks may have read:
  the link thread is of lower priority than the default task, so it cannot run while the default task is
  in the middle of a change, whereas the default task may interrupt the link thread.

Beyond the properties of the runs, two kinds of results are proved.

**Conditions.** For four of the claims that a run finds violated (section 5) a theorem gives a condition
under which the code does what the claim says, and so what a repair must bring about.

| Violated run | Theorem | The claim holds if |
|---|---|---|
| `crc_false_pass` | `CrcCompareProofs!LockSuffices`, `OneTaskIsRight` | no two tasks are in their CRC calls at once, as with a lock around them or with one task |
| `server_restart` | `ServerProofs!VerdictsAreOwn` | the target answers only commands of this process |
| `server_early` | `ServerProofs!MissesExplained` | main is not between the `sendto` and the `INSERT` of that command, given that no stale answer comes and no `INSERT` fails; if no `UPDATE` fails either, the writer leaves no other response it has taken unwritten |
| `pipeline_bad_sender` | `PipelineProofs!SendersAnswered` | every packet has the size of a command |

For `loopback_uart_error` there is nothing to prove of this kind: only `ErrorCallback`, of a UART, stops the
firmware. What it costs is proved instead. `LoopbackProofs!HaltedTestIsLost`: since no side is active between
two transfers, the error interrupt comes only inside one, before the test has a result, so no comparison,
result or response is cut in two; but the test has no answer and never gets one, and the
server's row stays `PENDING`.

`ServerProofs!FailedStartHangs` is the reverse for the exception of `Terminates`: once main has
come to the join of a failed start and the writer to its pop, they stay there for ever,
because the queue is empty (`PhaseInv`: no receive thread was ever started), is not shut down, and
main would shut it down after the join.

**Safety cores of liveness.** A liveness property under fairness is a fact about a number
that falls and a fact about who can make it fall. The number is proved, for every value of the
constants; that a fair scheduler then reaches the end is left to TLC.

| Liveness property | Theorem | What falls |
|---|---|---|
| `Terminates` | `ServerProofs!ShutdownEnds` | after Ctrl+C, main's distance to its exit, four for each step, and the steps of the thread it joins; a joined thread has been told to stop, and the writer is joined with the queue shut down (`JoinsCanEnd`) |
| `QueuedIsRecorded` | `ServerProofs!QueuedResponsesMoveOn` | a response's place in the queue; at its head the writer takes it and holds it until its row has a verdict or the test is in `unwritten`, the writer ends only when told to, and a decided row is never pending again |
| `CommandsLeave` | `PipelineProofs!WorkIsBoundedAlways` | ten for a command in the receive callback down to two for a response with its address, summed over queues and tasks; only a received command adds ten |
| `TestEnds` (loopback) | `LoopbackProofs!TestsAreBounded` | iterations, transfers and polls left; needs that a delay begins only before the time-out |
| `TestEnds` (measurements) | `MeasuringProofs!TestsAreBounded` | the same; a poll of a running conversion lowers nothing, a tick of its time-out does |
| `PushReturns`, `ShutdownReleasesPop` | `ResponseQueueProofs!CallsReturn` | the steps left in the call; only a pop with nothing to take goes back to sleep, and the holder of the mutex never sleeps |
| `PopDelivers` | `ResponseQueueProofs!PopTakesRecord` | for one consumer: while a record is queued the writer in pop is awake, keeps its place or goes on, and the record stays |
| `LogEnds` | `LinkProofs!LogsGoOn` | the steps left in the log; except for two tasks that log first at once (`MutexMade`), a task that waits for the mutex waits for another one that is ready and, by inheritance, scheduled for a task of the higher priority |
| `NetworkFollowsCable`, `LedShowsCable` | `LinkProofs!SettledNetworkFollows` | no number, but the end: when both tasks have seen the cable as it is (`Settled`), the interface and the LED are right, up to the speed of a MAC in the cases named by `excused`, whatever the tasks have stored over each other's changes. `CableInv` keeps, for each wrong flag, the task that is going to correct it |

`PipelineProofs!NothingIsDuplicated` follows from the steps of `TestService`: the copies of a test in the
firmware and its answers are together never more than the packets that brought it.

Only model-checked: liveness itself (`PushReturns`, `PopDelivers`, `ShutdownReleasesPop`,
`Terminates`, `QueuedIsRecorded`, `CommandsLeave`, `TestEnds`, `LogEnds`,
`NetworkFollowsCable`, `LedShowsCable`), since the prover reaches neither fairness with ENABLED nor
induction over the numbers above; that the steps which lower them are enabled is seen by TLC.

## 5. Disagreements between the code and its comments

Each of these is a run that TLC finds violated; `PROJECT.json` quotes both sides.

1. `server_early`: a command is sent before its row is inserted, and a fast answer
   updates nothing. The test stays pending.
2. `server_restart`: identifiers restart at 1 with the process, and an answer to the
   process before is written to another test's row.
3. `pipeline_bad_sender`: a packet that is no command redirects the responses.
4. `crc_false_pass`: two tasks that compare at once share the CRC unit, and different
   buffers are reported as equal. By the same interleavings equal buffers are
   reported as different.
5. `loopback_uart_error`: the error callback of the UART test logs from an interrupt,
   which takes a mutex: the kernel's assertion fails and the firmware stops.

These are in the models but are not runs of their own; a property names each one as its exception:

* When the receive thread cannot be started, main (`main.c:89`) joins the writer before it shuts the queue down, and
  hangs: `Terminates` excepts `fail_join`.
* The writer stops with responses in the queue (`response_writer.c:31`): `PendingExplained` excepts them.
* A response may go to the address of one peer and the port of another (`app_net.c:209`):
  `RepliesToCommandSender` asks only that each is a sender's.
* The driver's `linkchanged` is never reset (`ethernetif.c:852`): a link that is
  still negotiating is started at the speed of the one before, and not looked at again. `NetworkFollowsCable`
  excepts it by `excused`, with links that changed between two readings.
* If nothing is logged for 71.6 minutes after the start, which is what "for ever" becomes
  in `pdMS_TO_TICKS`, the dispatcher and the sender log for the first time at the same tick
  and may create a mutex each: `MutexMade` excepts it.

## 6. Not modelled, and why

* Nearly all lines of the repository are vendored: the CMSIS and register headers,
  the STM32 HAL and LL drivers, FreeRTOS and lwIP. They are modelled as external, by what
  the application uses of them (queues, mutex, scheduler, CRC unit, converter, transfers, interface
  flags); where a step of theirs matters to a property, as in `HAL_CRC_Calculate`,
  `HAL_UART_Transmit`, `HAL_ADC_PollForConversion` and `netif_set_up`, the model has it step by step.
  The rest is written for many chips and protocols that this firmware does not use, and a module on it would
  be about another project.
* The reception and transmission paths of the Ethernet driver and the core locking of lwIP; among them whether `udp_sendto`
  may be called from the sender task, as `app_net.c:212` does, while the TCP/IP thread runs.
* Generated start-up, pin and interrupt code: no logic of its own.
* `app_command_generator.c` and `app_debug.c`: debugging aids nothing starts.
* Random fields of a command, printing, SQL text, addresses: data no property depends on.
* Time, except in `MeasuringTests` and as order elsewhere: a sleep or a time-out may end at any point its code allows.

## 7. What would come next

* The Ethernet driver: its pool of receive buffers and the recovery from an empty one, the
  transmit configuration it shares between callers, the loop on a busy MAC.
* lwIP's core lock, and with it the call of `udp_sendto` from a task.
* One specification of server and firmware together, from `StmServer` and
  `TestService` with a network between them that loses, duplicates and reorders.
