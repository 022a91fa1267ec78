-------------------------- MODULE LoopbackTransfer --------------------------
(***************************************************************************)
(* The test tasks whose peripheral is wired to a second one on the board:  *)
(* app_uart_test.c (interrupt mode), app_spi_test.c and app_i2c_test.c     *)
(* (DMA mode), the modes app_config.h selects.  A test sends the pattern   *)
(* from side "a" (UART4, the SPI or I2C master) to side "b" (UART5, the    *)
(* slave) and what arrived back to "a", once per iteration.                *)
(*                                                                         *)
(* A task starts both sides and polls flags that the HAL callbacks set     *)
(* from interrupts, which come between any two steps of the task.  The HAL *)
(* and the wires are external: a side that was started may complete, with  *)
(* intact or garbled data, fail, or stay silent.  Comparisons are taken to *)
(* be right (CrcCompare says when they are).                               *)
(***************************************************************************)
EXTENDS Naturals, FiniteSets

CONSTANTS Buses,          \* the tests of this instance
          Patterns,       \* contents of a command's pattern
          Timeout,        \* APP_..._TEST_TIMEOUT_MS, in ticks
          MaxIterations,  \* bound: iterations of a command
          MaxTests        \* bound: commands run one after the other

Garbage == "garbage"

ASSUME TransferAssumption == /\ Buses \subseteq {"uart", "spi", "i2c"}
                             /\ Garbage \notin Patterns
                             /\ Timeout \in Nat
                             /\ MaxIterations \in Nat
                             /\ MaxTests \in Nat

Sides == {"a", "b"}
Directions == {"there", "back"}
Commands == [iterations : 0 .. MaxIterations, pattern : Patterns,
             empty : BOOLEAN]        \* empty: pattern_len is 0

VARIABLES
    bus,                        \* which of the three tasks this is
    pc, command, iteration, direction,   \* the task
    elapsed,                    \* HAL_GetTick() - start_tick
    result, tests,              \* the response, commands answered
    hal,                        \* "idle" or "busy", for each side
    flags,                      \* the flags that are set
    buffer,                     \* the receive buffer of each side
    carried,                    \* history: transfers of this test whose data
                                \* arrived, as <<iteration, direction>>
    trouble                     \* history: something went wrong on the wire
                                \* or in the HAL during this transfer

run == <<command, tests>>
place == <<iteration, direction>>
history == <<carried, trouble>>
vars == <<bus, pc, run, place, elapsed, result, hal, flags, buffer, history>>

Other(side) == IF side = "a" THEN "b" ELSE "a"
Sender(d) == IF d = "there" THEN "a" ELSE "b"
Receiver(d) == Other(Sender(d))

\* The UART test starts its receiver first, the other two start the slave.
FirstSide(d) == IF bus = "uart" THEN Receiver(d) ELSE "b"
SecondSide(d) == Other(FirstSide(d))

\* The flag the completion callback of a side sets.  That of the UARTs does
\* not look at the instance, that of SPI does not look at the direction.
UartFlag(d, side) == IF side = Sender(d) THEN "tx_done" ELSE "rx_done"

SpiFlag(side) == IF side = "a" THEN "master_done" ELSE "slave_done"

I2cFlag(d, side) ==
    IF side = "a"
      THEN IF side = Sender(d) THEN "master_tx_done" ELSE "master_rx_done"
      ELSE IF side = Sender(d) THEN "slave_tx_done" ELSE "slave_rx_done"

DoneFlag(d, side) == CASE bus = "uart" -> UartFlag(d, side)
                       [] bus = "spi" -> SpiFlag(side)
                       [] OTHER -> I2cFlag(d, side)

DoneFlags(d) == {DoneFlag(d, "a"), DoneFlag(d, "b")}

Flags == {"tx_done", "rx_done", "master_done", "slave_done", "master_tx_done",
          "master_rx_done", "slave_tx_done", "slave_rx_done", "error"}

\* The pattern goes there, what has arrived goes back.
Sent(d) == IF d = "there" THEN command.pattern ELSE buffer["b"]

Init == /\ bus \in Buses
        /\ pc = "wait"
        /\ command \in Commands      \* the local variable, not yet set
        /\ iteration = 0
        /\ direction = "there"
        /\ elapsed = 0
        /\ result = "none"
        /\ tests = 0
        /\ hal = [s \in Sides |-> "idle"]
        /\ flags = {}
        /\ buffer = [s \in Sides |-> Garbage]
        /\ carried = {}
        /\ trouble = FALSE
-----------------------------------------------------------------------------
(* The task: one command *)

\* app_..._test_task and _run: only the UART test looks at the length here.
TakeCommand(c) ==
    /\ pc = "wait"
    /\ tests < MaxTests
    /\ command' = c
    /\ iteration' = 0
    /\ carried' = {}
    /\ \/ /\ bus = "uart" /\ c.empty
          /\ result' = "FAIL"
          /\ pc' = "respond"
       \/ /\ ~(bus = "uart" /\ c.empty)
          /\ result' = "none"
          /\ pc' = "loop"
    /\ UNCHANGED <<bus, tests, direction, elapsed, hal, flags, buffer, trouble>>

\* Mutant: one iteration too many.
NextIterationTooMany ==
    /\ pc = "loop"
    /\ iteration <= command.iterations
    /\ direction' = "there"
    /\ pc' = "begin"
    /\ UNCHANGED <<bus, run, iteration, elapsed, result, hal, flags, buffer,
                   history>>

NextIteration == /\ pc = "loop"
                 /\ iteration < command.iterations
                 /\ direction' = "there"
                 /\ pc' = "begin"
                 /\ UNCHANGED <<bus, run, iteration, elapsed, result, hal,
                                flags, buffer, history>>

Pass == /\ pc = "loop"
        /\ iteration >= command.iterations
        /\ result' = "SUCCESS"
        /\ pc' = "respond"
        /\ UNCHANGED <<bus, run, place, elapsed, hal, flags, buffer, history>>

\* app_data_compare of the pattern with what the receiver has got.
CompareEqual == /\ pc = "compare"
                /\ buffer[Receiver(direction)] = command.pattern
                /\ \/ /\ direction = "there"
                      /\ direction' = "back"
                      /\ pc' = "begin"
                      /\ UNCHANGED iteration
                   \/ /\ direction = "back"
                      /\ iteration' = iteration + 1
                      /\ pc' = "loop"
                      /\ UNCHANGED direction
                /\ UNCHANGED <<bus, run, elapsed, result, hal, flags, buffer,
                               history>>

CompareDifferent == /\ pc = "compare"
                    /\ buffer[Receiver(direction)] # command.pattern
                    /\ result' = "FAIL"
                    /\ pc' = "respond"
                    /\ UNCHANGED <<bus, run, place, elapsed, hal, flags, buffer,
                                   history>>

\* app_response_queue_send, whether or not the queue takes the response.
Respond == /\ pc = "respond"
           /\ tests' = tests + 1
           /\ pc' = "wait"
           /\ UNCHANGED <<bus, command, place, elapsed, result, hal, flags,
                          buffer, history>>
-----------------------------------------------------------------------------
(* The task: one transfer *)

BeginClearing(cleared) ==
    /\ pc = "begin"
    /\ trouble' = FALSE
    /\ \/ /\ command.empty
          /\ result' = "FAIL"
          /\ pc' = "respond"
          /\ UNCHANGED flags
       \/ /\ ~command.empty
          /\ flags' = flags \ cleared
          /\ pc' = "first"
          /\ UNCHANGED result
    /\ UNCHANGED <<bus, run, place, elapsed, hal, buffer, carried>>

\* Mutant: the completion flags of the last transfer are kept.
BeginKeepingDone == BeginClearing({"error"})

\* Mutant: the error flag of the last transfer is kept.
BeginKeepingError == BeginClearing(DoneFlags(direction))

\* The transfer checks its arguments and clears the flags it will wait for.
Begin == BeginClearing(DoneFlags(direction) \cup {"error"})

\* A HAL start function refuses a side that is busy, or fails of its own.
HalStart(side) == /\ hal[side] = "idle"
                  /\ hal' = [hal EXCEPT ![side] = "busy"]
                  /\ UNCHANGED trouble

HalStartFails == trouble' = TRUE /\ UNCHANGED hal

StartFirst == /\ pc = "first"
              /\ \/ HalStart(FirstSide(direction)) /\ pc' = "second"
                 \/ HalStartFails /\ pc' = "abort"
              /\ UNCHANGED <<bus, run, place, elapsed, result, flags, buffer,
                             carried>>

StartSecond == /\ pc = "second"
               /\ \/ HalStart(SecondSide(direction)) /\ pc' = "poll"
                  \/ HalStartFails /\ pc' = "abort"
               /\ elapsed' = 0
               /\ UNCHANGED <<bus, run, place, result, flags, buffer, carried>>

\* The head of the loop: once both sides are done nothing else is looked at.
PollDone == /\ pc = "poll"
            /\ pc' = IF DoneFlags(direction) \subseteq flags
                       THEN "compare" ELSE "error"
            /\ UNCHANGED <<bus, run, place, elapsed, result, hal, flags, buffer,
                           history>>

\* Mutant: the transfer is left without an abort when there was an error.
PollErrorNoAbort ==
    /\ pc = "error"
    /\ \/ "error" \in flags /\ pc' = "respond" /\ result' = "FAIL"
       \/ "error" \notin flags /\ pc' = "time" /\ UNCHANGED result
    /\ UNCHANGED <<bus, run, place, elapsed, hal, flags, buffer, history>>

PollError == /\ pc = "error"
             /\ pc' = IF "error" \in flags THEN "abort" ELSE "time"
             /\ UNCHANGED <<bus, run, place, elapsed, result, hal, flags,
                            buffer, history>>

\* Mutant: the transfer waits without a limit.
PollTimeForever == /\ pc = "time"
                   /\ pc' = "delay"
                   /\ UNCHANGED <<bus, run, place, elapsed, result, hal, flags,
                                  buffer, history>>

PollTime == /\ pc = "time"
            /\ pc' = IF elapsed > Timeout THEN "abort" ELSE "delay"
            /\ UNCHANGED <<bus, run, place, elapsed, result, hal, flags, buffer,
                           history>>

\* vTaskDelay(1): other tasks may make it longer.  Beyond the time-out the
\* exact time makes no difference.
Delay == /\ pc = "delay"
         /\ elapsed' \in {t \in 1 .. Timeout + 1 : t > elapsed \/ t = Timeout + 1}
         /\ pc' = "poll"
         /\ UNCHANGED <<bus, run, place, result, hal, flags, buffer, history>>

\* A side is stopped; a receiver may have got a part of its data by then.
HalStop(side) ==
    /\ hal' = [hal EXCEPT ![side] = "idle"]
    /\ \/ UNCHANGED buffer
       \/ /\ hal[side] = "busy" /\ side = Receiver(direction)
          /\ buffer' = [buffer EXCEPT ![side] = Garbage]

\* app_..._test_abort_transfer stops and initialises both sides anew, the one
\* that was started last before the other, ...
AbortSecond == /\ pc = "abort"
               /\ HalStop(SecondSide(direction))
               /\ pc' = "abort_first"
               /\ UNCHANGED <<bus, run, place, elapsed, result, flags, history>>

AbortFirst == /\ pc = "abort_first"
              /\ HalStop(FirstSide(direction))
              /\ pc' = "clear"
              /\ UNCHANGED <<bus, run, place, elapsed, result, flags, history>>

\* ... and then clears every flag.
AbortClear == /\ pc = "clear"
              /\ flags' = {}
              /\ result' = "FAIL"
              /\ pc' = "respond"
              /\ UNCHANGED <<bus, run, place, elapsed, hal, buffer, history>>
-----------------------------------------------------------------------------
(* Interrupts *)

\* The sender is on the wire, or has been.
SenderOnWire == \/ hal[Sender(direction)] = "busy"
                \/ DoneFlag(direction, Sender(direction)) \in flags

SenderComplete == /\ hal[Sender(direction)] = "busy"
                  /\ hal' = [hal EXCEPT ![Sender(direction)] = "idle"]
                  /\ flags' = flags \cup {DoneFlag(direction, Sender(direction))}
                  /\ UNCHANGED <<bus, pc, run, place, elapsed, result, buffer,
                                 history>>

\* The receiver has counted its bytes: those that were sent, or others.
ReceiverComplete ==
    LET side == Receiver(direction)
    IN  /\ hal[side] = "busy"
        /\ hal' = [hal EXCEPT ![side] = "idle"]
        /\ flags' = flags \cup {DoneFlag(direction, side)}
        /\ \/ /\ SenderOnWire
              /\ buffer' = [buffer EXCEPT ![side] = Sent(direction)]
              /\ carried' = carried \cup {<<iteration, direction>>}
              /\ UNCHANGED trouble
           \/ /\ buffer' = [buffer EXCEPT ![side] = Garbage]
              /\ trouble' = TRUE
              /\ UNCHANGED carried
        /\ UNCHANGED <<bus, pc, run, place, elapsed, result>>

\* The error callback of the UARTs logs from the interrupt: taking the mutex of
\* the log enters a critical section, whose assertion stops the firmware, with
\* interrupts masked, unless the scheduler happens to be suspended and
\* app_printf passes over the mutex.
ErrorCallback == \/ bus = "uart" /\ pc' = "halted"
                 \/ UNCHANGED pc

\* An error interrupt; a transfer survives some errors of a UART.
Fault(side) == /\ hal[side] = "busy"
               /\ flags' = flags \cup {"error"}
               /\ trouble' = TRUE
               /\ \/ bus = "uart" /\ UNCHANGED <<hal, buffer>>
                  \/ HalStop(side)
               /\ ErrorCallback
               /\ UNCHANGED <<bus, run, place, elapsed, result, carried>>

\* No more commands, or a firmware that has stopped.
Idle == /\ pc = "halted" \/ (pc = "wait" /\ tests >= MaxTests)
        /\ UNCHANGED vars
-----------------------------------------------------------------------------
TestStep == \/ NextIteration \/ Pass \/ CompareEqual \/ CompareDifferent
            \/ Begin \/ StartFirst \/ StartSecond
            \/ PollDone \/ PollError \/ PollTime \/ Delay
            \/ AbortSecond \/ AbortFirst \/ AbortClear \/ Respond

Interrupt == /\ pc # "halted"
             /\ \/ SenderComplete \/ ReceiverComplete
                \/ \E side \in Sides : Fault(side)

Next == \/ TestStep \/ Interrupt \/ Idle
        \/ \E c \in Commands : TakeCommand(c)

Spec == Init /\ [][Next]_vars

\* The task runs whenever it can.  An interrupt, like a command, may never come.
FairSpec == Spec /\ WF_vars(TestStep)
-----------------------------------------------------------------------------
TypeOK == /\ bus \in Buses
          /\ pc \in {"wait", "loop", "begin", "first", "second", "poll", "error",
                     "time", "delay", "compare", "abort", "abort_first", "clear",
                     "respond", "halted"}
          /\ command \in Commands
          /\ iteration \in 0 .. command.iterations
          /\ direction \in Directions
          /\ elapsed \in 0 .. Timeout + 1
          /\ result \in {"none", "SUCCESS", "FAIL"}
          /\ tests \in 0 .. MaxTests
          /\ hal \in [Sides -> {"idle", "busy"}]
          /\ flags \subseteq Flags
          /\ buffer \in [Sides -> Patterns \cup {Garbage}]
          /\ carried \subseteq (0 .. MaxIterations) \X Directions
          /\ trouble \in BOOLEAN

\* A test succeeds only if in each of its iterations the data has crossed the
\* wire in both directions: no flag of an earlier transfer completes a later
\* one, and no buffer that an earlier one has filled is taken for its data.
PassMeansTransferred ==
    pc = "respond" /\ result = "SUCCESS" =>
        \A i \in 0 .. command.iterations - 1, d \in Directions :
            <<i, d>> \in carried

\* app_uart_test.c: after an abort "a new UART transfer can be started safely".
\* However a transfer has ended, no side is active when the next one starts,
\* and no interrupt comes between two transfers.
StartsOnIdleHal ==
    /\ pc \in {"wait", "loop", "begin", "first", "compare", "respond"}
         => \A side \in Sides : hal[side] = "idle"
    /\ pc = "second" => hal[SecondSide(direction)] = "idle"

\* A test fails only for a reason of its own last transfer: a pattern without
\* bytes, an error or garbled data in it, or its time-out.
NoFalseAlarm ==
    pc = "respond" /\ result = "FAIL" =>
        command.empty \/ trouble \/ elapsed > Timeout

\* Every test is answered, also when the wires are cut and no interrupt comes,
\* unless an assertion stops the firmware.
TestEnds == pc = "loop" ~> pc \in {"respond", "halted"}

\* port.c: "Only API functions that end in FromISR can be used in an interrupt":
\* the assertion that no critical section is entered from one never fails.
NoAssertionFails == pc # "halted"
=============================================================================
