--------------------------- MODULE MeasuringTests ---------------------------
(***************************************************************************)
(* The two test tasks that measure: app_timer_test.c compares a delay of   *)
(* the kernel with the microseconds that TIM2 counts meanwhile, and        *)
(* app_adc_test.c reads with the ADC, in polling mode, the levels that it  *)
(* gives out with the DAC.                                                 *)
(*                                                                         *)
(* Time is real here.  A delay ends at a tick, other tasks may keep a test *)
(* from the processor before and after it, and the counter of TIM2 wraps.  *)
(* The peripherals are external: TIM2 counts or stands still, a HAL call   *)
(* may fail, and a conversion may end at any time, with any value.         *)
(***************************************************************************)
EXTENDS Integers, Sequences

CONSTANTS Kinds,           \* the tests of this instance: "timer", "adc"
          Tick,            \* microseconds per tick of the kernel
          DelayTicks,      \* APP_TIMER_TEST_DELAY_MS, in ticks
          Tolerance,       \* APP_TIMER_TEST_TOLERANCE_US
          CounterSize,     \* TIM2 counts modulo this
          MaxLate,         \* bound: microseconds without the processor
          Levels,          \* app_adc_test_values
          RawTolerance,    \* APP_ADC_TEST_TOLERANCE_RAW
          Readings,        \* values a conversion may have
          AdcTimeout,      \* APP_ADC_TEST_TIMEOUT_MS, in ticks
          MaxIterations,   \* bound: iterations of a command
          MaxTests         \* bound: commands run one after the other

Expected == DelayTicks * Tick        \* APP_TIMER_TEST_EXPECTED_US

\* The tolerance is a tick of the kernel, so that a delay may begin anywhere
\* between two ticks, and no iteration takes a turn of the counter.
ASSUME MeasuringAssumption ==
    /\ Kinds \subseteq {"timer", "adc"}
    /\ Tick \in Nat \ {0} /\ DelayTicks \in Nat \ {0}
    /\ Tolerance \in Tick .. Expected - 1
    /\ MaxLate \in Nat
    /\ CounterSize \in Nat /\ CounterSize > Expected + MaxLate
    /\ Levels \in Seq(Nat) /\ Levels # <<>>
    /\ Readings \subseteq Nat /\ RawTolerance \in Nat
    /\ AdcTimeout \in Nat /\ MaxIterations \in Nat /\ MaxTests \in Nat

VARIABLES
    kind,                    \* which of the two tasks this is
    pc, iterations, iteration, result, tests,   \* the task
    counts,                  \* TIM2 is running
    counter, phase,          \* its counter, and its counts since the last tick
    start,                   \* start_us
    elapsed, late,           \* history: the time of this iteration, and how
                             \* much of it without the processor
    index, dac,              \* value_index, the level of the DAC
    adc, data,               \* state and data register of the ADC
    waited,                  \* HAL_GetTick() - tickstart
    fault,                   \* history: the peripherals failed in this test
    measured                 \* history: the good measurements of this test,
                             \* as <<iteration, index>>

task == <<iterations, tests>>
clock == <<counts, counter, phase, elapsed, late>>
converter == <<index, dac, adc, data, waited>>
vars == <<kind, pc, task, iteration, result, clock, start, converter, fault,
          measured>>

Near(a, b) == a <= b + RawTolerance /\ b <= a + RawTolerance

Init == /\ kind \in Kinds
        /\ pc = "wait"
        /\ iterations = 0 /\ iteration = 0 /\ result = "none" /\ tests = 0
        /\ counts \in BOOLEAN
        /\ counter = 0 /\ phase = 0 /\ start = 0 /\ elapsed = 0 /\ late = 0
        /\ index = 1 /\ dac = 0 /\ adc = "stopped" /\ data = 0 /\ waited = 0
        /\ fault = FALSE
        /\ measured = {}
-----------------------------------------------------------------------------
(* Both tasks *)

\* A command comes after any time.
TakeCommand(n) ==
    /\ pc = "wait" /\ tests < MaxTests
    /\ iterations' = n /\ iteration' = 0
    /\ result' = "none"
    /\ fault' = FALSE /\ measured' = {}
    /\ \/ /\ kind = "timer"
          /\ counter' \in IF counts THEN 0 .. CounterSize - 1 ELSE {counter}
          /\ phase' \in 0 .. Tick
          /\ pc' = "loop"
       \/ /\ kind = "adc"
          /\ UNCHANGED <<counter, phase>>
          /\ pc' = "dac"
    /\ UNCHANGED <<kind, tests, counts, elapsed, late, start, converter>>

Pass == /\ pc = "loop" /\ iteration >= iterations
        /\ result' = "SUCCESS"
        /\ pc' = "respond"
        /\ UNCHANGED <<kind, task, iteration, clock, start, converter, fault,
                       measured>>

Fail == result' = "FAIL" /\ pc' = "respond"

\* app_response_queue_send, whether or not the queue takes the response.
Respond == /\ pc = "respond"
           /\ tests' = tests + 1
           /\ pc' = "wait"
           /\ UNCHANGED <<kind, iterations, iteration, result, clock, start,
                          converter, fault, measured>>
-----------------------------------------------------------------------------
(* app_timer_test_run *)

\* 32-bit arithmetic, of numbers that are at most one turn of the counter off.
Wrap(x) == CASE x < 0            -> x + CounterSize
             [] x >= CounterSize -> x - CounterSize
             [] OTHER            -> x

\* Time passes; a tick need not fall on an edge of the counter, so that up to
\* Tick counts lie between two ticks.
Advance(n) == /\ counter' = IF counts THEN Wrap(counter + n) ELSE counter
              /\ elapsed' = elapsed + n

TimerStart == /\ kind = "timer"
              /\ pc = "loop" /\ iteration < iterations
              /\ start' = counter
              /\ elapsed' = 0 /\ late' = 0
              /\ pc' = "sleep"
              /\ UNCHANGED <<kind, task, iteration, result, counts, counter,
                             phase, converter, fault, measured>>

\* vTaskDelay: the tick that ends the delay is the DelayTicks-th to come.
TimerSleep == /\ pc = "sleep"
              /\ Advance(Expected - phase)
              /\ phase' = 0
              /\ pc' = "end"
              /\ UNCHANGED <<kind, task, iteration, result, counts, late, start,
                             converter, fault, measured>>

\* Other tasks have the processor, between the first reading of the counter and
\* the delay or between the delay and the second reading.
HeldUp == /\ pc \in {"sleep", "end"}
          /\ late < MaxLate
          /\ late' = late + 1
          /\ Advance(1)
          /\ phase' \in {phase + 1, phase + 1 - Tick} \cap 0 .. Tick
          /\ UNCHANGED <<kind, pc, task, iteration, result, counts, start,
                         converter, fault, measured>>

\* The iteration has taken the time it should.
Timely == elapsed \in Expected - Tolerance .. Expected + Tolerance

\* The second reading is compared with the first, given their difference.
TimerCompare(delta) ==
    /\ pc = "end"
    /\ \/ /\ delta \in Expected - Tolerance .. Expected + Tolerance
          /\ iteration' = iteration + 1
          /\ measured' = measured \cup (IF Timely /\ counts
                                          THEN {<<iteration, 1>>} ELSE {})
          /\ pc' = "loop"
          /\ UNCHANGED result
       \/ /\ delta \notin Expected - Tolerance .. Expected + Tolerance
          /\ Fail
          /\ UNCHANGED <<iteration, measured>>
    /\ UNCHANGED <<kind, task, clock, start, converter, fault>>

\* Mutant: the difference is taken without regard to the wrap.
TimerEndNoWrap == TimerCompare(counter - start)

\* uint32_t arithmetic.
TimerEnd == TimerCompare(Wrap(counter - start))
-----------------------------------------------------------------------------
(* app_adc_test_run_polling *)

\* A HAL call of the task returns an error, which ends the test at once.
HalFails == /\ fault' = TRUE
            /\ Fail
            /\ UNCHANGED <<kind, task, iteration, clock, start, converter,
                           measured>>

DacStart == /\ pc = "dac"
            /\ \/ HalFails
               \/ /\ pc' = "loop"
                  /\ UNCHANGED <<kind, task, iteration, result, clock, start,
                                 converter, fault, measured>>

AdcIteration == /\ kind = "adc"
                /\ pc = "loop" /\ iteration < iterations
                /\ index' = 1
                /\ pc' = "level"
                /\ UNCHANGED <<kind, task, iteration, result, clock, start, dac,
                               adc, data, waited, fault, measured>>

\* Mutant: the test goes on when the DAC refuses a level.
SetLevelRegardless ==
    /\ pc = "level"
    /\ dac' \in {dac, Levels[index]}
    /\ pc' = "start"
    /\ UNCHANGED <<kind, task, iteration, result, clock, start, index, adc,
                   data, waited, fault, measured>>

\* HAL_DAC_SetValue, and the delay in which the level settles.
SetLevel == /\ pc = "level"
            /\ \/ HalFails
               \/ /\ dac' = Levels[index]
                  /\ pc' = "start"
                  /\ UNCHANGED <<kind, task, iteration, result, clock, start,
                                 index, adc, data, waited, fault, measured>>

\* HAL_ADC_Start clears the end-of-conversion flag of an earlier conversion.
AdcStart == /\ pc = "start"
            /\ \/ HalFails
               \/ /\ adc' = "converting"
                  /\ waited' = 0
                  /\ pc' = "poll"
                  /\ UNCHANGED <<kind, task, iteration, result, clock, start,
                                 index, dac, data, fault, measured>>

Goto(label) == /\ pc' = label
               /\ UNCHANGED <<kind, task, iteration, result, clock, start,
                              converter, fault, measured>>

\* HAL_ADC_PollForConversion: the flag, then the time, then the flag again "to
\* avoid false timeout detection in case of preemption".
PollFlag == pc = "poll" /\ Goto(IF adc = "done" THEN "value" ELSE "time")

\* Mutant: the time alone decides.
PollTimeOnly == /\ pc = "time"
                /\ Goto(IF waited > AdcTimeout THEN "stop" ELSE "poll")

\* Mutant: the task waits without a limit.
PollTimeForever == pc = "time" /\ Goto("poll")

PollTime == pc = "time" /\ Goto(IF waited > AdcTimeout THEN "again" ELSE "poll")

PollAgain == pc = "again" /\ Goto(IF adc = "done" THEN "poll" ELSE "stop")

\* Mutant: the converter is left running after a time-out.
GiveUpRunning == /\ pc = "stop"
                 /\ Fail
                 /\ UNCHANGED <<kind, task, iteration, clock, start, converter,
                                fault, measured>>

\* The conversion has timed out: the converter is stopped.
GiveUp == /\ pc = "stop"
          /\ adc' = "stopped"
          /\ Fail
          /\ UNCHANGED <<kind, task, iteration, clock, start, index, dac, data,
                         waited, fault, measured>>

\* The value is read, the converter stopped, the value compared.
CompareUpTo(last) ==
    /\ pc = "value"
    /\ adc' = "stopped"
    /\ \/ /\ Near(data, Levels[index])
          /\ measured' = measured \cup (IF Near(data, dac)
                                          THEN {<<iteration, index>>} ELSE {})
          /\ \/ /\ index < last
                /\ index' = index + 1
                /\ pc' = "level"
                /\ UNCHANGED iteration
             \/ /\ index = last
                /\ iteration' = iteration + 1
                /\ pc' = "loop"
                /\ UNCHANGED index
          /\ UNCHANGED result
       \/ /\ ~Near(data, Levels[index])
          /\ Fail
          /\ UNCHANGED <<iteration, index, measured>>
    /\ UNCHANGED <<kind, task, clock, start, dac, data, waited, fault>>

\* Mutant: one level too many.
CompareTooMany == CompareUpTo(Len(Levels) + 1)

Compare == CompareUpTo(Len(Levels))

\* The converter is done, with the level of the DAC or with another value.
Convert == /\ adc = "converting"
           /\ adc' = "done"
           /\ data' \in Readings
           /\ fault' = (fault \/ ~Near(data', dac))
           /\ UNCHANGED <<kind, pc, task, iteration, result, clock, start,
                          index, dac, waited, measured>>

\* The tick interrupt; other tasks may have had the processor for several
\* ticks.  A conversion that takes longer than the time-out is a fault.
AdcTick == /\ pc \in {"poll", "time", "again"}
           /\ waited <= AdcTimeout
           /\ waited' \in {waited + 1, AdcTimeout + 1}
           /\ fault' = (fault \/ (adc = "converting" /\ waited' > AdcTimeout))
           /\ UNCHANGED <<kind, pc, task, iteration, result, clock, start,
                          index, dac, adc, data, measured>>

\* No more commands.
Idle == pc = "wait" /\ tests >= MaxTests /\ UNCHANGED vars
-----------------------------------------------------------------------------
TimerStep == TimerStart \/ TimerSleep \/ TimerEnd

AdcStep == \/ DacStart \/ AdcIteration \/ SetLevel \/ AdcStart
           \/ PollFlag \/ PollTime \/ PollAgain \/ GiveUp \/ Compare

TestStep == TimerStep \/ AdcStep \/ Pass \/ Respond

Next == \/ TestStep \/ HeldUp \/ Convert \/ AdcTick \/ Idle
        \/ \E n \in 0 .. MaxIterations : TakeCommand(n)

Spec == Init /\ [][Next]_vars

\* The task runs whenever it can, and ticks come.  A conversion need not end.
FairSpec == Spec /\ WF_vars(TestStep) /\ WF_vars(AdcTick)
-----------------------------------------------------------------------------
TypeOK == /\ kind \in Kinds
          /\ pc \in {"wait", "loop", "sleep", "end", "dac", "level", "start",
                     "poll", "time", "again", "stop", "value", "respond"}
          /\ iterations \in 0 .. MaxIterations /\ iteration \in 0 .. iterations
          /\ result \in {"none", "SUCCESS", "FAIL"}
          /\ tests \in 0 .. MaxTests
          /\ counts \in BOOLEAN
          /\ counter \in 0 .. CounterSize - 1 /\ start \in 0 .. CounterSize - 1
          /\ phase \in 0 .. Tick
          /\ late \in 0 .. MaxLate
          /\ elapsed \in 0 .. Expected + MaxLate
          /\ index \in 1 .. Len(Levels)
          /\ dac \in Nat /\ data \in Nat
          /\ adc \in {"stopped", "converting", "done"}
          /\ waited \in 0 .. AdcTimeout + 1
          /\ fault \in BOOLEAN
          /\ measured \subseteq (0 .. MaxIterations) \X (1 .. Len(Levels))

\* The measurements of an iteration.
Measurements == IF kind = "timer" THEN {1} ELSE 1 .. Len(Levels)

\* A test succeeds only if every one of its measurements was good: the delay
\* took its time by a running timer, wherever the counter wrapped, and the ADC
\* read the level the DAC was giving at that moment.
PassMeansMeasured ==
    pc = "respond" /\ result = "SUCCESS" =>
        (0 .. iterations - 1) \X Measurements \subseteq measured

\* A timer test fails only when TIM2 stands still or when other tasks have held
\* up its last iteration for longer than the tolerance; an ADC test, only when
\* a peripheral has failed: not because the counter wrapped, the delay began
\* between two ticks, or the task was kept from seeing the end of a conversion.
NoFalseAlarm ==
    pc = "respond" /\ result = "FAIL" =>
        IF kind = "timer" THEN ~counts \/ late > Tolerance ELSE fault

\* The converter is stopped between two measurements, however the last one
\* ended, so that none starts on a converter that is still busy.
ConverterStopped ==
    pc \in {"wait", "dac", "loop", "level", "start", "respond"}
        => adc = "stopped"

\* Every test is answered, also when a conversion never ends.
TestEnds == pc = "loop" ~> pc = "respond"
=============================================================================
