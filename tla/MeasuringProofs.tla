--------------------------- MODULE MeasuringProofs ---------------------------
(***************************************************************************)
(* For any tick, delay, tolerance, size of the counter, levels, readings   *)
(* and time-out, a timer or ADC test succeeds only on good measurements,   *)
(* fails only for a fault or a delay that others have caused, starts no    *)
(* conversion on a converter that is still busy, and makes a bounded       *)
(* number of steps and polls.                                              *)
(***************************************************************************)
EXTENDS MeasuringTests, TLAPS

Polling == {"poll", "time", "again"}
Converting == Polling \cup {"start", "stop", "value"}
Measuring == Converting \cup {"sleep", "end", "level"}

\* Where the counter of TIM2 is, and how long the iteration has taken.
ClockInv ==
    pc \in {"sleep", "end"} =>
      /\ kind = "timer"
      /\ counter = IF counts THEN Wrap(start + elapsed) ELSE start
      /\ pc = "sleep" => elapsed = late
      /\ pc = "end" => elapsed \in Expected + late - Tick .. Expected + late

\* The ADC converts the level of this index; what is wrong with it has left
\* its trace.
ConverterInv ==
    /\ ConverterStopped
    /\ kind = "timer" => adc = "stopped"
    /\ pc \in Converting \cup {"dac", "level"} => kind = "adc"
    /\ pc \in Converting => dac = Levels[index]
    /\ pc \in Polling => adc # "stopped"
    /\ pc = "value" => adc = "done"
    /\ adc = "done" /\ ~Near(data, dac) => fault
    /\ pc \in Polling /\ adc = "converting" /\ waited > AdcTimeout => fault
    /\ pc = "again" => waited > AdcTimeout
    /\ pc = "stop" => fault

\* The measurements that are behind the task were good.
ProgressInv ==
    /\ (0 .. iteration - 1) \X Measurements \subseteq measured
    /\ pc \in Converting \cup {"level"} =>
          \A k \in 1 .. index - 1 : <<iteration, k>> \in measured
    /\ pc \in Measuring => iteration < iterations
    /\ pc = "respond" /\ result = "SUCCESS" => iteration >= iterations
    /\ pc # "wait" => tests < MaxTests

Inv == TypeOK /\ ClockInv /\ ConverterInv /\ ProgressInv /\ NoFalseAlarm

\* The times are natural numbers, and a tick is shorter than the delay.
LEMMA Times == /\ Expected \in Nat /\ Tick \in Nat /\ Tolerance \in Nat
               /\ Tick <= Tolerance /\ Tolerance < Expected
               /\ MaxLate \in Nat /\ CounterSize \in Nat
               /\ Expected + MaxLate < CounterSize
  BY MeasuringAssumption DEF Expected

\* The levels are natural numbers.
LEMMA LevelTypes == /\ Len(Levels) \in Nat /\ 1 <= Len(Levels)
                    /\ \A k \in 1 .. Len(Levels) : Levels[k] \in Nat
  BY MeasuringAssumption

\* The counter after n microseconds, read modulo its size.
LEMMA WrapSum ==
    ASSUME NEW c \in 0 .. CounterSize - 1, NEW n \in 0 .. CounterSize - 1
    PROVE  /\ Wrap(c + n) \in 0 .. CounterSize - 1
           /\ Wrap(Wrap(c + n) - c) = n
           /\ \A d \in 0 .. CounterSize - 1 :
                n + d < CounterSize => Wrap(Wrap(c + n) + d) = Wrap(c + (n + d))
  BY Times DEF Wrap

\* The initial states satisfy the invariant.
LEMMA Initially == Init => Inv
<1> SUFFICES ASSUME Init
             PROVE  Inv
  OBVIOUS
<1>1. TypeOK
  <2>1. /\ 0 \in 0 .. MaxIterations /\ 0 \in 0 .. MaxTests /\ 0 \in 0 .. AdcTimeout + 1
        /\ 0 \in 0 .. CounterSize - 1 /\ 0 \in 0 .. Tick /\ 0 \in 0 .. MaxLate
        /\ 0 \in 0 .. Expected + MaxLate /\ 1 \in 1 .. Len(Levels)
        /\ 0 \in 0 .. 0 /\ 0 \in Nat
    BY MeasuringAssumption, Times, LevelTypes
  <2>2. QED
    BY <2>1 DEF Init, TypeOK
<1>2. ClockInv /\ ConverterInv /\ NoFalseAlarm
  BY DEF Init, ClockInv, ConverterInv, ConverterStopped, NoFalseAlarm, Converting, Polling
<1>3. ProgressInv
  BY DEF Init, ProgressInv, Converting, Polling, Measuring
<1>4. QED
  BY <1>1, <1>2, <1>3 DEF Inv

\* Time that passes moves the counter on from where it was.
LEMMA Moved ==
    ASSUME TypeOK, elapsed \in 0 .. CounterSize - 1,
           counts => counter = Wrap(start + elapsed),
           NEW n \in 0 .. CounterSize - 1, elapsed + n < CounterSize,
           Advance(n)
    PROVE  counts => /\ counter' = Wrap(start + elapsed')
                     /\ counter' \in 0 .. CounterSize - 1
<1> SUFFICES ASSUME counts
             PROVE  /\ counter' = Wrap(start + elapsed')
                    /\ counter' \in 0 .. CounterSize - 1
  OBVIOUS
<1>1. start \in 0 .. CounterSize - 1 /\ elapsed + n \in 0 .. CounterSize - 1
  BY Times DEF TypeOK
<1>2. counter' = Wrap(Wrap(start + elapsed) + n) /\ elapsed' = elapsed + n
  BY DEF Advance
<1>3. Wrap(Wrap(start + elapsed) + n) = Wrap(start + (elapsed + n))
  BY <1>1, WrapSum
<1>4. Wrap(start + (elapsed + n)) \in 0 .. CounterSize - 1
  BY <1>1, WrapSum
<1>5. QED
  BY <1>2, <1>3, <1>4

\* Each step keeps what is known of the clock.
LEMMA ClockStep == Inv /\ Next => ClockInv' /\ elapsed' \in 0 .. Expected + MaxLate
                                  /\ counter' \in 0 .. CounterSize - 1
<1> SUFFICES ASSUME Inv, Next
             PROVE  /\ ClockInv' /\ elapsed' \in 0 .. Expected + MaxLate
                    /\ counter' \in 0 .. CounterSize - 1
  OBVIOUS
<1>t. TypeOK /\ ClockInv
  BY DEF Inv
<1> USE Times DEF ClockInv, TypeOK, task, clock, converter
<1> HIDE DEF Expected
<1>1. ASSUME NEW n \in 0 .. MaxIterations, TakeCommand(n) PROVE ClockInv' /\ counter' \in 0 .. CounterSize - 1 /\ elapsed' \in 0 .. Expected + MaxLate
  BY <1>t, <1>1 DEF TakeCommand
<1>2. CASE TimerStart
  <2>1. start' \in 0 .. CounterSize - 1 /\ elapsed' = 0
    BY <1>t, <1>2 DEF TimerStart
  <2>2. Wrap(start' + elapsed') = start'
    BY <2>1 DEF Wrap
  <2>3. QED
    BY <1>t, <1>2, <2>1, <2>2 DEF TimerStart
<1>3. CASE TimerSleep
  <2>1. /\ Expected - phase \in 0 .. CounterSize - 1
        /\ elapsed \in 0 .. CounterSize - 1
        /\ elapsed + (Expected - phase) < CounterSize
    BY <1>t, <1>3 DEF TimerSleep
  <2>2. Advance(Expected - phase) /\ UNCHANGED <<start, counts>>
    BY <1>3 DEF TimerSleep
  <2>3. (counts => counter = Wrap(start + elapsed)) /\ (~counts => counter = start)
    BY <1>t, <1>3 DEF TimerSleep
  <2>4. counts => counter' = Wrap(start + elapsed') /\ counter' \in 0 .. CounterSize - 1
    BY <1>t, <2>1, <2>2, <2>3, Moved
  <2>5. ~counts => counter' = start
    BY <2>2, <2>3 DEF Advance
  <2>6. elapsed' \in Expected + late - Tick .. Expected + late
    BY <1>t, <1>3 DEF TimerSleep, Advance
  <2>7. QED
    BY <1>t, <1>3, <2>2, <2>4, <2>5, <2>6 DEF TimerSleep
<1>4. CASE HeldUp
  <2>1. /\ 1 \in 0 .. CounterSize - 1
        /\ elapsed \in 0 .. CounterSize - 1
        /\ elapsed + 1 < CounterSize /\ late + 1 <= MaxLate
    BY <1>t, <1>4 DEF HeldUp
  <2>2. Advance(1) /\ UNCHANGED <<pc, kind, start, counts>>
    BY <1>4 DEF HeldUp
  <2>3. (counts => counter = Wrap(start + elapsed)) /\ (~counts => counter = start)
    BY <1>t, <1>4 DEF HeldUp
  <2>4. counts => counter' = Wrap(start + elapsed') /\ counter' \in 0 .. CounterSize - 1
    BY <1>t, <2>1, <2>2, <2>3, Moved
  <2>5. ~counts => counter' = start
    BY <2>2, <2>3 DEF Advance
  <2>6. elapsed' = elapsed + 1 /\ late' = late + 1
    BY <1>4 DEF HeldUp, Advance
  <2>7. QED
    BY <1>t, <1>4, <2>1, <2>2, <2>4, <2>5, <2>6 DEF HeldUp
<1>5. CASE TimerEnd \/ Pass \/ Respond \/ Idle
  BY <1>t, <1>5 DEF TimerEnd, TimerCompare, Fail, Pass, Respond, Idle, vars
<1>6. CASE AdcStep
  BY <1>t, <1>6 DEF AdcStep, DacStart, HalFails, Fail, AdcIteration, SetLevel,
     AdcStart, PollFlag, PollTime, PollAgain, Goto, GiveUp, Compare, CompareUpTo
<1>7. CASE Convert
  BY <1>t, <1>7 DEF Convert
<1>8. CASE AdcTick
  BY <1>t, <1>8 DEF AdcTick
<1>9. QED
  BY <1>1, <1>2, <1>3, <1>4, <1>5, <1>6, <1>7, <1>8 DEF Next, TestStep, TimerStep

\* What the timer test computes is the time the iteration has taken, or nothing
\* when TIM2 stands still; it fails the iteration only when it took too long.
LEMMA ElapsedKnown ==
    ASSUME TypeOK, ClockInv, TimerEnd
    PROVE  /\ iteration' = iteration + 1 => Timely /\ counts
           /\ pc' = "respond" /\ counts => late > Tolerance
<1>0. /\ pc = "end" /\ elapsed \in Expected + late - Tick .. Expected + late
      /\ late \in 0 .. MaxLate /\ start \in 0 .. CounterSize - 1 /\ iteration \in Int
      /\ counter = IF counts THEN Wrap(start + elapsed) ELSE start
  BY MeasuringAssumption, Times DEF TimerEnd, TimerCompare, ClockInv, TypeOK
<1>1. CASE counts
  <2>1. elapsed \in 0 .. CounterSize - 1
    BY <1>0, Times
  <2>2. Wrap(counter - start) = elapsed
    BY <1>0, <1>1, <2>1, WrapSum
  <2>3. QED
    BY <1>0, <1>1, <2>2, Times DEF TimerEnd, TimerCompare, Timely, Fail
<1>2. CASE ~counts
  <2>1. Wrap(counter - start) = 0
    BY <1>0, <1>2, Times DEF Wrap
  <2>2. QED
    BY <1>0, <1>2, <2>1, Times DEF TimerEnd, TimerCompare, Fail
<1>3. QED
  BY <1>1, <1>2

\* Each step keeps the types.
LEMMA TypeStep == Inv /\ Next => TypeOK'
<1> SUFFICES ASSUME Inv, Next
             PROVE  TypeOK'
  OBVIOUS
<1>t. TypeOK /\ ProgressInv
  BY DEF Inv
<1>m. MaxIterations \in Nat /\ MaxTests \in Nat /\ AdcTimeout \in Nat
      /\ Readings \subseteq Nat
  BY MeasuringAssumption
<1> USE Times, LevelTypes DEF TypeOK, task, clock, converter
<1>c. elapsed' \in 0 .. Expected + MaxLate /\ counter' \in 0 .. CounterSize - 1
  BY ClockStep
<1>1. ASSUME NEW n \in 0 .. MaxIterations, TakeCommand(n) PROVE TypeOK'
  <2>1. 0 \in 0 .. n /\ phase' \in 0 .. Tick
    BY <1>t, <1>1 DEF TakeCommand
  <2>2. pc' \in {"loop", "dac"} /\ iterations' = n /\ iteration' = 0 /\ measured' = {}
    BY <1>1 DEF TakeCommand
  <2>3. QED
    BY <1>t, <1>m, <1>c, <1>1, <2>1, <2>2 DEF TakeCommand
<1>2. CASE TimerStart
  BY <1>t, <1>m, <1>c, <1>2 DEF TimerStart
<1>3. CASE TimerSleep
  BY <1>t, <1>m, <1>c, <1>3 DEF TimerSleep
<1>15. CASE HeldUp
  <2>1. late' \in 0 .. MaxLate
    BY <1>t, <1>15 DEF HeldUp
  <2>2. QED
    BY <1>t, <1>m, <1>c, <1>15, <2>1 DEF HeldUp
<1>4. CASE TimerEnd
  BY <1>t, <1>m, <1>c, <1>4 DEF TimerEnd, TimerCompare, Fail, ProgressInv, Measuring
<1>5. CASE Pass \/ Idle
  BY <1>t, <1>m, <1>c, <1>5 DEF Pass, Idle, vars
<1>6. CASE Respond
  BY <1>t, <1>m, <1>c, <1>6 DEF Respond, ProgressInv
<1>7. CASE DacStart \/ GiveUp
  BY <1>t, <1>m, <1>c, <1>7 DEF DacStart, HalFails, Fail, GiveUp
<1>16. CASE AdcIteration
  <2>1. index' \in 1 .. Len(Levels)
    BY <1>16 DEF AdcIteration
  <2>2. QED
    BY <1>t, <1>m, <1>c, <1>16, <2>1 DEF AdcIteration
<1>13. CASE SetLevel
  BY <1>t, <1>m, <1>c, <1>13 DEF SetLevel, HalFails, Fail
<1>14. CASE AdcStart
  <2>1. waited' \in 0 .. AdcTimeout + 1
    BY <1>t, <1>m, <1>14 DEF AdcStart, HalFails
  <2>2. QED
    BY <1>t, <1>m, <1>c, <1>14, <2>1 DEF AdcStart, HalFails, Fail
<1>8. CASE PollFlag \/ PollTime \/ PollAgain
  BY <1>t, <1>m, <1>c, <1>8 DEF PollFlag, PollTime, PollAgain, Goto
<1>9. CASE Compare
  BY <1>t, <1>m, <1>c, <1>9 DEF Compare, CompareUpTo, Fail, ProgressInv, Measuring,
     Converting
<1>10. CASE Convert
  BY <1>t, <1>m, <1>c, <1>10 DEF Convert
<1>11. CASE AdcTick
  BY <1>t, <1>m, <1>c, <1>11 DEF AdcTick
<1>12. QED
  BY <1>1, <1>2, <1>3, <1>4, <1>5, <1>6, <1>7, <1>8, <1>9, <1>10, <1>11, <1>13, <1>14,
     <1>15, <1>16 DEF Next, TestStep, TimerStep, AdcStep

\* Each step keeps what is known of the converter.
LEMMA ConverterStep == Inv /\ Next => ConverterInv'
<1> SUFFICES ASSUME Inv, Next
             PROVE  ConverterInv'
  OBVIOUS
<1>t. TypeOK /\ ConverterInv
  BY DEF Inv
<1>k. ClockInv
  BY DEF Inv
<1> USE DEF ConverterInv, ConverterStopped, Converting, Polling, Near, task, clock,
            converter
<1>1. ASSUME NEW n \in 0 .. MaxIterations, TakeCommand(n) PROVE ConverterInv'
  BY <1>t, <1>1 DEF TakeCommand
<1>2. CASE TimerStart \/ TimerSleep \/ HeldUp
  BY <1>t, <1>2 DEF TimerStart, TimerSleep, HeldUp
<1>3. CASE TimerEnd
  <2>1. kind = "timer" /\ pc' \in {"loop", "respond"} /\ UNCHANGED <<kind, converter, fault>>
    BY <1>3, <1>k DEF TimerEnd, TimerCompare, Fail, ClockInv
  <2>2. adc = "stopped"
    BY <1>t, <2>1
  <2>3. QED
    BY <1>t, <2>1, <2>2
<1>13. CASE Pass \/ Respond \/ Idle
  BY <1>t, <1>13 DEF Pass, Respond, Idle, vars
<1>4. CASE DacStart \/ AdcIteration
  BY <1>t, <1>4 DEF DacStart, HalFails, Fail, AdcIteration
<1>5. CASE SetLevel \/ GiveUp
  BY <1>t, <1>5 DEF SetLevel, HalFails, Fail, GiveUp
<1>6. CASE AdcStart
  BY <1>t, <1>6, MeasuringAssumption DEF AdcStart, HalFails, Fail
<1>7. CASE PollFlag \/ PollTime
  BY <1>t, <1>7 DEF PollFlag, PollTime, Goto
<1>8. CASE PollAgain
  BY <1>t, <1>8 DEF PollAgain, Goto, TypeOK
<1>9. CASE Compare
  BY <1>t, <1>9 DEF Compare, CompareUpTo, Fail
<1>10. CASE Convert
  BY <1>t, <1>10 DEF Convert
<1>11. CASE AdcTick
  <2>1. (fault => fault') /\ (adc = "converting" /\ waited' > AdcTimeout => fault')
    BY <1>11 DEF AdcTick
  <2>2. /\ UNCHANGED <<kind, pc, index, dac, adc, data>>
        /\ pc \in Polling /\ waited' > waited /\ waited <= AdcTimeout
    BY <1>t, <1>11, MeasuringAssumption DEF AdcTick, TypeOK
  <2>3. pc # "again"
    BY <1>t, <2>2, MeasuringAssumption DEF TypeOK
  <2>4. QED
    BY <1>t, <2>1, <2>2, <2>3
<1>12. QED
  BY <1>1, <1>2, <1>3, <1>4, <1>5, <1>6, <1>7, <1>8, <1>9, <1>10, <1>11, <1>13
     DEF Next, TestStep, TimerStep, AdcStep

\* Each step keeps the account of the measurements.
LEMMA ProgressStep == Inv /\ Next => ProgressInv'
<1> SUFFICES ASSUME Inv, Next
             PROVE  ProgressInv'
  OBVIOUS
<1>t. TypeOK /\ ClockInv /\ ConverterInv /\ ProgressInv
  BY DEF Inv
<1>n. iteration \in Nat /\ iterations \in Nat /\ index \in Nat
  BY <1>t, MeasuringAssumption, LevelTypes DEF TypeOK
<1> USE DEF ProgressInv, Measuring, Converting, Polling, task, clock, converter
<1>1. ASSUME NEW n \in 0 .. MaxIterations, TakeCommand(n) PROVE ProgressInv'
  BY <1>1 DEF TakeCommand
<1>2. CASE TimerStart \/ TimerSleep \/ HeldUp
  BY <1>t, <1>n, <1>2 DEF TimerStart, TimerSleep, HeldUp, Measurements
<1>3. CASE TimerEnd
  <2>1. CASE iteration' = iteration + 1
    <3>1. Timely /\ counts
      BY <1>t, <1>3, <2>1, ElapsedKnown
    <3>2. measured' = measured \cup {<<iteration, 1>>} /\ kind = "timer" /\ kind' = kind
      BY <1>t, <1>n, <1>3, <2>1, <3>1 DEF TimerEnd, TimerCompare, ClockInv
    <3>3. 0 .. iteration' - 1 = (0 .. iteration - 1) \cup {iteration}
      BY <1>n, <2>1
    <3>4. (0 .. iteration' - 1) \X {1} \subseteq measured'
      BY <1>t, <3>2, <3>3 DEF Measurements
    <3>5. QED
      BY <1>t, <1>n, <1>3, <2>1, <3>2, <3>4 DEF TimerEnd, TimerCompare, Measurements, Fail
  <2>2. CASE iteration' # iteration + 1
    BY <1>t, <1>n, <1>3, <2>2 DEF TimerEnd, TimerCompare, Measurements, Fail
  <2>3. QED
    BY <2>1, <2>2
<1>4. CASE Pass \/ Respond \/ Idle
  BY <1>t, <1>n, <1>4 DEF Pass, Respond, Idle, vars, Measurements
<1>5. CASE DacStart \/ AdcIteration
  BY <1>t, <1>n, <1>5 DEF DacStart, HalFails, Fail, AdcIteration, Measurements
<1>6. CASE SetLevel \/ AdcStart \/ GiveUp
  BY <1>t, <1>n, <1>6 DEF SetLevel, AdcStart, HalFails, Fail, GiveUp, Measurements
<1>7. CASE PollFlag \/ PollTime \/ PollAgain
  BY <1>t, <1>n, <1>7 DEF PollFlag, PollTime, PollAgain, Goto, Measurements
<1>8. CASE Compare
  <2>1. CASE Near(data, Levels[index])
    <3>1. measured' = measured \cup {<<iteration, index>>}
      BY <1>t, <1>8, <2>1 DEF Compare, CompareUpTo, ConverterInv
    <3>2. kind = "adc" /\ kind' = kind /\ iterations' = iterations
      BY <1>t, <1>8 DEF Compare, CompareUpTo, ConverterInv
    <3>3. \A k \in 1 .. index : <<iteration, k>> \in measured'
      <4>1. SUFFICES ASSUME NEW k \in 1 .. index
                     PROVE  <<iteration, k>> \in measured'
        OBVIOUS
      <4>2. CASE k = index
        BY <3>1, <4>2
      <4>3. CASE k # index
        <5>1. k \in 1 .. index - 1
          BY <1>n, <4>3
        <5>2. QED
          BY <1>t, <1>8, <3>1, <5>1 DEF Compare, CompareUpTo
      <4>4. QED
        BY <4>2, <4>3
    <3>4. CASE index < Len(Levels)
      BY <1>t, <1>n, <1>8, <2>1, <3>1, <3>2, <3>3, <3>4
         DEF Compare, CompareUpTo, Measurements
    <3>5. CASE index = Len(Levels)
      <4>1. iteration' = iteration + 1 /\ pc' = "loop" /\ tests' = tests
        BY <1>t, <1>n, <1>8, <2>1, <3>5 DEF Compare, CompareUpTo
      <4>2. 0 .. iteration' - 1 = (0 .. iteration - 1) \cup {iteration}
        BY <1>n, <4>1
      <4>3. (0 .. iteration' - 1) \X (1 .. Len(Levels)) \subseteq measured'
        BY <1>t, <3>1, <3>2, <3>3, <3>5, <4>2 DEF Measurements
      <4>4. QED
        BY <1>t, <1>8, <3>2, <4>1, <4>3 DEF Compare, CompareUpTo, Measurements
    <3>6. QED
      BY <1>t, <3>4, <3>5, LevelTypes DEF TypeOK
  <2>2. CASE ~Near(data, Levels[index])
    BY <1>t, <1>n, <1>8, <2>2 DEF Compare, CompareUpTo, Fail, Measurements
  <2>3. QED
    BY <2>1, <2>2
<1>9. CASE Convert \/ AdcTick
  BY <1>t, <1>n, <1>9 DEF Convert, AdcTick, Measurements
<1>10. QED
  BY <1>1, <1>2, <1>3, <1>4, <1>5, <1>6, <1>7, <1>8, <1>9
     DEF Next, TestStep, TimerStep, AdcStep

\* Each step keeps the reasons for a failure.
LEMMA AlarmStep == Inv /\ Next => NoFalseAlarm'
<1> SUFFICES ASSUME Inv, Next
             PROVE  NoFalseAlarm'
  OBVIOUS
<1>t. TypeOK /\ ClockInv /\ ConverterInv /\ NoFalseAlarm
  BY DEF Inv
<1> USE DEF NoFalseAlarm, task, clock, converter
<1>1. ASSUME NEW n \in 0 .. MaxIterations, TakeCommand(n) PROVE NoFalseAlarm'
  BY <1>1 DEF TakeCommand
<1>2. CASE TimerStart \/ TimerSleep \/ HeldUp
  BY <1>t, <1>2 DEF TimerStart, TimerSleep, HeldUp
<1>3. CASE TimerEnd
  <2>1. pc' = "respond" /\ counts => late > Tolerance
    BY <1>t, <1>3, ElapsedKnown
  <2>2. UNCHANGED <<kind, counts, late>> /\ kind = "timer"
    BY <1>t, <1>3 DEF TimerEnd, TimerCompare, ClockInv
  <2>3. QED
    BY <2>1, <2>2
<1>4. CASE Pass \/ Respond \/ Idle
  BY <1>t, <1>4 DEF Pass, Respond, Idle, vars
<1>5. CASE DacStart \/ AdcIteration \/ SetLevel \/ AdcStart \/ GiveUp
  BY <1>t, <1>5 DEF DacStart, AdcIteration, SetLevel, AdcStart, HalFails, Fail, GiveUp,
     ConverterInv, Converting, Polling
<1>6. CASE PollFlag \/ PollTime \/ PollAgain
  BY <1>6 DEF PollFlag, PollTime, PollAgain, Goto
<1>7. CASE Compare
  BY <1>t, <1>7 DEF Compare, CompareUpTo, Fail, ConverterInv, Converting, Polling
<1>8. CASE Convert \/ AdcTick
  <2>1. fault => fault'
    BY <1>8 DEF Convert, AdcTick
  <2>2. UNCHANGED <<kind, pc, result, counts, late>>
    BY <1>8 DEF Convert, AdcTick
  <2>3. QED
    BY <1>t, <2>1, <2>2
<1>9. QED
  BY <1>1, <1>2, <1>3, <1>4, <1>5, <1>6, <1>7, <1>8
     DEF Next, TestStep, TimerStep, AdcStep

\* The invariant holds in every reachable state.
THEOREM Invariant == Spec => []Inv
<1>1. Inv /\ [Next]_vars => Inv'
  <2> SUFFICES ASSUME Inv, [Next]_vars
               PROVE  Inv'
    OBVIOUS
  <2>1. CASE Next
    BY <2>1, TypeStep, ClockStep, ConverterStep, ProgressStep, AlarmStep DEF Inv
  <2>2. CASE UNCHANGED vars
    BY <2>2 DEF Inv, vars, task, clock, converter, TypeOK, ClockInv, ConverterInv,
       ConverterStopped, ProgressInv, Measurements, NoFalseAlarm
  <2>3. QED
    BY <2>1, <2>2
<1>2. QED
  BY <1>1, Initially, PTL DEF Spec

\* The state of the measuring tests is well-typed for any constants.
THEOREM TypeCorrect == Spec => []TypeOK
<1>1. Inv => TypeOK
  BY DEF Inv
<1>2. QED
  BY <1>1, Invariant, PTL

\* A test that succeeds has made a good measurement each time.
THEOREM PassCorrect == Spec => []PassMeansMeasured
<1>1. Inv => PassMeansMeasured
  <2> SUFFICES ASSUME Inv, pc = "respond", result = "SUCCESS"
               PROVE  (0 .. iterations - 1) \X Measurements \subseteq measured
    BY DEF PassMeansMeasured
  <2>1. iteration \in Nat /\ iterations \in Nat /\ iteration >= iterations
    BY MeasuringAssumption DEF Inv, TypeOK, ProgressInv
  <2>2. 0 .. iterations - 1 \subseteq 0 .. iteration - 1
    BY <2>1
  <2>3. QED
    BY <2>2 DEF Inv, ProgressInv
<1>2. QED
  BY <1>1, Invariant, PTL

\* A test that fails has a reason: a fault, or a delay that others caused.
THEOREM FailCorrect == Spec => []NoFalseAlarm
<1>1. Inv => NoFalseAlarm
  BY DEF Inv
<1>2. QED
  BY <1>1, Invariant, PTL

\* No conversion starts on a converter that is still busy.
THEOREM StoppedAtStart == Spec => []ConverterStopped
<1>1. Inv => ConverterStopped
  BY DEF Inv, ConverterInv
<1>2. QED
  BY <1>1, Invariant, PTL
-----------------------------------------------------------------------------
(* How long a test can take *)

\* Steps of the ADC task for one level, the ticks of the time-out included, and
\* for n levels and n iterations.  An iteration of the timer test has three.
StepsPerLevel == AdcTimeout + 8
LevelsOf(n) == n * StepsPerLevel
StepsPerIteration == LevelsOf(Len(Levels)) + 1
IterationsOf(n) == n * StepsPerIteration

TicksLeft == AdcTimeout + 1 - waited

\* The task polls for a conversion that has neither ended nor timed out.
Awaiting == pc \in {"poll", "time"} /\ adc = "converting" /\ TicksLeft > 0

LevelLeft == CASE pc = "level"                     -> StepsPerLevel
               [] pc = "start"                     -> StepsPerLevel - 1
               [] Awaiting                         -> TicksLeft + 5
               [] pc = "poll" /\ adc # "converting" -> 2
               [] pc = "poll" /\ adc = "converting" /\ TicksLeft = 0 -> 5
               [] pc = "time" /\ ~Awaiting         -> 4
               [] pc = "again"                     -> 3
               [] OTHER                            -> 1

LaterIterations == iterations - iteration - 1
LaterLevels == Len(Levels) - index

\* An upper bound of the steps before the task responds, of the task and of
\* the tick while the task awaits a conversion.
StepsLeft ==
    CASE pc = "dac" -> IterationsOf(iterations) + 2
      [] pc = "loop" /\ kind = "adc" -> IterationsOf(iterations - iteration) + 1
      [] pc \in Polling \cup {"level", "start", "value"} ->
           IterationsOf(LaterIterations) + 1 + LevelsOf(LaterLevels) + LevelLeft
      [] pc = "stop" -> 1
      [] pc = "loop" /\ kind = "timer" -> 3 * (iterations - iteration) + 1
      [] pc = "sleep" -> 3 * LaterIterations + 3
      [] pc = "end" -> 3 * LaterIterations + 2
      [] OTHER -> 0

\* Each step of the task takes it nearer to its response, but for the polls of
\* a conversion that has not ended, and there each tick does.
TestIsBounded ==
    [][pc \notin {"wait", "respond"} =>
         /\ StepsLeft' <= StepsLeft
         /\ TestStep => StepsLeft' < StepsLeft \/ Awaiting
         /\ AdcTick /\ Awaiting => StepsLeft' < StepsLeft]_vars

LEMMA LevelProduct ==
    /\ StepsPerLevel \in Nat
    /\ \A n \in Nat : LevelsOf(n) \in Nat /\ LevelsOf(n + 1) = LevelsOf(n) + StepsPerLevel
<1>1. StepsPerLevel \in Nat
  BY MeasuringAssumption DEF StepsPerLevel
<1>2. \A n, k \in Nat : n * k \in Nat /\ (n + 1) * k = n * k + k
  OBVIOUS
<1>3. QED
  BY <1>1, <1>2 DEF LevelsOf

LEMMA IterationProduct ==
    /\ StepsPerIteration \in Nat
    /\ \A n \in Nat : /\ IterationsOf(n) \in Nat
                     /\ IterationsOf(n + 1) = IterationsOf(n) + StepsPerIteration
<1>1. StepsPerIteration \in Nat
  <2>1. LevelsOf(Len(Levels)) \in Nat
    BY LevelProduct, LevelTypes
  <2>2. QED
    BY <2>1 DEF StepsPerIteration
<1>2. \A n, k \in Nat : n * k \in Nat /\ (n + 1) * k = n * k + k
  OBVIOUS
<1>3. QED
  BY <1>1, <1>2 DEF IterationsOf

\* The numbers the bound is made of.
LEMMA PartsTyped ==
    Inv => /\ iterations \in Nat /\ iteration \in Nat /\ iterations - iteration \in Nat
           /\ IterationsOf(iterations) \in Nat
           /\ IterationsOf(iterations - iteration) \in Nat
           /\ LaterLevels \in Nat /\ LevelsOf(LaterLevels) \in Nat
           /\ LevelLeft \in Nat /\ LevelLeft > 0
           /\ pc \in Measuring => /\ LaterIterations \in Nat
                                 /\ IterationsOf(LaterIterations) \in Nat
<1> SUFFICES ASSUME Inv
             PROVE  /\ iterations \in Nat /\ iteration \in Nat /\ iterations - iteration \in Nat
                    /\ IterationsOf(iterations) \in Nat
                    /\ IterationsOf(iterations - iteration) \in Nat
                    /\ LaterLevels \in Nat /\ LevelsOf(LaterLevels) \in Nat
                    /\ LevelLeft \in Nat /\ LevelLeft > 0
                    /\ pc \in Measuring => /\ LaterIterations \in Nat
                                          /\ IterationsOf(LaterIterations) \in Nat
  OBVIOUS
<1>1. /\ iterations \in Nat /\ iteration \in Nat /\ iteration <= iterations
      /\ index \in 1 .. Len(Levels) /\ waited \in 0 .. AdcTimeout + 1
      /\ AdcTimeout \in Nat
  BY MeasuringAssumption DEF Inv, TypeOK
<1>2. iterations - iteration \in Nat /\ LaterLevels \in Nat
  BY <1>1, LevelTypes DEF LaterLevels
<1>3. pc \in Measuring => LaterIterations \in Nat
  BY <1>1 DEF Inv, ProgressInv, LaterIterations
<1>4. LevelLeft \in Nat /\ LevelLeft > 0
  BY <1>1 DEF LevelLeft, StepsPerLevel, Awaiting, TicksLeft
<1>5. QED
  BY <1>1, <1>2, <1>3, <1>4, LevelProduct, IterationProduct

\* The bound, label by label.
LEMMA LabelCounts ==
    /\ pc = "dac" => StepsLeft = IterationsOf(iterations) + 2
    /\ pc = "loop" /\ kind = "adc" => StepsLeft = IterationsOf(iterations - iteration) + 1
    /\ pc \in Polling \cup {"level", "start", "value"} =>
         StepsLeft = IterationsOf(LaterIterations) + 1 + LevelsOf(LaterLevels) + LevelLeft
    /\ pc = "stop" => StepsLeft = 1
    /\ pc = "loop" /\ kind = "timer" => StepsLeft = 3 * (iterations - iteration) + 1
    /\ pc = "sleep" => StepsLeft = 3 * LaterIterations + 3
    /\ pc = "end" => StepsLeft = 3 * LaterIterations + 2
    /\ pc \in {"wait", "respond"} => StepsLeft = 0
  BY DEF StepsLeft, Polling

LEMMA LabelCountsNext ==
    (/\ pc = "dac" => StepsLeft = IterationsOf(iterations) + 2
     /\ pc = "loop" /\ kind = "adc" => StepsLeft = IterationsOf(iterations - iteration) + 1
     /\ pc \in Polling \cup {"level", "start", "value"} =>
          StepsLeft = IterationsOf(LaterIterations) + 1 + LevelsOf(LaterLevels) + LevelLeft
     /\ pc = "stop" => StepsLeft = 1
     /\ pc = "loop" /\ kind = "timer" => StepsLeft = 3 * (iterations - iteration) + 1
     /\ pc = "sleep" => StepsLeft = 3 * LaterIterations + 3
     /\ pc = "end" => StepsLeft = 3 * LaterIterations + 2
     /\ pc \in {"wait", "respond"} => StepsLeft = 0)'
  BY LabelCounts, PTL

\* The bound is a number, and positive until the task responds.
LEMMA StepsTyped == Inv => /\ StepsLeft \in Nat
                           /\ pc \notin {"wait", "respond"} => StepsLeft > 0
<1> SUFFICES ASSUME Inv
             PROVE  /\ StepsLeft \in Nat
                    /\ pc \notin {"wait", "respond"} => StepsLeft > 0
  OBVIOUS
<1>1. kind \in {"timer", "adc"}
  BY MeasuringAssumption DEF Inv, TypeOK
<1>2. CASE pc \in Polling \cup {"level", "start", "value"}
  <2>1. pc \in Measuring
    BY <1>2 DEF Measuring, Converting
  <2>2. QED
    BY <1>2, <2>1, PartsTyped, LabelCounts
<1>3. CASE pc \in {"sleep", "end"}
  <2>1. pc \in Measuring
    BY <1>3 DEF Measuring
  <2>2. QED
    BY <1>3, <2>1, PartsTyped, LabelCounts
<1>4. CASE pc \in {"wait", "dac", "loop", "stop", "respond"}
  BY <1>1, <1>4, PartsTyped, LabelCounts
<1>5. QED
  BY <1>2, <1>3, <1>4 DEF Inv, TypeOK, Polling

\* Within an iteration of the ADC test: the next level, the end of the last one,
\* a step within a level.
LEMMA LevelCounts ==
    ASSUME Inv, Inv', pc \in Polling \cup {"level", "start", "value"},
           UNCHANGED iterations,
           \/ /\ pc' = "level" /\ index' = index + 1 /\ iteration' = iteration
           \/ /\ pc' = "loop" /\ kind' = "adc" /\ iteration' = iteration + 1
           \/ /\ pc' \in Polling \cup {"level", "start", "value"}
              /\ UNCHANGED <<index, iteration>> /\ LevelLeft' < LevelLeft
           \/ /\ pc' = "stop" /\ LevelLeft >= 2
           \/ pc' = "respond"
    PROVE  StepsLeft' < StepsLeft
<1>1. /\ IterationsOf(LaterIterations) \in Nat
      /\ LevelsOf(LaterLevels) \in Nat /\ LevelLeft \in Nat /\ LevelLeft > 0
      /\ iterations \in Nat /\ iteration \in Nat
  BY PartsTyped DEF Measuring, Converting
<1>2. StepsLeft = IterationsOf(LaterIterations) + 1 + LevelsOf(LaterLevels) + LevelLeft
  BY LabelCounts
<1>3. (/\ LaterLevels \in Nat /\ LevelsOf(LaterLevels) \in Nat /\ LevelLeft \in Nat)'
  <2>1. (Inv => /\ LaterLevels \in Nat /\ LevelsOf(LaterLevels) \in Nat
                /\ LevelLeft \in Nat)'
    BY PartsTyped, PTL
  <2>2. QED
    BY <2>1
<1>4. CASE pc' = "level" /\ index' = index + 1 /\ iteration' = iteration
  <2>1. LaterLevels = LaterLevels' + 1 /\ LaterIterations' = LaterIterations
    <3>1. index \in Nat /\ Len(Levels) \in Nat
      BY LevelTypes DEF Inv, TypeOK
    <3>2. QED
      BY <1>4, <3>1 DEF LaterLevels, LaterIterations
  <2>2. LevelsOf(LaterLevels) = LevelsOf(LaterLevels') + StepsPerLevel
    BY <1>3, <2>1, LevelProduct
  <2>3. LevelLeft' = StepsPerLevel
    BY <1>4 DEF LevelLeft, Awaiting
  <2>4. StepsLeft' = IterationsOf(LaterIterations) + 1 + LevelsOf(LaterLevels') + StepsPerLevel
    BY <1>4, <2>1, <2>3, LabelCountsNext DEF LevelsOf, LaterLevels
  <2>5. LevelsOf(LaterLevels') \in Nat /\ StepsPerLevel \in Nat
    BY <1>3, LevelProduct
  <2>6. QED
    BY <1>1, <1>2, <2>2, <2>4, <2>5
<1>5. CASE pc' = "loop" /\ kind' = "adc" /\ iteration' = iteration + 1
  <2>1. iterations' - iteration' = LaterIterations
    BY <1>1, <1>5 DEF LaterIterations
  <2>2. StepsLeft' = IterationsOf(LaterIterations) + 1
    BY <1>5, <2>1, LabelCountsNext
  <2>3. QED
    BY <1>1, <1>2, <2>2
<1>6. CASE /\ pc' \in Polling \cup {"level", "start", "value"}
           /\ UNCHANGED <<index, iteration>> /\ LevelLeft' < LevelLeft
  <2>1. LaterLevels' = LaterLevels /\ LaterIterations' = LaterIterations
    BY <1>6 DEF LaterLevels, LaterIterations
  <2>2. StepsLeft' = IterationsOf(LaterIterations) + 1 + LevelsOf(LaterLevels) + LevelLeft'
    BY <1>6, <2>1, LabelCountsNext
  <2>3. QED
    BY <1>1, <1>2, <1>3, <1>6, <2>2
<1>7. CASE pc' = "stop" /\ LevelLeft >= 2
  <2>1. StepsLeft' = 1
    BY <1>7, LabelCountsNext
  <2>2. QED
    BY <1>1, <1>2, <1>7, <2>1
<1>8. CASE pc' = "respond"
  <2>1. StepsLeft' = 0
    BY <1>8, LabelCountsNext
  <2>2. QED
    BY <1>1, <1>2, <2>1
<1>9. QED
  BY <1>4, <1>5, <1>6, <1>7, <1>8

LEMMA AdcStepCounts ==
    ASSUME Inv, Inv', AdcStep
    PROVE  StepsLeft' < StepsLeft \/ (Awaiting /\ StepsLeft' <= StepsLeft)
<1> USE DEF Goto, HalFails, Fail, task, clock, converter
<1>t. /\ waited \in 0 .. AdcTimeout + 1 /\ AdcTimeout \in Nat
      /\ adc \in {"stopped", "converting", "done"}
  BY MeasuringAssumption DEF Inv, TypeOK
<1>1. CASE DacStart
  <2>1. StepsLeft = IterationsOf(iterations) + 2 /\ IterationsOf(iterations) \in Nat
    BY <1>1, PartsTyped, LabelCounts DEF DacStart
  <2>2. CASE pc' = "respond"
    BY <2>1, <2>2, LabelCountsNext
  <2>3. CASE pc' = "loop"
    <3>1. kind = "adc" /\ UNCHANGED <<kind, iterations, iteration>>
      BY <1>1, <2>3 DEF DacStart, Inv, ConverterInv
    <3>2. StepsLeft' = IterationsOf(iterations - iteration) + 1
      BY <2>3, <3>1, LabelCountsNext
    <3>3. PICK d \in Nat : iterations = (iterations - iteration) + d
      BY PartsTyped
    <3>4. IterationsOf(iterations - iteration) <= IterationsOf(iterations)
      <4>1. iterations - iteration \in Nat /\ iterations \in Nat /\ StepsPerIteration \in Nat
        BY PartsTyped, IterationProduct
      <4>2. \A a, b, k \in Nat : a * k <= (a + b) * k
        OBVIOUS
      <4>3. QED
        BY <3>3, <4>1, <4>2 DEF IterationsOf
    <3>5. IterationsOf(iterations - iteration) \in Nat
      BY PartsTyped
    <3>6. QED
      BY <2>1, <3>2, <3>4, <3>5
  <2>4. QED
    BY <1>1, <2>2, <2>3 DEF DacStart
<1>2. CASE AdcIteration
  <2>1. /\ pc = "loop" /\ pc' = "level" /\ kind = "adc" /\ index' = 1
        /\ UNCHANGED <<kind, iterations, iteration>> /\ iteration < iterations
    BY <1>2 DEF AdcIteration
  <2>2. LaterIterations \in Nat /\ iterations - iteration = LaterIterations + 1
    BY <2>1, PartsTyped DEF LaterIterations
  <2>3. /\ StepsLeft = IterationsOf(iterations - iteration) + 1
        /\ IterationsOf(iterations - iteration) =
             IterationsOf(LaterIterations) + StepsPerIteration
    BY <2>1, <2>2, LabelCounts, IterationProduct
  <2>4. StepsLeft' = IterationsOf(LaterIterations) + 1 + LevelsOf(Len(Levels) - 1)
                       + StepsPerLevel
    BY <2>1, LabelCountsNext DEF LaterIterations, LaterLevels, LevelLeft, Awaiting
  <2>5. /\ LevelsOf(Len(Levels)) = LevelsOf(Len(Levels) - 1) + StepsPerLevel
        /\ LevelsOf(Len(Levels) - 1) \in Nat /\ StepsPerLevel \in Nat
    <3>1. Len(Levels) - 1 \in Nat /\ (Len(Levels) - 1) + 1 = Len(Levels)
      BY LevelTypes
    <3>2. QED
      BY <3>1, LevelProduct
  <2>6. IterationsOf(LaterIterations) \in Nat
    BY <2>2, IterationProduct
  <2>7. QED
    BY <2>3, <2>4, <2>5, <2>6 DEF StepsPerIteration
<1>3. CASE SetLevel
  <2>1. /\ pc = "level" /\ pc' \in {"start", "respond"}
        /\ UNCHANGED <<iterations, iteration, index>>
    BY <1>3 DEF SetLevel
  <2>2. pc' = "start" => LevelLeft' < LevelLeft
    BY <2>1, LevelProduct DEF LevelLeft, Awaiting
  <2>3. QED
    BY <2>1, <2>2, LevelCounts
<1>4. CASE AdcStart
  <2>1. /\ pc = "start" /\ pc' \in {"poll", "respond"}
        /\ UNCHANGED <<iterations, iteration, index>>
    BY <1>4 DEF AdcStart
  <2>2. pc' = "poll" => LevelLeft' < LevelLeft
    BY <1>4, <1>t, <2>1 DEF AdcStart, LevelLeft, Awaiting, TicksLeft, StepsPerLevel
  <2>3. QED
    BY <2>1, <2>2, LevelCounts DEF Polling
<1>5. CASE PollFlag \/ PollTime \/ PollAgain
  <2>1. /\ pc \in Polling
        /\ UNCHANGED <<iterations, iteration, index, adc, waited>>
        /\ pc' \in Polling \cup {"value", "stop"}
    BY <1>5 DEF PollFlag, PollTime, PollAgain, Polling
  <2>2. CASE Awaiting
    <3>1. pc' \in {"poll", "time"}
      BY <1>5, <1>t, <2>2 DEF PollFlag, PollTime, PollAgain, Awaiting, TicksLeft
    <3>2. LevelLeft' = LevelLeft
      BY <1>t, <2>1, <2>2, <3>1 DEF LevelLeft, Awaiting, TicksLeft
    <3>3. StepsLeft' = StepsLeft
      BY <2>1, <2>2, <3>1, <3>2, LabelCounts, LabelCountsNext
         DEF LaterIterations, LaterLevels, Polling, Awaiting
    <3>4. QED
      BY <2>2, <3>3, StepsTyped
  <2>3. CASE ~Awaiting
    <3>0. adc \in {"converting", "done"} /\ (pc = "again" => waited > AdcTimeout)
      BY <1>t, <2>1 DEF Inv, ConverterInv
    <3>1. pc' # "stop" => LevelLeft' < LevelLeft
      BY <1>5, <1>t, <2>1, <2>3, <3>0 DEF PollFlag, PollTime, PollAgain, LevelLeft, Awaiting, TicksLeft
    <3>2. pc' = "stop" => LevelLeft >= 2
      BY <1>5, <1>t, <2>3 DEF PollFlag, PollTime, PollAgain, LevelLeft, Awaiting, TicksLeft
    <3>3. QED
      BY <2>1, <3>1, <3>2, LevelCounts DEF Polling
  <2>4. QED
    BY <2>2, <2>3
<1>6. CASE GiveUp
  BY <1>6, LabelCounts, LabelCountsNext DEF GiveUp
<1>7. CASE Compare
  <2>1. /\ pc = "value" /\ UNCHANGED iterations
        /\ \/ pc' = "level" /\ index' = index + 1 /\ iteration' = iteration
           \/ pc' = "loop" /\ kind' = kind /\ iteration' = iteration + 1
           \/ pc' = "respond"
    BY <1>7 DEF Compare, CompareUpTo
  <2>2. kind = "adc"
    BY <2>1 DEF Inv, ConverterInv, Converting
  <2>3. QED
    BY <2>1, <2>2, LevelCounts
<1>8. QED
  BY <1>1, <1>2, <1>3, <1>4, <1>5, <1>6, <1>7 DEF AdcStep

LEMMA TimerStepCounts ==
    ASSUME Inv, Inv', TimerStep
    PROVE  StepsLeft' < StepsLeft
<1> USE DEF Fail, task, clock, converter
<1>1. iterations \in Nat /\ iteration \in Nat
  BY PartsTyped
<1>2. CASE TimerStart
  <2>1. /\ pc = "loop" /\ kind = "timer" /\ pc' = "sleep"
        /\ UNCHANGED <<iterations, iteration>> /\ iteration < iterations
    BY <1>2 DEF TimerStart
  <2>2. /\ StepsLeft = 3 * (iterations - iteration) + 1
        /\ StepsLeft' = 3 * (iterations - iteration - 1) + 3
    BY <2>1, LabelCounts, LabelCountsNext DEF LaterIterations
  <2>3. QED
    BY <1>1, <2>2
<1>3. CASE TimerSleep
  <2>1. pc = "sleep" /\ pc' = "end" /\ UNCHANGED <<iterations, iteration>>
    BY <1>3 DEF TimerSleep
  <2>2. /\ StepsLeft = 3 * (iterations - iteration - 1) + 3
        /\ StepsLeft' = 3 * (iterations - iteration - 1) + 2
    BY <2>1, LabelCounts, LabelCountsNext DEF LaterIterations
  <2>3. QED
    BY <1>1, <2>2
<1>4. CASE TimerEnd
  <2>1. /\ pc = "end" /\ UNCHANGED <<kind, iterations>>
        /\ \/ pc' = "loop" /\ iteration' = iteration + 1
           \/ pc' = "respond"
    BY <1>4 DEF TimerEnd, TimerCompare
  <2>2. kind = "timer" /\ iteration < iterations
    BY <2>1 DEF Inv, ClockInv, ProgressInv, Measuring
  <2>3. StepsLeft = 3 * (iterations - iteration - 1) + 2
    BY <2>1, LabelCounts DEF LaterIterations
  <2>4. StepsLeft' \in {3 * (iterations - (iteration + 1)) + 1, 0}
    BY <2>1, <2>2, LabelCountsNext
  <2>5. QED
    BY <1>1, <2>2, <2>3, <2>4
<1>5. QED
  BY <1>2, <1>3, <1>4 DEF TimerStep

\* The environment never moves a task away from its response, and a tick moves
\* it nearer while it awaits a conversion.
LEMMA EnvironmentCounts ==
    ASSUME Inv, HeldUp \/ Convert \/ AdcTick
    PROVE  /\ StepsLeft' <= StepsLeft
           /\ AdcTick /\ Awaiting => StepsLeft' < StepsLeft
<1> USE DEF task, clock, converter
<1>t. /\ waited \in 0 .. AdcTimeout + 1 /\ AdcTimeout \in Nat
      /\ adc \in {"stopped", "converting", "done"}
      /\ StepsLeft \in Nat
  BY MeasuringAssumption, StepsTyped DEF Inv, TypeOK
<1>s. UNCHANGED <<kind, pc, iterations, iteration, index>>
  BY DEF HeldUp, Convert, AdcTick
<1>u. UNCHANGED <<LaterIterations, LaterLevels>>
  BY <1>s DEF LaterIterations, LaterLevels
<1>1. CASE pc \in Polling
  <2>1. /\ LevelLeft' <= LevelLeft
        /\ AdcTick /\ Awaiting => LevelLeft' < LevelLeft
        /\ LevelLeft' \in Nat
    <3>1. CASE HeldUp
      BY <1>1, <3>1 DEF HeldUp, Polling
    <3>2. CASE Convert
      BY <1>1, <1>t, <3>2 DEF Convert, AdcTick, LevelLeft, Awaiting, TicksLeft, Polling
    <3>3. CASE AdcTick
      BY <1>1, <1>t, <3>3 DEF AdcTick, LevelLeft, Awaiting, TicksLeft, Polling
    <3>4. QED
      BY <3>1, <3>2, <3>3
  <2>2. /\ StepsLeft = IterationsOf(LaterIterations) + 1 + LevelsOf(LaterLevels) + LevelLeft
        /\ StepsLeft' = IterationsOf(LaterIterations) + 1 + LevelsOf(LaterLevels) + LevelLeft'
    BY <1>1, <1>s, <1>u, LabelCounts, LabelCountsNext
  <2>3. /\ IterationsOf(LaterIterations) \in Nat /\ LevelsOf(LaterLevels) \in Nat
        /\ LevelLeft \in Nat
    BY <1>1, PartsTyped DEF Measuring, Converting
  <2>4. QED
    BY <2>1, <2>2, <2>3
<1>2. CASE pc \notin Polling
  <2>1. ~Awaiting
    BY <1>2 DEF Awaiting, Polling
  <2>2. pc \in {"level", "start", "value"} => LevelLeft' = LevelLeft
    BY <1>2, <1>s DEF LevelLeft, Awaiting
  <2>3. pc \in {"level", "start", "value"} => StepsLeft' = StepsLeft
    BY <1>s, <1>u, <2>2, LabelCounts, LabelCountsNext
  <2>4. pc \notin {"level", "start", "value"} => StepsLeft' = StepsLeft
    BY <1>2, <1>s, <1>u DEF StepsLeft
  <2>5. QED
    BY <1>t, <2>1, <2>3, <2>4
<1>3. QED
  BY <1>1, <1>2

\* Whatever TIM2, the converter and the other tasks do, a test is answered after
\* at most StepsLeft steps of its task and ticks of the time-out, not
\* counting the polls that find a conversion still running.
THEOREM TestsAreBounded == Spec => [](StepsLeft \in Nat) /\ TestIsBounded
<1>1. ASSUME Inv, Inv', Next, pc \notin {"wait", "respond"}
      PROVE  /\ StepsLeft' <= StepsLeft
             /\ TestStep => StepsLeft' < StepsLeft \/ Awaiting
             /\ AdcTick /\ Awaiting => StepsLeft' < StepsLeft
  <2>1. StepsLeft \in Nat /\ StepsLeft > 0
    BY <1>1, StepsTyped
  <2>2. StepsLeft' \in Nat
    <3>1. (Inv => StepsLeft \in Nat)'
      BY StepsTyped, PTL
    <3>2. QED
      BY <1>1, <3>1
  <2>3. TimerStep => StepsLeft' < StepsLeft
    BY <1>1, TimerStepCounts
  <2>4. AdcStep => StepsLeft' < StepsLeft \/ (Awaiting /\ StepsLeft' <= StepsLeft)
    BY <1>1, AdcStepCounts
  <2>5. Pass => StepsLeft' = 0
    BY LabelCountsNext DEF Pass
  <2>6. HeldUp \/ Convert \/ AdcTick => StepsLeft' <= StepsLeft
    BY <1>1, EnvironmentCounts
  <2>e. AdcTick /\ Awaiting => StepsLeft' < StepsLeft
    BY <1>1, EnvironmentCounts
  <2>7. ~Respond /\ ~Idle /\ ~ \E n \in 0 .. MaxIterations : TakeCommand(n)
    BY <1>1 DEF Respond, Idle, TakeCommand
  <2>8. TestStep => StepsLeft' < StepsLeft \/ (Awaiting /\ StepsLeft' <= StepsLeft)
    BY <2>1, <2>3, <2>4, <2>5, <2>7 DEF TestStep
  <2>9. TestStep \/ HeldUp \/ Convert \/ AdcTick
    BY <1>1, <2>7 DEF Next
  <2>10. StepsLeft' <= StepsLeft
    <3>1. StepsLeft' < StepsLeft => StepsLeft' <= StepsLeft
      BY <2>1, <2>2
    <3>2. TestStep => StepsLeft' <= StepsLeft
      BY <2>8, <3>1
    <3>3. HeldUp \/ Convert \/ AdcTick => StepsLeft' <= StepsLeft
      BY <2>6
    <3>4. QED
      BY <2>9, <3>2, <3>3
  <2>11. QED
    BY <2>e, <2>8, <2>10
<1>2. Inv /\ Inv' /\ [Next]_vars
        => [pc \notin {"wait", "respond"} =>
              /\ StepsLeft' <= StepsLeft
              /\ TestStep => StepsLeft' < StepsLeft \/ Awaiting
              /\ AdcTick /\ Awaiting => StepsLeft' < StepsLeft]_vars
  BY <1>1
<1>3. QED
  BY <1>2, StepsTyped, Invariant, PTL DEF Spec, TestIsBounded
=============================================================================
