--------------------------- MODULE LoopbackProofs ---------------------------
(***************************************************************************)
(* For any patterns, time-out and bounds, a UART, SPI or I2C test succeeds *)
(* only if the wire has carried the data of each of its transfers, starts  *)
(* no transfer on a peripheral that is still active, fails only for a      *)
(* reason of its own last transfer, and makes a bounded number of steps.   *)
(* A UART test that stops the firmware is never answered.                  *)
(***************************************************************************)
EXTENDS LoopbackTransfer, TLAPS

Waiting == {"second", "poll", "error", "time", "delay"}
Transferring == Waiting \cup {"begin", "first", "compare"}
Aborting == {"abort", "abort_first", "clear"}

\* An abort has stopped one side, then both.
HalInv == /\ StartsOnIdleHal
          /\ pc = "abort_first" => hal[SecondSide(direction)] = "idle"
          /\ pc = "clear" => \A side \in Sides : hal[side] = "idle"

\* A completion flag of this direction is set only after its side was started
\* in this transfer and has completed.
FlagInv == /\ pc = "first" => \A side \in Sides : DoneFlag(direction, side) \notin flags
           /\ pc = "second" => DoneFlag(direction, SecondSide(direction)) \notin flags
           /\ pc \in Waiting => \A side \in Sides :
                DoneFlag(direction, side) \in flags => hal[side] = "idle"
           /\ pc = "compare" => \A side \in Sides : DoneFlag(direction, side) \in flags

\* What a receiver that has completed holds, and what is being sent back.
DataInv ==
    /\ pc \in Waiting \cup {"compare"}
         /\ DoneFlag(direction, Receiver(direction)) \in flags =>
            \/ /\ buffer[Receiver(direction)] = command.pattern
               /\ <<iteration, direction>> \in carried
            \/ /\ buffer[Receiver(direction)] = Garbage
               /\ trouble
    /\ pc \in Transferring /\ direction = "back" =>
            /\ buffer["b"] = command.pattern
            /\ <<iteration, "there">> \in carried

\* The iterations that are behind the task were carried in both directions.
ProgressInv == /\ \A i \in 0 .. iteration - 1, d \in Directions : <<i, d>> \in carried
               /\ pc \in Transferring => iteration < command.iterations
               /\ pc = "respond" /\ result = "SUCCESS" => iteration >= command.iterations
               /\ pc \notin {"respond", "wait"} => result = "none"
               /\ pc # "wait" => tests < MaxTests

\* The reasons for which a transfer may be failing.
TroubleInv == /\ pc \in Transferring \ {"begin"} /\ "error" \in flags => trouble
              /\ pc \in Aborting => trouble \/ elapsed > Timeout
              /\ NoFalseAlarm

Inv == TypeOK /\ HalInv /\ FlagInv /\ DataInv /\ ProgressInv /\ TroubleInv

\* The initial states satisfy the invariant.
THEOREM Initially == Init => Inv
<1> SUFFICES ASSUME Init
             PROVE  Inv
  OBVIOUS
<1>1. TypeOK
  <2>1. 0 \in 0 .. command.iterations /\ 0 \in 0 .. MaxTests /\ 0 \in 0 .. Timeout + 1
    BY TransferAssumption DEF Init, Commands
  <2>2. hal \in [Sides -> {"idle", "busy"}] /\ buffer \in [Sides -> Patterns \cup {Garbage}]
    BY DEF Init
  <2>3. QED
    BY <2>1, <2>2 DEF Init, TypeOK, Directions
<1>2. HalInv /\ FlagInv /\ DataInv /\ ProgressInv /\ TroubleInv
  BY DEF Init, HalInv, FlagInv, DataInv, ProgressInv, TroubleInv,
     StartsOnIdleHal, NoFalseAlarm, Sides, Waiting, Transferring, Aborting
<1>3. QED
  BY <1>1, <1>2 DEF Inv

\* The two sides of a transfer, whichever is started first.
LEMMA TwoSides ==
    ASSUME NEW d \in Directions
    PROVE  /\ Sender(d) \in Sides /\ Receiver(d) \in Sides
           /\ FirstSide(d) \in Sides /\ SecondSide(d) \in Sides
           /\ Sender(d) # Receiver(d) /\ FirstSide(d) # SecondSide(d)
  BY DEF Sender, Receiver, FirstSide, SecondSide, Other, Sides, Directions

\* The flags of the two sides differ from each other and from the error flag.
LEMMA TwoFlags ==
    ASSUME bus \in {"uart", "spi", "i2c"}, NEW d \in Directions, NEW s \in Sides
    PROVE  /\ DoneFlag(d, s) \in Flags \ {"error"}
           /\ \A t \in Sides : DoneFlag(d, s) = DoneFlag(d, t) => s = t
<1>1. CASE bus = "uart"
  BY <1>1 DEF DoneFlag, UartFlag, Sender, Sides, Directions, Flags
<1>2. CASE bus = "spi"
  BY <1>2 DEF DoneFlag, SpiFlag, Sides, Directions, Flags
<1>3. CASE bus = "i2c"
  BY <1>3 DEF DoneFlag, I2cFlag, Sender, Sides, Directions, Flags
<1>4. QED
  BY <1>1, <1>2, <1>3

\* Each step keeps the types.
LEMMA TypeStep == Inv /\ Next => TypeOK'
<1> SUFFICES ASSUME Inv, Next
             PROVE  TypeOK'
  OBVIOUS
<1> USE TransferAssumption DEF TypeOK, run, place, history
<1>t. TypeOK
  BY DEF Inv
<1>c. command.iterations \in Nat /\ command.iterations <= MaxIterations
  BY <1>t DEF Commands
<1>1. ASSUME NEW c \in Commands, TakeCommand(c) PROVE TypeOK'
  BY <1>t, <1>1 DEF TakeCommand, Commands
<1>2. CASE NextIteration \/ Pass \/ CompareDifferent
  BY <1>t, <1>2, <1>c DEF NextIteration, Pass, CompareDifferent, Directions
<1>3. CASE CompareEqual
  BY <1>t, <1>3, <1>c DEF CompareEqual, Directions, Inv, ProgressInv, Transferring
<1>4. CASE Respond
  BY <1>t, <1>4, <1>c DEF Respond, Inv, ProgressInv
<1>5. CASE Begin \/ AbortClear
  BY <1>t, <1>5 DEF Begin, BeginClearing, AbortClear
<1>6. CASE StartFirst
  BY <1>t, <1>6 DEF StartFirst, HalStart, HalStartFails
<1>7. CASE StartSecond
  <2>1. 0 \in 0 .. Timeout + 1
    BY TransferAssumption
  <2>2. hal' \in [Sides -> {"idle", "busy"}] /\ trouble' \in BOOLEAN
    BY <1>t, <1>7 DEF StartSecond, HalStart, HalStartFails
  <2>3. QED
    BY <1>t, <1>7, <2>1, <2>2 DEF StartSecond
<1>8. CASE PollDone \/ PollError \/ PollTime \/ Delay
  BY <1>t, <1>8 DEF PollDone, PollError, PollTime, Delay
<1>9. CASE AbortSecond \/ AbortFirst
  BY <1>t, <1>9 DEF AbortSecond, AbortFirst, HalStop
<1>10. CASE SenderComplete
  BY <1>t, <1>10, TwoSides, TwoFlags DEF SenderComplete
<1>11. CASE ReceiverComplete
  <2>1. Receiver(direction) \in Sides
    BY <1>t, TwoSides
  <2>2. flags' \subseteq Flags
    BY <1>t, <1>11, <2>1, TwoFlags DEF ReceiverComplete
  <2>3. Sent(direction) \in Patterns \cup {Garbage}
    BY <1>t DEF Sent, Commands, Sides
  <2>4. buffer' \in [Sides -> Patterns \cup {Garbage}]
    BY <1>t, <1>11, <2>3 DEF ReceiverComplete
  <2>5. carried' \subseteq (0 .. MaxIterations) \X Directions
    BY <1>t, <1>c, <1>11 DEF ReceiverComplete
  <2>6. QED
    BY <1>t, <1>11, <2>2, <2>4, <2>5 DEF ReceiverComplete
<1>12. ASSUME NEW side \in Sides, Fault(side) PROVE TypeOK'
  BY <1>t, <1>12 DEF Fault, ErrorCallback, HalStop, Flags
<1>13. CASE Idle
  BY <1>t, <1>13 DEF Idle, vars
<1>14. QED
  BY <1>1, <1>2, <1>3, <1>4, <1>5, <1>6, <1>7, <1>8, <1>9, <1>10, <1>11, <1>12,
     <1>13 DEF Next, TestStep, Interrupt

\* A step that leaves the bus and the direction alone leaves the flags it polls.
LEMMA SameFlags ==
    ASSUME UNCHANGED <<bus, direction>>
    PROVE  /\ \A side \in Sides : DoneFlag(direction, side)' = DoneFlag(direction, side)
           /\ Sender(direction)' = Sender(direction)
           /\ Receiver(direction)' = Receiver(direction)
           /\ FirstSide(direction)' = FirstSide(direction)
           /\ SecondSide(direction)' = SecondSide(direction)
  BY DEF DoneFlag, UartFlag, SpiFlag, I2cFlag, Sender, Receiver, FirstSide, SecondSide, Other

\* Each step keeps what is known of the HAL.
LEMMA HalStep == Inv /\ Next => HalInv'
<1> SUFFICES ASSUME Inv, Next
             PROVE  HalInv'
  OBVIOUS
<1> USE DEF HalInv, StartsOnIdleHal, run, place, history
<1>t. TypeOK /\ HalInv /\ FlagInv
  BY DEF Inv
<1>s. /\ FirstSide(direction) \in Sides /\ SecondSide(direction) \in Sides
      /\ FirstSide(direction) # SecondSide(direction)
      /\ \A side \in Sides : side = FirstSide(direction) \/ side = SecondSide(direction)
  BY <1>t, TwoSides DEF TypeOK, Sides
<1>1. ASSUME NEW c \in Commands, TakeCommand(c) PROVE HalInv'
  BY <1>t, <1>1 DEF TakeCommand
<1>2. CASE NextIteration \/ Pass \/ CompareEqual \/ CompareDifferent \/ Respond \/ Begin
  BY <1>t, <1>2 DEF NextIteration, Pass, CompareEqual, CompareDifferent, Respond, Begin,
     BeginClearing
<1>3. CASE StartFirst
  BY <1>t, <1>s, <1>3, SameFlags DEF StartFirst, HalStart, HalStartFails, TypeOK
<1>4. CASE StartSecond
  BY <1>t, <1>4 DEF StartSecond
<1>5. CASE PollDone
  BY <1>t, <1>5 DEF PollDone, FlagInv, Waiting, DoneFlags, Sides
<1>6. CASE PollError \/ PollTime \/ Delay
  BY <1>t, <1>6 DEF PollError, PollTime, Delay
<1>7. CASE AbortSecond
  BY <1>t, <1>s, <1>7, SameFlags DEF AbortSecond, HalStop, TypeOK
<1>8. CASE AbortFirst
  BY <1>t, <1>s, <1>8 DEF AbortFirst, HalStop, TypeOK
<1>9. CASE AbortClear
  BY <1>t, <1>9 DEF AbortClear
<1>10. CASE Interrupt
  <2>1. \A side \in Sides : hal[side] = "idle" => hal'[side] = "idle"
    BY <1>t, <1>10 DEF Interrupt, SenderComplete, ReceiverComplete, Fault, HalStop, TypeOK
  <2>2. UNCHANGED <<bus, direction>> /\ pc' \in {pc, "halted"}
    BY <1>10 DEF Interrupt, SenderComplete, ReceiverComplete, Fault, ErrorCallback
  <2>3. QED
    BY <1>t, <1>s, <2>1, <2>2, SameFlags
<1>11. CASE Idle
  BY <1>t, <1>11, SameFlags DEF Idle, vars
<1>12. QED
  BY <1>1, <1>2, <1>3, <1>4, <1>5, <1>6, <1>7, <1>8, <1>9, <1>10, <1>11 DEF Next, TestStep

\* An interrupt sets a completion flag only for a side that it finds active
\* and leaves idle; an idle side stays idle.
LEMMA InterruptFlags ==
    ASSUME TypeOK, Interrupt
    PROVE  /\ UNCHANGED <<bus, run, place, elapsed, result>>
           /\ pc' \in {pc, "halted"}
           /\ flags \subseteq flags'
           /\ \A side \in Sides :
                /\ hal[side] = "idle" => hal'[side] = "idle"
                /\ DoneFlag(direction, side) \in flags' \ flags =>
                      hal[side] = "busy" /\ hal'[side] = "idle"
<1> USE DEF TypeOK, run, place
<1>b. bus \in {"uart", "spi", "i2c"}
  BY TransferAssumption
<1>1. CASE SenderComplete
  BY <1>1, <1>b, TwoSides, TwoFlags DEF SenderComplete
<1>2. CASE ReceiverComplete
  BY <1>2, <1>b, TwoSides, TwoFlags DEF ReceiverComplete
<1>3. ASSUME NEW s \in Sides, Fault(s)
      PROVE  /\ UNCHANGED <<bus, run, place, elapsed, result>>
             /\ pc' \in {pc, "halted"}
             /\ flags' = flags \cup {"error"}
             /\ \A side \in Sides : hal[side] = "idle" => hal'[side] = "idle"
  BY <1>3 DEF Fault, HalStop, ErrorCallback
<1>4. QED
  BY <1>1, <1>2, <1>3, <1>b, TwoFlags DEF Interrupt

\* Each step keeps what is known of the flags.
LEMMA FlagStep == Inv /\ Next => FlagInv'
<1> SUFFICES ASSUME Inv, Next
             PROVE  FlagInv'
  OBVIOUS
<1> USE DEF FlagInv, Waiting, run, place, history
<1>t. TypeOK /\ HalInv /\ FlagInv
  BY DEF Inv
<1>s. /\ FirstSide(direction) # SecondSide(direction)
      /\ \A side \in Sides : side = FirstSide(direction) \/ side = SecondSide(direction)
      /\ SecondSide(direction) \in Sides
  BY <1>t, TwoSides DEF TypeOK, Sides
<1>1. ASSUME NEW c \in Commands, TakeCommand(c) PROVE FlagInv'
  BY <1>1 DEF TakeCommand
<1>2. CASE NextIteration \/ Pass \/ CompareEqual \/ CompareDifferent \/ Respond
  BY <1>2 DEF NextIteration, Pass, CompareEqual, CompareDifferent, Respond
<1>3. CASE Begin
  BY <1>3, SameFlags DEF Begin, BeginClearing, DoneFlags, Sides
<1>4. CASE StartFirst
  BY <1>t, <1>s, <1>4, SameFlags DEF StartFirst
<1>5. CASE StartSecond
  BY <1>t, <1>s, <1>5, SameFlags DEF StartSecond, HalStart, HalStartFails, TypeOK
<1>6. CASE PollDone
  BY <1>t, <1>6, SameFlags DEF PollDone, DoneFlags, Sides
<1>7. CASE PollError \/ PollTime \/ Delay
  BY <1>t, <1>7, SameFlags DEF PollError, PollTime, Delay
<1>8. CASE AbortSecond \/ AbortFirst \/ AbortClear
  BY <1>8 DEF AbortSecond, AbortFirst, AbortClear
<1>9. CASE Interrupt
  BY <1>t, <1>s, <1>9, InterruptFlags, SameFlags DEF HalInv, StartsOnIdleHal
<1>10. CASE Idle
  BY <1>t, <1>10, SameFlags DEF Idle, vars
<1>11. QED
  BY <1>1, <1>2, <1>3, <1>4, <1>5, <1>6, <1>7, <1>8, <1>9, <1>10 DEF Next, TestStep

\* Each step keeps the account of the iterations.
LEMMA ProgressStep == Inv /\ Next => ProgressInv'
<1> SUFFICES ASSUME Inv, Next
             PROVE  ProgressInv'
  OBVIOUS
<1> USE DEF ProgressInv, Transferring, Waiting, run, place, history
<1>t. TypeOK /\ HalInv /\ DataInv /\ FlagInv /\ ProgressInv
  BY DEF Inv
<1>n. iteration \in Nat /\ command.iterations \in Nat
  BY <1>t, TransferAssumption DEF TypeOK, Commands
<1>1. ASSUME NEW c \in Commands, TakeCommand(c) PROVE ProgressInv'
  BY <1>1 DEF TakeCommand
<1>2. CASE NextIteration \/ Pass \/ CompareDifferent \/ Begin
  BY <1>t, <1>n, <1>2 DEF NextIteration, Pass, CompareDifferent, Begin, BeginClearing
<1>3. CASE CompareEqual
  <2>1. <<iteration, direction>> \in carried
    BY <1>t, <1>3, TwoSides, TransferAssumption
       DEF CompareEqual, DataInv, FlagInv, TypeOK, Commands
  <2>2. CASE direction = "there" /\ direction' = "back"
    BY <1>t, <1>n, <1>3, <2>2 DEF CompareEqual
  <2>3. CASE direction = "back"
    <3>1. <<iteration, "there">> \in carried /\ iteration' = iteration + 1
      BY <1>t, <1>3, <2>3 DEF CompareEqual, DataInv
    <3>2. \A i \in 0 .. iteration' - 1, d \in Directions : <<i, d>> \in carried
      <4>0. iteration' - 1 = iteration
        BY <1>n, <3>1
      <4> SUFFICES ASSUME NEW i \in 0 .. iteration, NEW d \in Directions
                   PROVE  <<i, d>> \in carried
        BY <4>0
      <4>1. CASE i = iteration
        BY <4>1, <2>1, <2>3, <3>1 DEF Directions
      <4>2. CASE i # iteration
        <5>1. i \in 0 .. iteration - 1
          BY <4>2, <1>n
        <5>2. QED
          BY <5>1, <1>t
      <4>3. QED
        BY <4>1, <4>2
    <3>3. QED
      BY <1>t, <1>3, <2>3, <3>2 DEF CompareEqual
  <2>4. QED
    BY <1>3, <2>2, <2>3 DEF CompareEqual
<1>4. CASE Respond
  BY <1>t, <1>4 DEF Respond
<1>5. CASE StartFirst \/ StartSecond
  BY <1>t, <1>5 DEF StartFirst, StartSecond
<1>6. CASE PollDone \/ PollError \/ PollTime \/ Delay
  BY <1>t, <1>6 DEF PollDone, PollError, PollTime, Delay
<1>7. CASE AbortSecond \/ AbortFirst \/ AbortClear
  BY <1>t, <1>7 DEF AbortSecond, AbortFirst, AbortClear
<1>8. CASE Interrupt
  <2>1. carried \subseteq carried'
    BY <1>8 DEF Interrupt, SenderComplete, ReceiverComplete, Fault
  <2>2. pc \notin {"respond", "wait"}
    BY <1>t, <1>8, TwoSides DEF Interrupt, SenderComplete, ReceiverComplete, Fault,
       HalInv, StartsOnIdleHal, TypeOK
  <2>3. QED
    BY <1>t, <1>8, <2>1, <2>2, InterruptFlags
<1>9. CASE Idle
  BY <1>t, <1>9 DEF Idle, vars
<1>10. QED
  BY <1>1, <1>2, <1>3, <1>4, <1>5, <1>6, <1>7, <1>8, <1>9 DEF Next, TestStep

\* Each step keeps what is known of the data.
LEMMA DataStep == Inv /\ Next => DataInv'
<1> SUFFICES ASSUME Inv, Next
             PROVE  DataInv'
  OBVIOUS
<1> USE DEF DataInv, Transferring, Waiting, run, place, history
<1>t. TypeOK /\ HalInv /\ FlagInv /\ DataInv
  BY DEF Inv
<1>b. bus \in {"uart", "spi", "i2c"} /\ direction \in Directions
  BY <1>t, TransferAssumption DEF TypeOK
<1>r. Receiver(direction) \in Sides /\ Sender(direction) \in Sides
  BY <1>b, TwoSides
<1>1. ASSUME NEW c \in Commands, TakeCommand(c) PROVE DataInv'
  BY <1>1 DEF TakeCommand
<1>2. CASE NextIteration \/ Pass \/ CompareDifferent \/ Respond
  BY <1>2 DEF NextIteration, Pass, CompareDifferent, Respond
<1>3. CASE Begin
  BY <1>t, <1>3 DEF Begin, BeginClearing
<1>4. CASE CompareEqual
  <2>1. /\ buffer[Receiver(direction)] = command.pattern
        /\ <<iteration, direction>> \in carried
    BY <1>t, <1>r, <1>4, TransferAssumption DEF CompareEqual, FlagInv, TypeOK, Commands
  <2>2. direction = "there" => Receiver(direction) = "b"
    BY DEF Receiver, Sender, Other
  <2>3. QED
    BY <1>4, <2>1, <2>2 DEF CompareEqual
<1>5. CASE StartFirst
  BY <1>t, <1>r, <1>5, SameFlags DEF StartFirst, FlagInv
<1>6. CASE StartSecond
  BY <1>t, <1>r, <1>6, SameFlags DEF StartSecond, HalStart, HalStartFails
<1>7. CASE PollDone \/ PollError \/ PollTime \/ Delay
  BY <1>t, <1>r, <1>7, SameFlags DEF PollDone, PollError, PollTime, Delay
<1>8. CASE AbortSecond \/ AbortFirst \/ AbortClear
  BY <1>8 DEF AbortSecond, AbortFirst, AbortClear
<1>9. CASE SenderComplete
  <2>1. DoneFlag(direction, Receiver(direction)) # DoneFlag(direction, Sender(direction))
    BY <1>b, <1>r, TwoSides, TwoFlags
  <2>2. QED
    BY <1>t, <1>9, <1>r, <2>1, SameFlags DEF SenderComplete
<1>10. CASE ReceiverComplete
  <2>1. pc \in Transferring => Sent(direction) = command.pattern
    BY <1>t, <1>b DEF Sent, Directions
  <2>2. direction = "back" => Receiver(direction) # "b"
    BY DEF Receiver, Sender, Other
  <2>3. Receiver(direction)' = Receiver(direction)
    BY <1>10, SameFlags DEF ReceiverComplete
  <2>4. buffer' = [buffer EXCEPT ![Receiver(direction)] = buffer'[Receiver(direction)]]
    BY <1>t, <1>10, <1>r DEF ReceiverComplete, TypeOK
  <2>5. pc \in Transferring =>
           \/ /\ buffer'[Receiver(direction)] = command.pattern
              /\ <<iteration, direction>> \in carried'
           \/ buffer'[Receiver(direction)] = Garbage /\ trouble'
    BY <1>t, <1>10, <1>r, <2>1 DEF ReceiverComplete, TypeOK
  <2>6. carried \subseteq carried' /\ UNCHANGED <<pc, command, iteration, direction>>
    BY <1>10 DEF ReceiverComplete
  <2>7. direction = "back" => buffer'["b"] = buffer["b"]
    BY <1>t, <2>2, <2>4 DEF TypeOK, Sides
  <2>8. QED
    BY <1>t, <2>3, <2>5, <2>6, <2>7
<1>11. ASSUME NEW s \in Sides, Fault(s) PROVE DataInv'
  <2>1. /\ UNCHANGED <<bus, command, iteration, direction, carried>>
        /\ pc' \in {pc, "halted"}
        /\ trouble' = TRUE
        /\ hal[s] = "busy"
        /\ flags' = flags \cup {"error"}
    BY <1>11 DEF Fault, ErrorCallback
  <2>2. DoneFlag(direction, Receiver(direction)) # "error"
    BY <1>b, <1>r, TwoFlags
  <2>3. pc \in Waiting \cup {"compare"}
          /\ DoneFlag(direction, Receiver(direction)) \in flags => hal[Receiver(direction)] = "idle"
    BY <1>t, <1>r DEF FlagInv, HalInv, StartsOnIdleHal
  <2>4. hal[Receiver(direction)] = "idle" => UNCHANGED buffer
    BY <1>11 DEF Fault, HalStop
  <2>5. direction = "back" => buffer'["b"] = buffer["b"]
    BY <1>t, <1>11 DEF Fault, HalStop, Receiver, Sender, Other, TypeOK, Sides
  <2>6. /\ UNCHANGED Receiver(direction)
        /\ UNCHANGED DoneFlag(direction, Receiver(direction))
    BY <1>r, <2>1, SameFlags
  <2>7. ASSUME pc \in Waiting \cup {"compare"},
               DoneFlag(direction, Receiver(direction)) \in flags'
        PROVE  /\ DoneFlag(direction, Receiver(direction)) \in flags
               /\ UNCHANGED buffer
    BY <2>1, <2>2, <2>3, <2>4, <2>7
  <2>8. QED
    BY <1>t, <2>1, <2>5, <2>6, <2>7
<1>12. CASE Idle
  BY <1>t, <1>12, SameFlags DEF Idle, vars
<1>13. QED
  BY <1>1, <1>2, <1>3, <1>4, <1>5, <1>6, <1>7, <1>8, <1>9, <1>10, <1>11, <1>12
     DEF Next, TestStep, Interrupt

\* Each step keeps the reasons for a failure.
LEMMA TroubleStep == Inv /\ Next => TroubleInv'
<1> SUFFICES ASSUME Inv, Next
             PROVE  TroubleInv'
  OBVIOUS
<1> USE DEF TroubleInv, NoFalseAlarm, Transferring, Waiting, Aborting, run, place, history
<1>t. TypeOK /\ FlagInv /\ DataInv /\ ProgressInv /\ TroubleInv
  BY DEF Inv
<1>1. ASSUME NEW c \in Commands, TakeCommand(c) PROVE TroubleInv'
  BY <1>1 DEF TakeCommand
<1>2. CASE NextIteration \/ Pass \/ CompareEqual \/ Respond
  BY <1>t, <1>2 DEF NextIteration, Pass, CompareEqual, Respond, ProgressInv
<1>3. CASE CompareDifferent
  BY <1>t, <1>3, TwoSides DEF CompareDifferent, DataInv, FlagInv, TypeOK
<1>4. CASE Begin
  BY <1>t, <1>4 DEF Begin, BeginClearing
<1>5. CASE StartFirst \/ StartSecond
  BY <1>t, <1>5 DEF StartFirst, StartSecond, HalStart, HalStartFails
<1>6. CASE PollDone \/ PollError \/ PollTime \/ Delay
  BY <1>t, <1>6 DEF PollDone, PollError, PollTime, Delay
<1>7. CASE AbortSecond \/ AbortFirst \/ AbortClear
  BY <1>t, <1>7 DEF AbortSecond, AbortFirst, AbortClear
<1>8. CASE SenderComplete \/ ReceiverComplete
  <2>1. "error" \in flags' => "error" \in flags
    BY <1>t, <1>8, TwoSides, TwoFlags, TransferAssumption
       DEF SenderComplete, ReceiverComplete, TypeOK
  <2>2. /\ trouble => trouble'
        /\ UNCHANGED <<pc, command, result, elapsed>>
    BY <1>8 DEF SenderComplete, ReceiverComplete
  <2>3. QED
    BY <1>t, <2>1, <2>2
<1>9. ASSUME NEW s \in Sides, Fault(s) PROVE TroubleInv'
  BY <1>9 DEF Fault, ErrorCallback
<1>10. CASE Idle
  BY <1>t, <1>10 DEF Idle, vars
<1>11. QED
  BY <1>1, <1>2, <1>3, <1>4, <1>5, <1>6, <1>7, <1>8, <1>9, <1>10 DEF Next, TestStep, Interrupt

\* The invariant holds in every reachable state.
THEOREM Invariant == Spec => []Inv
<1>1. Inv /\ [Next]_vars => Inv'
  <2> SUFFICES ASSUME Inv, [Next]_vars
               PROVE  Inv'
    OBVIOUS
  <2>1. CASE Next
    BY <2>1, TypeStep, HalStep, FlagStep, DataStep, ProgressStep, TroubleStep DEF Inv
  <2>2. CASE UNCHANGED vars
    <3>1. UNCHANGED <<bus, direction>>
      BY <2>2 DEF vars, place
    <3>2. TypeOK' /\ ProgressInv' /\ TroubleInv'
      BY <2>2 DEF Inv, vars, run, place, history, TypeOK, ProgressInv, TroubleInv,
         NoFalseAlarm
    <3>3. HalInv'
      BY <2>2, <3>1, SameFlags DEF Inv, vars, HalInv, StartsOnIdleHal
    <3>4. FlagInv'
      BY <2>2, <3>1, SameFlags, TwoSides DEF Inv, vars, run, place, history, FlagInv, TypeOK
    <3>5. DataInv'
      BY <2>2, <3>1, SameFlags, TwoSides DEF Inv, vars, run, place, history, DataInv, TypeOK
    <3>6. QED
      BY <3>2, <3>3, <3>4, <3>5 DEF Inv
  <2>3. QED
    BY <2>1, <2>2
<1>2. QED
  BY <1>1, Initially, PTL DEF Spec

\* The state of the tests is well-typed for any constants.
THEOREM TypeCorrect == Spec => []TypeOK
<1>1. Inv => TypeOK
  BY DEF Inv
<1>2. QED
  BY <1>1, Invariant, PTL

\* A test that succeeds has carried its data in both directions each time.
THEOREM PassCorrect == Spec => []PassMeansTransferred
<1>1. Inv => PassMeansTransferred
  <2> SUFFICES ASSUME Inv, pc = "respond", result = "SUCCESS",
                      NEW i \in 0 .. command.iterations - 1, NEW d \in Directions
               PROVE  <<i, d>> \in carried
    BY DEF PassMeansTransferred
  <2>1. iteration \in Nat /\ command.iterations \in Nat /\ iteration >= command.iterations
    BY TransferAssumption DEF Inv, TypeOK, Commands, ProgressInv
  <2>2. i \in 0 .. iteration - 1
    BY <2>1
  <2>3. QED
    BY <2>2 DEF Inv, ProgressInv
<1>2. QED
  BY <1>1, Invariant, PTL

\* No transfer starts on a peripheral that an earlier one has left active.
THEOREM IdleAtStart == Spec => []StartsOnIdleHal
<1>1. Inv => StartsOnIdleHal
  BY DEF Inv, HalInv
<1>2. QED
  BY <1>1, Invariant, PTL

\* A test that fails has a reason of its own.
THEOREM FailCorrect == Spec => []NoFalseAlarm
<1>1. Inv => NoFalseAlarm
  BY DEF Inv, TroubleInv
<1>2. QED
  BY <1>1, Invariant, PTL
-----------------------------------------------------------------------------
(* The test that a line error stops *)

\* Where a side may be active: from the start of the first side to the end of
\* the abort.
Active == Waiting \cup {"abort", "abort_first"}

\* The assertion fails only inside a transfer, of a test that has no result yet.
HaltsInsideTransfer ==
    [][pc # "halted" /\ pc' = "halted" => pc \in Active /\ result = "none"]_vars

\* A firmware that has stopped has no result for the test, and never gets one.
Unanswered == pc = "halted" /\ result = "none"

\* What a failed assertion of port.c costs.  The error interrupt of a UART finds
\* a side active, which none is between two transfers (StartsOnIdleHal): it
\* never comes while the task compares the data, sets the result or sends the
\* response, so that no result is half made or half sent.  But the test that was
\* running stays without an answer for ever, where app_uart_test.c expects its
\* error flag to fail it.
THEOREM HaltedTestIsLost ==
    Spec => HaltsInsideTransfer /\ [](pc = "halted" => []Unanswered)
<1>1. ASSUME Inv, Next, pc # "halted", pc' = "halted"
      PROVE  pc \in Active
  <2>1. PICK side \in Sides : Fault(side)
    <3>1. ~(\E c \in Commands : TakeCommand(c)) /\ ~Idle
      BY <1>1 DEF TakeCommand, Idle, vars
    <3>2. ~TestStep
      BY <1>1 DEF TestStep, NextIteration, Pass, CompareEqual, CompareDifferent,
         Begin, BeginClearing, StartFirst, StartSecond, PollDone, PollError,
         PollTime, Delay, AbortSecond, AbortFirst, AbortClear, Respond
    <3>3. ~SenderComplete /\ ~ReceiverComplete
      BY <1>1 DEF SenderComplete, ReceiverComplete
    <3>4. QED
      BY <1>1, <3>1, <3>2, <3>3 DEF Next, Interrupt
  <2>2. hal[side] = "busy"
    BY <2>1 DEF Fault
  <2>3. pc \notin {"wait", "loop", "begin", "first", "compare", "respond", "clear"}
    BY <1>1, <2>2 DEF Inv, HalInv, StartsOnIdleHal
  <2>4. QED
    BY <1>1, <2>3 DEF Inv, TypeOK, Active, Waiting
<1>2. Inv /\ pc \in Active => result = "none"
  BY DEF Inv, ProgressInv, Active, Waiting
<1>3. Inv /\ [Next]_vars
        => [pc # "halted" /\ pc' = "halted" => pc \in Active /\ result = "none"]_vars
  BY <1>1, <1>2
<1>4. Inv /\ pc = "halted" => Unanswered
  BY DEF Inv, ProgressInv, Unanswered
<1>5. Unanswered /\ [Next]_vars => Unanswered'
  <2> SUFFICES ASSUME pc = "halted", [Next]_vars PROVE UNCHANGED <<pc, result>>
    BY DEF Unanswered
  <2>1. ~(\E c \in Commands : TakeCommand(c)) /\ ~Interrupt
    BY DEF TakeCommand, Interrupt
  <2>2. ~TestStep
    BY DEF TestStep, NextIteration, Pass, CompareEqual, CompareDifferent,
       Begin, BeginClearing, StartFirst, StartSecond, PollDone, PollError,
       PollTime, Delay, AbortSecond, AbortFirst, AbortClear, Respond
  <2>3. QED
    BY <2>1, <2>2 DEF Next, Idle, vars
<1>6. QED
  BY <1>3, <1>4, <1>5, Invariant, PTL DEF Spec, HaltsInsideTransfer
-----------------------------------------------------------------------------
(* How long a test can take *)

\* Steps of the task in a transfer that nothing completes: eight before and
\* after the polls, and a poll of four steps for every tick of the time-out.
StepsPerTransfer == 4 * (Timeout + 1) + 9
StepsPerIteration == 2 * StepsPerTransfer + 1
StepsOf(n) == n * StepsPerIteration

PollsLeft == Timeout + 1 - elapsed

TransferLeft == CASE pc = "begin"  -> StepsPerTransfer
                  [] pc = "first"  -> StepsPerTransfer - 1
                  [] pc = "second" -> StepsPerTransfer - 2
                  [] pc = "poll"   -> 4 * PollsLeft + 6
                  [] pc = "error"  -> 4 * PollsLeft + 5
                  [] pc = "time"   -> 4 * PollsLeft + 4
                  [] pc = "delay"  -> 4 * PollsLeft + 3
                  [] OTHER         -> 1

\* The iterations behind the one that is running.
LaterIterations == command.iterations - iteration - 1

\* An upper bound of the steps the task takes before it responds.
StepsLeft ==
    CASE pc = "loop" -> StepsOf(command.iterations - iteration) + 1
      [] pc \in Transferring /\ direction = "there" ->
           StepsOf(LaterIterations) + 1 + StepsPerTransfer + TransferLeft
      [] pc \in Transferring /\ direction = "back" ->
           StepsOf(LaterIterations) + 1 + TransferLeft
      [] pc = "abort"       -> 3
      [] pc = "abort_first" -> 2
      [] pc = "clear"       -> 1
      [] OTHER              -> 0

\* Each step of the task takes it nearer to its response, and no interrupt
\* takes it further away: a test ends after at most StepsLeft of its steps.
TestIsBounded ==
    [][pc \notin {"wait", "respond"} =>
         /\ StepsLeft' <= StepsLeft
         /\ TestStep => StepsLeft' < StepsLeft]_vars

\* The loop delays only when the time-out is not over.
DelayInv == pc = "delay" => elapsed <= Timeout

LEMMA Product ==
    ASSUME NEW n \in Nat
    PROVE  StepsOf(n) \in Nat /\ StepsOf(n + 1) = StepsOf(n) + StepsPerIteration
<1>1. StepsPerIteration \in Nat
  BY TransferAssumption DEF StepsPerIteration, StepsPerTransfer
<1>2. \A k \in Nat : n * k \in Nat /\ (n + 1) * k = n * k + k
  OBVIOUS
<1>3. QED
  BY <1>1, <1>2 DEF StepsOf

LEMMA TransferTyped ==
    Inv /\ DelayInv => /\ StepsPerTransfer \in Nat /\ StepsPerIteration \in Nat
                       /\ StepsPerIteration = 2 * StepsPerTransfer + 1
                       /\ TransferLeft \in Nat /\ TransferLeft >= 1
                       /\ TransferLeft <= StepsPerTransfer
<1> SUFFICES ASSUME Inv, DelayInv
             PROVE  /\ StepsPerTransfer \in Nat /\ StepsPerIteration \in Nat
                    /\ StepsPerIteration = 2 * StepsPerTransfer + 1
                    /\ TransferLeft \in Nat /\ TransferLeft >= 1
                    /\ TransferLeft <= StepsPerTransfer
  OBVIOUS
<1>1. Timeout \in Nat /\ elapsed \in 0 .. Timeout + 1
  BY TransferAssumption DEF Inv, TypeOK
<1>2. QED
  BY <1>1 DEF StepsPerTransfer, StepsPerIteration, TransferLeft, PollsLeft

\* The bound is a number, positive until the task responds; a command of n
\* iterations begins with n times the steps of an iteration, and one more.
LEMMA StepsTyped ==
    Inv /\ DelayInv => /\ StepsLeft \in Nat
                       /\ pc \notin {"wait", "respond", "halted"} => StepsLeft > 0
                       /\ pc \in Transferring => LaterIterations \in Nat
<1> SUFFICES ASSUME Inv, DelayInv
             PROVE  /\ StepsLeft \in Nat
                    /\ pc \notin {"wait", "respond", "halted"} => StepsLeft > 0
                    /\ pc \in Transferring => LaterIterations \in Nat
  OBVIOUS
<1>1. /\ iteration \in Nat /\ command.iterations \in Nat
      /\ iteration <= command.iterations
  BY TransferAssumption DEF Inv, TypeOK, Commands
<1>2. pc \in Transferring => LaterIterations \in Nat
  BY <1>1 DEF Inv, ProgressInv, LaterIterations
<1>3. command.iterations - iteration \in Nat
  BY <1>1
<1>4. StepsOf(command.iterations - iteration) \in Nat
  BY <1>3, Product, TransferTyped
<1>5. pc \in Transferring => StepsOf(LaterIterations) \in Nat
  BY <1>2, Product, TransferTyped
<1>6. direction \in {"there", "back"}
  BY DEF Inv, TypeOK, Directions
<1>7. pc \in {"wait", "loop", "respond", "halted"} \cup Transferring \cup Aborting
  BY DEF Inv, TypeOK, Transferring, Waiting, Aborting
<1>8. CASE pc \in Transferring
  <2>1. pc \notin {"loop", "abort", "abort_first", "clear"}
    BY <1>8 DEF Transferring, Waiting
  <2>2. QED
    BY <1>2, <1>5, <1>6, <1>8, <2>1, TransferTyped DEF StepsLeft
<1>9. CASE pc = "loop"
  BY <1>4, <1>9 DEF StepsLeft, Transferring, Waiting
<1>10. CASE pc \in Aborting
  BY <1>10 DEF StepsLeft, Transferring, Waiting, Aborting
<1>11. CASE pc \in {"wait", "respond", "halted"}
  BY <1>11 DEF StepsLeft, Transferring, Waiting
<1>12. QED
  BY <1>2, <1>7, <1>8, <1>9, <1>10, <1>11

LEMMA DelayStart == Init => DelayInv
  BY DEF Init, DelayInv

LEMMA DelayStep == Inv /\ DelayInv /\ [Next]_vars => DelayInv'
<1> SUFFICES ASSUME Inv, DelayInv, [Next]_vars, pc' = "delay"
             PROVE  elapsed' <= Timeout
  BY DEF DelayInv
<1>1. CASE UNCHANGED vars \/ Idle
  BY <1>1 DEF vars, Idle, DelayInv
<1>2. CASE PollTime
  BY <1>2, TransferAssumption DEF PollTime, Inv, TypeOK
<1>3. CASE Interrupt
  BY <1>3, InterruptFlags DEF DelayInv, Inv
<1>4. ASSUME \/ NextIteration \/ Pass \/ CompareEqual \/ CompareDifferent
             \/ Begin \/ StartFirst \/ StartSecond \/ PollDone \/ PollError
             \/ Delay \/ AbortSecond \/ AbortFirst \/ AbortClear \/ Respond
             \/ \E c \in Commands : TakeCommand(c)
      PROVE  FALSE
  BY <1>4 DEF TakeCommand, NextIteration, Pass, CompareEqual, CompareDifferent,
     Begin, BeginClearing, StartFirst, StartSecond, PollDone, PollError, Delay,
     AbortSecond, AbortFirst, AbortClear, Respond
<1>5. QED
  BY <1>1, <1>2, <1>3, <1>4 DEF Next, TestStep

\* Within a transfer only the steps of the transfer count.
LEMMA TransferCounts ==
    ASSUME Inv, DelayInv, (Inv /\ DelayInv)', pc \in Transferring,
           pc' \in Transferring, UNCHANGED <<command, iteration, direction>>,
           TransferLeft' < TransferLeft
    PROVE  StepsLeft' < StepsLeft
<1>1. /\ StepsOf(LaterIterations) \in Nat
      /\ StepsPerTransfer \in Nat
      /\ TransferLeft \in Nat
  BY Product, StepsTyped, TransferTyped
<1>2. TransferLeft' \in Nat
  <2>1. (Inv /\ DelayInv => TransferLeft \in Nat)'
    BY TransferTyped, PTL
  <2>2. QED
    BY <2>1
<1>3. LaterIterations' = LaterIterations
  BY DEF LaterIterations
<1>4. direction \in {"there", "back"}
  BY DEF Inv, TypeOK, Directions
<1>5. pc # "loop" /\ pc' # "loop"
  BY DEF Transferring, Waiting
<1>6. CASE direction = "there"
  <2>1. /\ StepsLeft = StepsOf(LaterIterations) + 1 + StepsPerTransfer + TransferLeft
        /\ StepsLeft' = StepsOf(LaterIterations) + 1 + StepsPerTransfer + TransferLeft'
    BY <1>3, <1>5, <1>6 DEF StepsLeft, Transferring, Waiting
  <2>2. QED
    BY <1>1, <1>2, <2>1
<1>7. CASE direction = "back"
  <2>1. /\ StepsLeft = StepsOf(LaterIterations) + 1 + TransferLeft
        /\ StepsLeft' = StepsOf(LaterIterations) + 1 + TransferLeft'
    BY <1>3, <1>5, <1>7 DEF StepsLeft, Transferring, Waiting
  <2>2. QED
    BY <1>1, <1>2, <2>1
<1>8. QED
  BY <1>4, <1>6, <1>7

\* A task that aborts its transfer has three steps left.
LEMMA AbortCounts ==
    ASSUME Inv, DelayInv, pc \in Transferring, TransferLeft >= 4 \/ pc' = "respond",
           pc' \in {"abort", "respond"}
    PROVE  StepsLeft' < StepsLeft
<1>1. /\ StepsOf(LaterIterations) \in Nat
      /\ StepsPerTransfer \in Nat
      /\ TransferLeft \in Nat
  BY Product, StepsTyped, TransferTyped
<1>2. direction \in {"there", "back"}
  BY DEF Inv, TypeOK, Directions
<1>3. pc # "loop"
  BY DEF Transferring, Waiting
<1>4. StepsLeft \in Nat /\ StepsLeft > 0 /\ (TransferLeft >= 4 => StepsLeft >= 4)
  <2>1. \/ StepsLeft = StepsOf(LaterIterations) + 1 + StepsPerTransfer + TransferLeft
        \/ StepsLeft = StepsOf(LaterIterations) + 1 + TransferLeft
    BY <1>2, <1>3 DEF StepsLeft, Transferring, Waiting
  <2>2. QED
    BY <1>1, <2>1
<1>5. StepsLeft' = IF pc' = "abort" THEN 3 ELSE 0
  BY DEF StepsLeft, Transferring, Waiting
<1>6. QED
  BY <1>4, <1>5

LEMMA TestStepCounts ==
    ASSUME Inv, DelayInv, (Inv /\ DelayInv)', TestStep, pc # "respond"
    PROVE  StepsLeft' < StepsLeft
<1> USE DEF run, place, history
<1>t. /\ Timeout \in Nat /\ elapsed \in 0 .. Timeout + 1
      /\ direction \in {"there", "back"}
  BY TransferAssumption DEF Inv, TypeOK, Directions
<1>n. /\ iteration \in Nat /\ command.iterations \in Nat
  BY TransferAssumption DEF Inv, TypeOK, Commands
<1>p. /\ StepsPerTransfer \in Nat /\ StepsPerIteration \in Nat
      /\ StepsPerIteration = 2 * StepsPerTransfer + 1
  BY TransferTyped
<1>1. CASE NextIteration
  <2>1. /\ pc = "loop" /\ pc' = "begin" /\ direction' = "there"
        /\ UNCHANGED <<command, iteration>> /\ iteration < command.iterations
    BY <1>1 DEF NextIteration
  <2>2. LaterIterations \in Nat /\ command.iterations - iteration = LaterIterations + 1
    BY <1>n, <2>1 DEF LaterIterations
  <2>3. /\ StepsOf(LaterIterations) \in Nat
        /\ StepsOf(command.iterations - iteration) =
             StepsOf(LaterIterations) + StepsPerIteration
    BY <1>p, <2>2, Product
  <2>4. StepsLeft' = StepsOf(LaterIterations) + 1 + StepsPerTransfer
                       + StepsPerTransfer
    BY <2>1 DEF StepsLeft, LaterIterations, TransferLeft, Transferring
  <2>5. StepsLeft = StepsOf(LaterIterations) + StepsPerIteration + 1
    BY <2>1, <2>3 DEF StepsLeft, Transferring, Waiting
  <2>6. QED
    BY <1>p, <2>3, <2>4, <2>5
<1>2. CASE Pass
  <2>1. pc = "loop" /\ pc' = "respond"
    BY <1>2 DEF Pass
  <2>2. StepsLeft' = 0
    BY <2>1 DEF StepsLeft, Transferring, Waiting
  <2>3. StepsLeft \in Nat /\ StepsLeft > 0
    BY <2>1, StepsTyped
  <2>4. QED
    BY <2>2, <2>3
<1>3. CASE CompareEqual
  <2>1. /\ pc = "compare" /\ UNCHANGED command
        /\ TransferLeft = 1 /\ LaterIterations \in Nat
        /\ StepsOf(LaterIterations) \in Nat
    BY <1>3, StepsTyped, <1>p, Product DEF CompareEqual, TransferLeft, Transferring
  <2>2. CASE direction = "there"
    <3>1. /\ pc' = "begin" /\ direction' = "back" /\ LaterIterations' = LaterIterations
          /\ TransferLeft' = StepsPerTransfer
      BY <1>3, <2>2 DEF CompareEqual, LaterIterations, TransferLeft
    <3>2. StepsLeft' = StepsOf(LaterIterations) + 1 + StepsPerTransfer
      BY <3>1 DEF StepsLeft, Transferring
    <3>3. StepsLeft = StepsOf(LaterIterations) + 1 + StepsPerTransfer + 1
      BY <2>1, <2>2 DEF StepsLeft, Transferring
    <3>4. QED
      BY <1>p, <2>1, <3>2, <3>3
  <2>3. CASE direction = "back"
    <3>1. pc' = "loop" /\ iteration' = iteration + 1
      BY <1>3, <2>3 DEF CompareEqual
    <3>2. command'.iterations - iteration' = LaterIterations
      BY <1>n, <2>1, <3>1 DEF LaterIterations
    <3>3. StepsLeft' = StepsOf(LaterIterations) + 1
      BY <3>1, <3>2 DEF StepsLeft, Transferring, Waiting
    <3>4. StepsLeft = StepsOf(LaterIterations) + 1 + 1
      BY <2>1, <2>3 DEF StepsLeft, Transferring
    <3>5. QED
      BY <2>1, <3>3, <3>4
  <2>4. QED
    BY <1>t, <2>2, <2>3
<1>4. CASE CompareDifferent
  BY <1>4, AbortCounts DEF CompareDifferent, Transferring
<1>5. CASE Begin
  <2>1. CASE pc' = "respond"
    BY <1>5, <2>1, AbortCounts DEF Begin, BeginClearing, Transferring
  <2>2. CASE pc' = "first"
    <3>1. TransferLeft' < TransferLeft
      BY <1>5, <1>p, <2>2 DEF Begin, BeginClearing, TransferLeft
    <3>2. QED
      BY <1>5, <2>2, <3>1, TransferCounts DEF Begin, BeginClearing, Transferring
  <2>3. QED
    BY <1>5, <2>1, <2>2 DEF Begin, BeginClearing
<1>6. CASE StartFirst
  <2>1. CASE pc' = "abort"
    BY <1>6, <1>t, <2>1, AbortCounts DEF StartFirst, Transferring, TransferLeft,
       StepsPerTransfer
  <2>2. CASE pc' = "second"
    <3>1. TransferLeft' < TransferLeft
      BY <1>6, <1>p, <2>2 DEF StartFirst, TransferLeft
    <3>2. QED
      BY <1>6, <2>2, <3>1, TransferCounts DEF StartFirst, Transferring, Waiting
  <2>3. QED
    BY <1>6, <2>1, <2>2 DEF StartFirst
<1>7. CASE StartSecond
  <2>1. CASE pc' = "abort"
    BY <1>7, <1>t, <2>1, AbortCounts DEF StartSecond, Transferring, Waiting,
       TransferLeft, StepsPerTransfer
  <2>2. CASE pc' = "poll"
    <3>1. TransferLeft' < TransferLeft
      BY <1>7, <1>t, <2>2 DEF StartSecond, TransferLeft, PollsLeft, StepsPerTransfer
    <3>2. QED
      BY <1>7, <2>2, <3>1, TransferCounts DEF StartSecond, Transferring, Waiting
  <2>3. QED
    BY <1>7, <2>1, <2>2 DEF StartSecond
<1>8. CASE PollDone
  <2>1. TransferLeft' < TransferLeft
    BY <1>8, <1>t DEF PollDone, TransferLeft, PollsLeft
  <2>2. QED
    BY <1>8, <2>1, TransferCounts DEF PollDone, Transferring, Waiting
<1>9. CASE PollError \/ PollTime
  <2>1. CASE pc' = "abort"
    BY <1>9, <1>t, <2>1, AbortCounts DEF PollError, PollTime, Transferring, Waiting,
       TransferLeft, PollsLeft
  <2>2. CASE pc' # "abort"
    <3>1. TransferLeft' < TransferLeft
      BY <1>9, <1>t, <2>2 DEF PollError, PollTime, TransferLeft, PollsLeft
    <3>2. QED
      BY <1>9, <2>2, <3>1, TransferCounts DEF PollError, PollTime, Transferring, Waiting
  <2>3. QED
    BY <2>1, <2>2
<1>10. CASE Delay
  <2>1. TransferLeft' < TransferLeft
    BY <1>10, <1>t DEF Delay, TransferLeft, PollsLeft, DelayInv
  <2>2. QED
    BY <1>10, <2>1, TransferCounts DEF Delay, Transferring, Waiting
<1>11. CASE AbortSecond \/ AbortFirst \/ AbortClear
  BY <1>11 DEF AbortSecond, AbortFirst, AbortClear, StepsLeft, Transferring, Waiting
<1>12. QED
  BY <1>1, <1>2, <1>3, <1>4, <1>5, <1>6, <1>7, <1>8, <1>9, <1>10, <1>11
     DEF TestStep, Respond

\* An interrupt leaves the bound as it is, unless the firmware stops.
LEMMA InterruptCounts ==
    ASSUME Inv, DelayInv, Interrupt
    PROVE  StepsLeft' <= StepsLeft
<1>1. UNCHANGED <<command, iteration, direction, elapsed>> /\ pc' \in {pc, "halted"}
  BY InterruptFlags DEF Inv, run, place
<1>2. StepsLeft \in Nat
  BY StepsTyped
<1>3. CASE pc' = "halted"
  BY <1>2, <1>3 DEF StepsLeft, Transferring, Waiting
<1>4. CASE pc' = pc
  <2>1. StepsLeft' = StepsLeft
    BY <1>1, <1>4 DEF StepsLeft, LaterIterations, TransferLeft, PollsLeft
  <2>2. QED
    BY <1>2, <2>1
<1>5. QED
  BY <1>1, <1>3, <1>4

\* Whatever the wires and the HAL do, a test of n iterations is answered after
\* at most StepsOf(n) + 1 further steps of its task, or the firmware stops.
THEOREM TestsAreBounded == Spec => [](StepsLeft \in Nat) /\ TestIsBounded
<1>1. ASSUME Inv, DelayInv, (Inv /\ DelayInv)', Next, pc \notin {"wait", "respond"}
      PROVE  StepsLeft' <= StepsLeft /\ (TestStep => StepsLeft' < StepsLeft)
  <2>1. StepsLeft \in Nat
    BY <1>1, StepsTyped
  <2>2. StepsLeft' \in Nat
    <3>1. (Inv /\ DelayInv => StepsLeft \in Nat)'
      BY StepsTyped, PTL
    <3>2. QED
      BY <1>1, <3>1
  <2>3. TestStep => StepsLeft' < StepsLeft
    BY <1>1, TestStepCounts
  <2>4. Interrupt => StepsLeft' <= StepsLeft
    BY <1>1, InterruptCounts
  <2>5. Idle => StepsLeft' <= StepsLeft
    <3> SUFFICES ASSUME Idle PROVE StepsLeft' <= StepsLeft
      OBVIOUS
    <3>1. StepsLeft' = StepsLeft
      BY DEF Idle, vars, run, place, StepsLeft, LaterIterations, TransferLeft, PollsLeft
    <3>2. QED
      BY <2>1, <3>1
  <2>6. ~ \E c \in Commands : TakeCommand(c)
    BY <1>1 DEF TakeCommand
  <2>7. QED
    BY <1>1, <2>1, <2>2, <2>3, <2>4, <2>5, <2>6 DEF Next
<1>2. Inv /\ DelayInv /\ (Inv /\ DelayInv)' /\ [Next]_vars
        => [pc \notin {"wait", "respond"} =>
              /\ StepsLeft' <= StepsLeft
              /\ TestStep => StepsLeft' < StepsLeft]_vars
  BY <1>1
<1>3. QED
  BY <1>2, DelayStart, DelayStep, StepsTyped, Invariant, PTL DEF Spec, TestIsBounded
=============================================================================
