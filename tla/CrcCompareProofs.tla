-------------------------- MODULE CrcCompareProofs --------------------------
(***************************************************************************)
(* Proofs about CrcCompare, for any tasks, buffers and threshold: what a   *)
(* comparison returns when no other task uses the CRC unit while it runs,  *)
(* and that a lock around the calls would make every comparison right.     *)
(***************************************************************************)
EXTENDS CrcCompare, SequenceTheorems, TLAPS

InCrc(t) == pc[t] \in {"reset expected", "feed expected", "reset actual",
                       "feed actual"}

\* What an undisturbed task knows about the unit at each point.
ProgressOK(t) ==
    /\ pc[t] # "idle" => result[t] = "none"
    /\ InCrc(t) => Length(t) > CrcMinLen
    /\ pc[t] \in {"idle", "check"} => fed[t] = 0
    /\ ~disturbed[t] =>
         /\ pc[t] = "feed expected" => DR = SubSeq(pair[t].expected, 1, fed[t])
         /\ pc[t] \in {"reset actual", "feed actual"} => crc[t] = pair[t].expected
         /\ pc[t] = "feed actual" => DR = SubSeq(pair[t].actual, 1, fed[t])

IInv == /\ TypeOK
        /\ \A t \in Tasks : ProgressOK(t)
        /\ UndisturbedIsCorrect

LEMMA PairsAreSequences ==
  ASSUME NEW q \in Pairs
  PROVE  /\ q.expected \in Seq(Words)
         /\ q.actual \in Seq(Words)
         /\ Len(q.expected) = Len(q.actual)
         /\ Len(q.expected) \in Nat
BY CompareAssumption

LEMMA InitInv == Init => IInv
<1> SUFFICES ASSUME Init PROVE IInv
  OBVIOUS
<1>1. \A t \in Tasks : disturbed[t] \in BOOLEAN
  BY DEF Init
<1>2. TypeOK
  BY <1>1, PairsAreSequences DEF Init, TypeOK, Labels, Length
<1>3. \A t \in Tasks : ProgressOK(t)
  BY DEF Init, ProgressOK, InCrc
<1>4. UndisturbedIsCorrect
  BY DEF Init, UndisturbedIsCorrect
<1> QED
  BY <1>2, <1>3, <1>4 DEF IInv

LEMMA TypeStep == ASSUME IInv, NEW t \in Tasks, Step(t)
                  PROVE  TypeOK'
<1> USE DEF IInv
<1>1. PICK q \in Pairs : \/ Call(t, q)
                         \/ RejectEmpty(t)
                         \/ CompareBytes(t)
                         \/ CompareCrc(t)
                         \/ ResetExpected(t)
                         \/ FeedExpected(t)
                         \/ ReadExpected(t)
                         \/ ResetActual(t)
                         \/ FeedActual(t)
                         \/ ReadActual(t)
  BY DEF Step, TypeOK
<1>2. pc' \in [Tasks -> Labels]
  BY <1>1 DEF TypeOK, Call, RejectEmpty, CompareBytes, CompareCrc, ResetExpected,
     FeedExpected, ReadExpected, ResetActual, FeedActual, ReadActual, Reset, Feed,
     Return, Goto, Labels
<1>3. pair' \in [Tasks -> Pairs]
  BY <1>1 DEF TypeOK, Call, RejectEmpty, CompareBytes, CompareCrc, ResetExpected,
     FeedExpected, ReadExpected, ResetActual, FeedActual, ReadActual, Reset, Feed
<1>4. fed' \in [Tasks -> Nat]
  <2>1. \/ fed' = fed
        \/ fed' = [fed EXCEPT ![t] = 0]
        \/ fed' = [fed EXCEPT ![t] = @ + 1]
    BY <1>1 DEF Call, RejectEmpty, CompareBytes, CompareCrc, ResetExpected,
       FeedExpected, ReadExpected, ResetActual, FeedActual, ReadActual, Reset, Feed
  <2>2. fed \in [Tasks -> Nat]
    BY DEF TypeOK
  <2> QED
    BY <2>1, <2>2
<1> DEFINE Buffers == {pair[t].expected, pair[t].actual}
<1>5. DR' \in Seq(Words)
  <2>1. ASSUME NEW b \in Buffers, fed[t] < Len(b)
        PROVE  Append(DR, b[fed[t] + 1]) \in Seq(Words)
    <3>1. b \in Seq(Words) /\ fed[t] \in Nat /\ DR \in Seq(Words)
      BY PairsAreSequences DEF TypeOK
    <3>2. b[fed[t] + 1] \in Words
      BY <2>1, <3>1, ElementOfSeq
    <3> QED
      BY <3>1, <3>2, AppendProperties
  <2>2. CASE FeedExpected(t) \/ FeedActual(t)
    BY <2>1, <2>2 DEF FeedExpected, FeedActual, Feed
  <2>3. CASE ResetExpected(t) \/ ResetActual(t)
    BY <2>3, EmptySeq DEF ResetExpected, ResetActual, Reset
  <2>4. CASE DR' = DR
    BY <2>4 DEF TypeOK
  <2> QED
    BY <1>1, <2>2, <2>3, <2>4 DEF Call, RejectEmpty, CompareBytes, CompareCrc,
       ReadExpected, ReadActual
<1>6. crc' \in [Tasks -> Seq(Words)]
  <2>1. CASE ReadExpected(t) \/ ReadActual(t)
    <3>1. DR \in Seq(Words) /\ <<>> \in Seq(Words) /\ crc \in [Tasks -> Seq(Words)]
      BY EmptySeq DEF TypeOK
    <3>2. crc' = [crc EXCEPT ![t] = DR] \/ crc' = [crc EXCEPT ![t] = <<>>]
      BY <2>1 DEF ReadExpected, ReadActual
    <3> QED
      BY <3>1, <3>2
  <2>2. CASE crc' = crc
    BY <2>2 DEF TypeOK
  <2> QED
    BY <1>1, <2>1, <2>2 DEF Call, RejectEmpty, CompareBytes, CompareCrc,
       ResetExpected, FeedExpected, ResetActual, FeedActual, Reset, Feed
<1>7. result' \in [Tasks -> {"none", "OK", "FAIL"}]
  <2>1. CASE \E v \in {"OK", "FAIL", "none"} : result' = [result EXCEPT ![t] = v]
    BY <2>1 DEF TypeOK
  <2>2. CASE result' = result
    BY <2>2 DEF TypeOK
  <2>3. \A b : Verdict(b) \in {"OK", "FAIL", "none"}
    BY DEF Verdict
  <2> QED
    BY <1>1, <2>1, <2>2, <2>3 DEF Call, RejectEmpty, CompareBytes, CompareCrc,
       ResetExpected, FeedExpected, ReadExpected, ResetActual, FeedActual,
       ReadActual, Reset, Feed, Return
<1>8. disturbed' \in [Tasks -> BOOLEAN]
  BY <1>1 DEF TypeOK, Call, RejectEmpty, CompareBytes, CompareCrc, ResetExpected,
     FeedExpected, ReadExpected, ResetActual, FeedActual, ReadActual, Reset, Feed,
     UseUnit
<1>9. ASSUME NEW u \in Tasks PROVE fed'[u] <= Len(pair'[u].expected)
  <2>1. fed[u] \in Nat /\ Len(pair[u].expected) \in Nat /\ fed[u] <= Len(pair[u].expected)
    BY PairsAreSequences DEF TypeOK, Length
  <2>2. Len(pair[t].actual) = Len(pair[t].expected)
    BY PairsAreSequences DEF TypeOK
  <2>3. CASE Call(t, q)
    <3>1. fed[t] = 0 /\ fed' = fed /\ Len(q.expected) \in Nat
      BY <2>3, PairsAreSequences DEF Call, ProgressOK
    <3>2. pair' = [pair EXCEPT ![t] = q] /\ pair \in [Tasks -> Pairs]
      BY <2>3 DEF Call, TypeOK
    <3> QED
      BY <2>1, <3>1, <3>2
  <2>4. CASE FeedExpected(t) \/ FeedActual(t)
    <3>1. /\ pair' = pair /\ fed' = [fed EXCEPT ![t] = @ + 1]
          /\ fed[t] < Len(pair[t].expected)
      BY <2>2, <2>4 DEF FeedExpected, FeedActual, Feed
    <3>2. fed \in [Tasks -> Nat] /\ Len(pair[t].expected) \in Nat
      BY PairsAreSequences DEF TypeOK
    <3> QED
      BY <2>1, <3>1, <3>2
  <2>5. CASE ResetExpected(t) \/ ResetActual(t) \/ ReadActual(t)
    <3>1. pair' = pair /\ fed' = [fed EXCEPT ![t] = 0]
      BY <2>5 DEF ResetExpected, ResetActual, Reset, ReadActual
    <3>2. fed \in [Tasks -> Nat] /\ Len(pair[t].expected) \in Nat
      BY PairsAreSequences DEF TypeOK
    <3> QED
      BY <2>1, <3>1, <3>2
  <2>6. CASE fed' = fed /\ pair' = pair
    BY <2>1, <2>6
  <2> QED
    BY <1>1, <2>3, <2>4, <2>5, <2>6 DEF RejectEmpty, CompareBytes, CompareCrc,
       ReadExpected
<1> QED
  BY <1>2, <1>3, <1>4, <1>5, <1>6, <1>7, <1>8, <1>9 DEF TypeOK, Length
\* A step of t leaves another task where it was, and marks its comparison as
\* disturbed if it changes the data register.
LEMMA OtherTask ==
  ASSUME TypeOK, NEW t \in Tasks, Step(t), NEW u \in Tasks, u # t
  PROVE  /\ pc'[u] = pc[u] /\ pair'[u] = pair[u] /\ fed'[u] = fed[u]
         /\ crc'[u] = crc[u] /\ result'[u] = result[u]
         /\ disturbed'[u] \/ (DR' = DR /\ (disturbed[u] => disturbed'[u]))
<1>1. /\ pc \in [Tasks -> Labels] /\ pair \in [Tasks -> Pairs]
      /\ fed \in [Tasks -> Nat] /\ crc \in [Tasks -> Seq(Words)]
      /\ result \in [Tasks -> {"none", "OK", "FAIL"}]
      /\ disturbed \in [Tasks -> BOOLEAN]
  BY DEF TypeOK
<1>2. PICK q \in Pairs : \/ Call(t, q)
                         \/ RejectEmpty(t) \/ CompareBytes(t) \/ CompareCrc(t)
                         \/ ResetExpected(t) \/ FeedExpected(t) \/ ReadExpected(t)
                         \/ ResetActual(t) \/ FeedActual(t) \/ ReadActual(t)
  BY DEF Step, TypeOK
<1>3. CASE Call(t, q)
  BY <1>1, <1>3 DEF Call, Goto
<1>4. CASE RejectEmpty(t) \/ CompareBytes(t) \/ CompareCrc(t)
  BY <1>1, <1>4 DEF RejectEmpty, CompareBytes, CompareCrc, Return, Goto
<1>5. CASE ResetExpected(t) \/ ResetActual(t)
  BY <1>1, <1>5 DEF ResetExpected, ResetActual, Reset, UseUnit, Goto
<1>6. CASE FeedExpected(t) \/ FeedActual(t)
  BY <1>1, <1>6 DEF FeedExpected, FeedActual, Feed, UseUnit
<1>7. CASE ReadExpected(t) \/ ReadActual(t)
  BY <1>1, <1>7 DEF ReadExpected, ReadActual, Return, Goto
<1> QED
  BY <1>2, <1>3, <1>4, <1>5, <1>6, <1>7

\* One more word fed.
LEMMA FeedOne ==
  ASSUME NEW b \in Seq(Words), NEW n \in Nat, n < Len(b)
  PROVE  Append(SubSeq(b, 1, n), b[n + 1]) = SubSeq(b, 1, n + 1)
OBVIOUS
\* What the invariant says of task t, for the task that takes the step.
LEMMA OwnStep ==
  ASSUME IInv, NEW t \in Tasks, Step(t)
  PROVE  /\ ProgressOK(t)'
         /\ (result[t] # "none" /\ (~disturbed[t] \/ Length(t) <= CrcMinLen)
               => result[t] = Expected(t))'
<1> DEFINE Right(u) == result[u] # "none" /\ (~disturbed[u] \/ Length(u) <= CrcMinLen)
                         => result[u] = Expected(u)
<1>1. /\ pc \in [Tasks -> Labels] /\ pair \in [Tasks -> Pairs]
      /\ fed \in [Tasks -> Nat] /\ crc \in [Tasks -> Seq(Words)]
      /\ result \in [Tasks -> {"none", "OK", "FAIL"}]
      /\ disturbed \in [Tasks -> BOOLEAN]
  BY DEF IInv, TypeOK
<1>2. ProgressOK(t) /\ Right(t)
  BY DEF IInv, UndisturbedIsCorrect
<1>3. /\ pair[t].expected \in Seq(Words) /\ pair[t].actual \in Seq(Words)
      /\ Len(pair[t].expected) = Len(pair[t].actual)
      /\ Len(pair[t].expected) \in Nat /\ fed[t] \in Nat /\ CrcMinLen \in Nat
  BY <1>1, PairsAreSequences, CompareAssumption
<1>4. ASSUME NEW q \in Pairs, Call(t, q)
      PROVE  ProgressOK(t)' /\ Right(t)'
  <2>1. pc'[t] = "check" /\ result'[t] = "none" /\ fed'[t] = fed[t] /\ fed[t] = 0
    BY <1>1, <1>2, <1>4 DEF Call, Goto, ProgressOK
  <2> QED
    BY <2>1 DEF ProgressOK, InCrc
<1>5. CASE RejectEmpty(t)
  <2>1. /\ pc'[t] = "idle" /\ result'[t] = "FAIL" /\ pair' = pair /\ fed' = fed
        /\ Length(t) = 0 /\ fed[t] = 0
    BY <1>1, <1>2, <1>5 DEF RejectEmpty, Return, Goto, ProgressOK
  <2> QED
    BY <2>1 DEF ProgressOK, InCrc, Expected, Verdict, Length, Same
<1>6. CASE CompareBytes(t)
  <2>1. /\ pc'[t] = "idle" /\ result'[t] = Verdict(Same(t)) /\ pair' = pair
        /\ fed' = fed /\ Length(t) # 0 /\ fed[t] = 0
    BY <1>1, <1>2, <1>6 DEF CompareBytes, Return, Goto, ProgressOK, Same
  <2> QED
    BY <2>1 DEF ProgressOK, InCrc, Expected, Verdict, Length, Same
<1>7. CASE CompareCrc(t)
  <2>1. /\ pc'[t] = "reset expected" /\ result' = result /\ pair' = pair
        /\ fed' = fed /\ Length(t) > CrcMinLen /\ result[t] = "none"
    BY <1>1, <1>2, <1>7 DEF CompareCrc, Goto, ProgressOK
  <2> QED
    BY <2>1 DEF ProgressOK, InCrc, Length
<1>8. CASE ResetExpected(t)
  <2>1. /\ pc'[t] = "feed expected" /\ result' = result /\ pair' = pair
        /\ fed'[t] = 0 /\ Length(t) > CrcMinLen /\ result[t] = "none" /\ DR' = <<>>
    BY <1>1, <1>2, <1>8 DEF ResetExpected, Reset, Goto, ProgressOK, InCrc
  <2>2. SubSeq(pair[t].expected, 1, 0) = <<>>
    BY SubSeqEmpty
  <2> QED
    BY <2>1, <2>2 DEF ProgressOK, InCrc, Length
<1>9. CASE ResetActual(t)
  <2>1. /\ pc[t] = "reset actual" /\ pc'[t] = "feed actual"
        /\ result' = result /\ pair' = pair /\ crc' = crc
        /\ fed'[t] = 0 /\ Length(t) > CrcMinLen /\ result[t] = "none" /\ DR' = <<>>
        /\ disturbed'[t] = disturbed[t]
    BY <1>1, <1>2, <1>9 DEF ResetActual, Reset, Goto, ProgressOK, InCrc, UseUnit
  <2>2. SubSeq(pair[t].actual, 1, 0) = <<>>
    BY SubSeqEmpty
  <2> QED
    BY <1>2, <2>1, <2>2 DEF ProgressOK, InCrc, Length
<1>10. CASE FeedExpected(t)
  <2>1. /\ pc[t] = "feed expected" /\ pc' = pc /\ result' = result /\ pair' = pair
        /\ fed'[t] = fed[t] + 1 /\ fed[t] < Len(pair[t].expected)
        /\ DR' = Append(DR, pair[t].expected[fed[t] + 1])
        /\ disturbed'[t] = disturbed[t]
    BY <1>1, <1>10 DEF FeedExpected, Feed, UseUnit
  <2>2. Append(SubSeq(pair[t].expected, 1, fed[t]), pair[t].expected[fed[t] + 1])
          = SubSeq(pair[t].expected, 1, fed[t] + 1)
    BY <1>3, <2>1, FeedOne
  <2> QED
    BY <1>2, <2>1, <2>2 DEF ProgressOK, InCrc, Length
<1>11. CASE FeedActual(t)
  <2>1. /\ pc[t] = "feed actual" /\ pc' = pc /\ result' = result /\ pair' = pair
        /\ crc' = crc
        /\ fed'[t] = fed[t] + 1 /\ fed[t] < Len(pair[t].actual)
        /\ DR' = Append(DR, pair[t].actual[fed[t] + 1])
        /\ disturbed'[t] = disturbed[t]
    BY <1>1, <1>11 DEF FeedActual, Feed, UseUnit
  <2>2. Append(SubSeq(pair[t].actual, 1, fed[t]), pair[t].actual[fed[t] + 1])
          = SubSeq(pair[t].actual, 1, fed[t] + 1)
    BY <1>3, <2>1, FeedOne
  <2> QED
    BY <1>2, <2>1, <2>2 DEF ProgressOK, InCrc, Length
<1>12. CASE ReadExpected(t)
  <2>1. /\ pc[t] = "feed expected" /\ pc'[t] = "reset actual"
        /\ result' = result /\ pair' = pair /\ crc'[t] = DR
        /\ fed[t] = Len(pair[t].expected) /\ disturbed' = disturbed
    BY <1>1, <1>12 DEF ReadExpected, Goto
  <2>2. SubSeq(pair[t].expected, 1, Len(pair[t].expected)) = pair[t].expected
    BY <1>3, SubSeqFull
  <2> QED
    BY <1>2, <2>1, <2>2 DEF ProgressOK, InCrc, Length
<1>13. CASE ReadActual(t)
  <2>1. /\ pc[t] = "feed actual" /\ pc'[t] = "idle"
        /\ result'[t] = Verdict(crc[t] = DR) /\ pair' = pair /\ fed'[t] = 0
        /\ fed[t] = Len(pair[t].actual) /\ disturbed' = disturbed
    BY <1>1, <1>13 DEF ReadActual, Return, Goto
  <2>2. SubSeq(pair[t].actual, 1, Len(pair[t].actual)) = pair[t].actual
    BY <1>3, SubSeqFull
  <2>3. Length(t) > CrcMinLen /\ Length(t) # 0 /\ Length(t) \in Nat
    <3>1. Length(t) > CrcMinLen
      BY <1>2, <2>1 DEF ProgressOK, InCrc
    <3>2. Length(t) \in Nat
      BY <1>3 DEF Length
    <3> QED
      BY <1>3, <3>1, <3>2
  <2>4. ~disturbed[t] => crc[t] = pair[t].expected /\ DR = pair[t].actual
    BY <1>2, <2>1, <2>2 DEF ProgressOK
  <2>5. ProgressOK(t)'
    BY <2>1 DEF ProgressOK, InCrc
  <2>6. Right(t)'
    <3>1. Length(t)' = Length(t) /\ Same(t)' = Same(t)
      BY <2>1 DEF Length, Same
    <3>2. ~(Length(t) <= CrcMinLen)
      BY <1>3, <2>3
    <3>3. ~disturbed[t] => ((crc[t] = DR) = Same(t))
      BY <2>4 DEF Same
    <3>4. ~disturbed[t] => result'[t] = Expected(t)'
      BY <2>1, <2>3, <3>1, <3>3 DEF Expected, Verdict
    <3> QED
      BY <2>1, <3>1, <3>2, <3>4
  <2> QED
    BY <2>5, <2>6
<1> QED
  BY <1>4, <1>5, <1>6, <1>7, <1>8, <1>9, <1>10, <1>11, <1>12, <1>13 DEF Step

LEMMA InductiveStep == IInv /\ [Next]_vars => IInv'
<1> SUFFICES ASSUME IInv, [Next]_vars PROVE IInv'
  OBVIOUS
<1>1. ASSUME NEW t \in Tasks, Step(t) PROVE IInv'
  <2>1. TypeOK'
    BY <1>1, TypeStep
  <2>2. ASSUME NEW u \in Tasks
        PROVE  /\ ProgressOK(u)'
               /\ (result[u] # "none" /\ (~disturbed[u] \/ Length(u) <= CrcMinLen)
                     => result[u] = Expected(u))'
    <3>1. CASE u = t
      BY <1>1, <3>1, OwnStep
    <3>2. CASE u # t
      <4>1. TypeOK
        BY DEF IInv
      <4>2. /\ pc'[u] = pc[u] /\ pair'[u] = pair[u] /\ fed'[u] = fed[u]
            /\ crc'[u] = crc[u] /\ result'[u] = result[u]
            /\ disturbed'[u] \/ (DR' = DR /\ (disturbed[u] => disturbed'[u]))
        BY <1>1, <3>2, <4>1, OtherTask
      <4> QED
        BY <4>2 DEF IInv, ProgressOK, InCrc, UndisturbedIsCorrect, Length, Expected, Same
    <3> QED
      BY <3>1, <3>2
  <2> QED
    BY <2>1, <2>2 DEF IInv, UndisturbedIsCorrect
<1>2. CASE UNCHANGED vars
  BY <1>2 DEF IInv, TypeOK, ProgressOK, InCrc, UndisturbedIsCorrect, Length, Expected,
     Same, vars
<1> QED
  BY <1>1, <1>2 DEF Next

THEOREM Invariant == Spec => []IInv
<1> QED
  BY InitInv, InductiveStep, PTL DEF Spec

\* The buffers, the indexes and the data register stay in range.
THEOREM TypeCorrect == Spec => []TypeOK
<1>1. IInv => TypeOK
  BY DEF IInv
<1> QED
  BY <1>1, Invariant, PTL

\* For any number of tasks and buffers of any length: app_data_compare returns
\* the right verdict when no other task used the CRC unit while it ran.
THEOREM UndisturbedCorrect == Spec => []UndisturbedIsCorrect
<1>1. IInv => UndisturbedIsCorrect
  BY DEF IInv
<1> QED
  BY <1>1, Invariant, PTL
-----------------------------------------------------------------------------
(* A lock around app_crc_calculate and its two calls *)

\* At most one task is between the two calls of HAL_CRC_Calculate: what a mutex
\* in app_data_compare would give, and what the code does not have.
Exclusive == \A t, u \in Tasks : InCrc(t) /\ InCrc(u) => t = u

\* What the task that has the unit knows of it, and what it has returned.
Knows(t) == /\ pc[t] = "feed expected" => DR = SubSeq(pair[t].expected, 1, fed[t])
            /\ pc[t] \in {"reset actual", "feed actual"} => crc[t] = pair[t].expected
            /\ pc[t] = "feed actual" => DR = SubSeq(pair[t].actual, 1, fed[t])

Right(t) == result[t] # "none" => result[t] = Expected(t)

\* Every comparison is right.
AllRight == \A t \in Tasks : Right(t)

ExclusiveInv == \A t \in Tasks : Knows(t) /\ Right(t)

\* A task that knows what it has fed keeps knowing it by its own steps, and
\* returns the right verdict.
LEMMA OwnKnowledge ==
  ASSUME IInv, NEW t \in Tasks, Step(t), Knows(t), Right(t)
  PROVE  Knows(t)' /\ Right(t)'
<1>1. /\ pc \in [Tasks -> Labels] /\ pair \in [Tasks -> Pairs]
      /\ fed \in [Tasks -> Nat] /\ crc \in [Tasks -> Seq(Words)]
      /\ result \in [Tasks -> {"none", "OK", "FAIL"}]
  BY DEF IInv, TypeOK
<1>2. ProgressOK(t)
  BY DEF IInv
<1>3. /\ pair[t].expected \in Seq(Words) /\ pair[t].actual \in Seq(Words)
      /\ Len(pair[t].expected) = Len(pair[t].actual)
      /\ Len(pair[t].expected) \in Nat /\ fed[t] \in Nat
  BY <1>1, PairsAreSequences
<1>4. CASE \E q \in Pairs : Call(t, q)
  BY <1>1, <1>4 DEF Call, Goto, Knows, Right
<1>5. CASE RejectEmpty(t) \/ CompareBytes(t)
  <2>1. /\ pc'[t] = "idle" /\ pair' = pair
        /\ result'[t] = IF Length(t) = 0 THEN "FAIL" ELSE Verdict(Same(t))
    BY <1>1, <1>5 DEF RejectEmpty, CompareBytes, Return, Goto, Same
  <2> QED
    BY <2>1 DEF Knows, Right, Expected, Verdict, Length, Same
<1>6. CASE CompareCrc(t)
  BY <1>1, <1>6 DEF CompareCrc, Goto, Knows, Right, Expected, Length, Same
<1>7. CASE ResetExpected(t) \/ ResetActual(t)
  <2>1. /\ \/ pc[t] = "reset expected" /\ pc'[t] = "feed expected"
           \/ pc[t] = "reset actual" /\ pc'[t] = "feed actual"
        /\ UNCHANGED <<pair, crc, result>>
        /\ fed'[t] = 0 /\ DR' = <<>>
    BY <1>1, <1>7 DEF ResetExpected, ResetActual, Reset, Goto
  <2>2. SubSeq(pair[t].expected, 1, 0) = <<>> /\ SubSeq(pair[t].actual, 1, 0) = <<>>
    BY SubSeqEmpty
  <2> QED
    BY <2>1, <2>2 DEF Knows, Right, Expected, Length, Same
<1>8. CASE FeedExpected(t)
  <2>1. /\ pc[t] = "feed expected" /\ UNCHANGED <<pc, pair, result>>
        /\ fed'[t] = fed[t] + 1 /\ fed[t] < Len(pair[t].expected)
        /\ DR' = Append(DR, pair[t].expected[fed[t] + 1])
    BY <1>1, <1>8 DEF FeedExpected, Feed
  <2>2. DR' = SubSeq(pair[t].expected, 1, fed[t] + 1)
    BY <1>3, <2>1, FeedOne DEF Knows
  <2> QED
    BY <2>1, <2>2 DEF Knows, Right, Expected, Length, Same
<1>9. CASE FeedActual(t)
  <2>1. /\ pc[t] = "feed actual" /\ UNCHANGED <<pc, pair, crc, result>>
        /\ fed'[t] = fed[t] + 1 /\ fed[t] < Len(pair[t].actual)
        /\ DR' = Append(DR, pair[t].actual[fed[t] + 1])
    BY <1>1, <1>9 DEF FeedActual, Feed
  <2>2. DR' = SubSeq(pair[t].actual, 1, fed[t] + 1)
    BY <1>3, <2>1, FeedOne DEF Knows
  <2> QED
    BY <2>1, <2>2 DEF Knows, Right, Expected, Length, Same
<1>10. CASE ReadExpected(t)
  <2>1. /\ pc[t] = "feed expected" /\ pc'[t] = "reset actual"
        /\ UNCHANGED <<pair, result>>
        /\ crc'[t] = DR /\ fed[t] = Len(pair[t].expected)
    BY <1>1, <1>10 DEF ReadExpected, Goto
  <2>2. DR = pair[t].expected
    BY <1>3, <2>1, SubSeqFull DEF Knows
  <2> QED
    BY <2>1, <2>2 DEF Knows, Right, Expected, Length, Same
<1>11. CASE ReadActual(t)
  <2>1. /\ pc[t] = "feed actual" /\ pc'[t] = "idle" /\ pair' = pair
        /\ result'[t] = Verdict(crc[t] = DR) /\ fed[t] = Len(pair[t].actual)
    BY <1>1, <1>11 DEF ReadActual, Return, Goto
  <2>2. DR = pair[t].actual /\ crc[t] = pair[t].expected
    BY <1>3, <2>1, SubSeqFull DEF Knows
  <2>3. Length(t) # 0
    <3>1. Length(t) > CrcMinLen
      BY <1>2, <2>1 DEF ProgressOK, InCrc
    <3>2. Length(t) \in Nat /\ CrcMinLen \in Nat
      BY <1>3, CompareAssumption DEF Length
    <3> QED
      BY <3>1, <3>2
  <2> QED
    BY <2>1, <2>2, <2>3 DEF Knows, Right, Expected, Verdict, Length, Same
<1> QED
  BY <1>4, <1>5, <1>6, <1>7, <1>8, <1>9, <1>10, <1>11 DEF Step

\* Only a task in its CRC calls writes to the data register.
LEMMA RegisterOwner ==
  ASSUME NEW t \in Tasks, Step(t), ~InCrc(t)
  PROVE  DR' = DR
BY DEF Step, Call, RejectEmpty, CompareBytes, CompareCrc, ResetExpected, FeedExpected,
   ReadExpected, ResetActual, FeedActual, ReadActual, Reset, Feed, InCrc

LEMMA ExclusiveStep == IInv /\ ExclusiveInv /\ Exclusive /\ [Next]_vars => ExclusiveInv'
<1> SUFFICES ASSUME IInv, ExclusiveInv, Exclusive, [Next]_vars, NEW u \in Tasks
             PROVE  Knows(u)' /\ Right(u)'
  BY DEF ExclusiveInv
<1>1. Knows(u) /\ Right(u)
  BY DEF ExclusiveInv
<1>2. ASSUME NEW t \in Tasks, Step(t)
      PROVE  Knows(u)' /\ Right(u)'
  <2>1. CASE u = t
    BY <1>1, <1>2, <2>1, OwnKnowledge
  <2>2. CASE u # t
    <3>1. /\ pc'[u] = pc[u] /\ pair'[u] = pair[u] /\ fed'[u] = fed[u]
          /\ crc'[u] = crc[u] /\ result'[u] = result[u]
      BY <1>2, <2>2, OtherTask DEF IInv
    <3>2. InCrc(u) => DR' = DR
      BY <1>2, <2>2, RegisterOwner DEF Exclusive
    <3>3. QED
      BY <1>1, <3>1, <3>2 DEF Knows, Right, InCrc, Expected, Length, Same
  <2>3. QED
    BY <2>1, <2>2
<1>3. CASE UNCHANGED vars
  BY <1>1, <1>3 DEF vars, Knows, Right, Expected, Length, Same
<1>4. QED
  BY <1>2, <1>3 DEF Next

\* The lock that is missing is all that is missing: as long as at most one task
\* is in its CRC calls every comparison of any buffers is right, so that no
\* mismatch goes unreported.
THEOREM LockSuffices == Spec /\ []Exclusive => [](AllRight /\ MismatchIsReported)
<1>1. Init => ExclusiveInv
  BY DEF Init, ExclusiveInv, Knows, Right
<1>2. ExclusiveInv => AllRight /\ MismatchIsReported
  BY DEF ExclusiveInv, AllRight, Right, MismatchIsReported
<1>3. QED
  BY <1>1, <1>2, ExclusiveStep, Invariant, PTL DEF Spec

\* With one task that compares there is nothing to lock.
THEOREM OneTaskIsRight ==
  ASSUME \A t, u \in Tasks : t = u
  PROVE  Spec => []MismatchIsReported
<1>1. Exclusive
  BY DEF Exclusive
<1>2. []Exclusive
  BY <1>1, PTL
<1>3. QED
  BY <1>2, LockSuffices, PTL
=============================================================================
