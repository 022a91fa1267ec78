----------------------------- MODULE CrcCompare -----------------------------
(***************************************************************************)
(* app_data_compare (app_data_compare.c), app_crc_calculate (app_crc.c)    *)
(* and the CRC unit behind HAL_CRC_Calculate, called by the UART, SPI and  *)
(* I2C test tasks to check the data they received.                         *)
(*                                                                         *)
(* The three tasks have the same priority and FreeRTOS switches between    *)
(* them at any tick, so a task may lose the processor between two accesses *)
(* to the unit.  There is one unit and one handle, and no lock.            *)
(*                                                                         *)
(* A buffer is a sequence of the words HAL_CRC_Calculate feeds to the data *)
(* register.  The register stands for the words fed since its last reset:  *)
(* CRC-32 collisions, one in 2^32, are left out.                           *)
(***************************************************************************)
EXTENDS Naturals, Sequences

CONSTANTS Tasks,       \* the tasks that call app_data_compare
          Words,       \* contents of a word
          CrcMinLen,   \* APP_DATA_COMPARE_CRC_MIN_LEN, in words
          Pairs        \* pairs of buffers of one length that are compared

ASSUME CompareAssumption ==
    /\ CrcMinLen \in Nat
    /\ Pairs \subseteq [expected : Seq(Words), actual : Seq(Words)]
    /\ \A q \in Pairs : Len(q.expected) = Len(q.actual)

VARIABLES pc,          \* where each task is in app_data_compare
          pair,        \* its arguments
          fed,         \* how many words of the current buffer it has fed
          crc,         \* the first of the two CRC values
          result,      \* what its last comparison returned
          DR,          \* the words that make up the value of hcrc.Instance->DR
          disturbed    \* history: another task used the unit during its compare

vars == <<pc, pair, fed, crc, result, DR, disturbed>>

Init == /\ pc = [t \in Tasks |-> "idle"]
        /\ pair \in [Tasks -> Pairs]
        /\ fed = [t \in Tasks |-> 0]
        /\ crc = [t \in Tasks |-> <<>>]
        /\ result = [t \in Tasks |-> "none"]
        /\ DR = <<>>
        /\ disturbed = [t \in Tasks |-> FALSE]

Goto(t, label) == pc' = [pc EXCEPT ![t] = label]

\* The task has used the CRC unit: a comparison of another task is disturbed.
UseUnit(t) == disturbed' = [u \in Tasks |-> disturbed[u] \/ u # t]

Verdict(match) == IF match THEN "OK" ELSE "FAIL"

Call(t, q) == /\ pc[t] = "idle"
              /\ pair' = [pair EXCEPT ![t] = q]
              /\ result' = [result EXCEPT ![t] = "none"]
              /\ disturbed' = [disturbed EXCEPT ![t] = FALSE]
              /\ Goto(t, "check")
              /\ UNCHANGED <<fed, crc, DR>>

Return(t, verdict) == /\ result' = [result EXCEPT ![t] = verdict]
                      /\ Goto(t, "idle")

Length(t) == Len(pair[t].expected)

RejectEmpty(t) == /\ pc[t] = "check"
                  /\ Length(t) = 0
                  /\ Return(t, "FAIL")
                  /\ UNCHANGED <<pair, fed, crc, DR, disturbed>>

\* memcmp reads nothing but the two buffers.
CompareBytes(t) == /\ pc[t] = "check"
                   /\ Length(t) # 0 /\ Length(t) <= CrcMinLen
                   /\ Return(t, Verdict(pair[t].expected = pair[t].actual))
                   /\ UNCHANGED <<pair, fed, crc, DR, disturbed>>

CompareCrc(t) == /\ pc[t] = "check"
                 /\ Length(t) > CrcMinLen
                 /\ Goto(t, "reset expected")
                 /\ UNCHANGED <<pair, fed, crc, result, DR, disturbed>>

-----------------------------------------------------------------------------
(* HAL_CRC_Calculate, called for the one buffer and then for the other *)

\* Mutant: the unit is not reset before the second buffer.
ResetFirstOnly(t, from, to) ==
    /\ pc[t] = from
    /\ DR' = IF from = "reset expected" THEN <<>> ELSE DR
    /\ fed' = [fed EXCEPT ![t] = 0]
    /\ UseUnit(t)
    /\ Goto(t, to)
    /\ UNCHANGED <<pair, crc, result>>

Reset(t, from, to) == /\ pc[t] = from
                      /\ DR' = <<>>
                      /\ fed' = [fed EXCEPT ![t] = 0]
                      /\ UseUnit(t)
                      /\ Goto(t, to)
                      /\ UNCHANGED <<pair, crc, result>>

Feed(t, at, buffer) == /\ pc[t] = at
                       /\ fed[t] < Len(buffer)
                       /\ DR' = Append(DR, buffer[fed[t] + 1])
                       /\ fed' = [fed EXCEPT ![t] = @ + 1]
                       /\ UseUnit(t)
                       /\ UNCHANGED <<pc, pair, crc, result>>

ResetExpected(t) == Reset(t, "reset expected", "feed expected")
FeedExpected(t) == Feed(t, "feed expected", pair[t].expected)

ReadExpected(t) == /\ pc[t] = "feed expected"
                   /\ fed[t] = Len(pair[t].expected)
                   /\ crc' = [crc EXCEPT ![t] = DR]
                   /\ Goto(t, "reset actual")
                   /\ UNCHANGED <<pair, fed, result, DR, disturbed>>

ResetActual(t) == Reset(t, "reset actual", "feed actual")
FeedActual(t) == Feed(t, "feed actual", pair[t].actual)

\* Mutant: the index of the next call starts where this one ended.
ReadActualKeepingIndex(t) ==
    /\ pc[t] = "feed actual"
    /\ fed[t] = Len(pair[t].actual)
    /\ Return(t, Verdict(crc[t] = DR))
    /\ crc' = [crc EXCEPT ![t] = <<>>]
    /\ UNCHANGED <<pair, fed, DR, disturbed>>

\* The second value is read and the two are compared.
ReadActual(t) == /\ pc[t] = "feed actual"
                 /\ fed[t] = Len(pair[t].actual)
                 /\ Return(t, Verdict(crc[t] = DR))
                 /\ fed' = [fed EXCEPT ![t] = 0]
                 /\ crc' = [crc EXCEPT ![t] = <<>>]
                 /\ UNCHANGED <<pair, DR, disturbed>>
-----------------------------------------------------------------------------
Step(t) == \/ \E q \in Pairs : Call(t, q)
           \/ RejectEmpty(t)
           \/ CompareBytes(t)
           \/ CompareCrc(t)
           \/ ResetExpected(t)
           \/ FeedExpected(t)
           \/ ReadExpected(t)
           \/ ResetActual(t)
           \/ FeedActual(t)
           \/ ReadActual(t)

Next == \E t \in Tasks : Step(t)

Spec == Init /\ [][Next]_vars
-----------------------------------------------------------------------------
Labels == {"idle", "check", "reset expected", "feed expected", "reset actual",
           "feed actual"}

TypeOK ==
    /\ pc \in [Tasks -> Labels]
    /\ pair \in [Tasks -> Pairs]
    /\ fed \in [Tasks -> Nat]
    /\ \A t \in Tasks : fed[t] <= Length(t)
    /\ crc \in [Tasks -> Seq(Words)]
    /\ result \in [Tasks -> {"none", "OK", "FAIL"}]
    /\ DR \in Seq(Words)
    /\ disturbed \in [Tasks -> BOOLEAN]

Same(t) == pair[t].expected = pair[t].actual

\* What the comparison of task t should return.
Expected(t) == Verdict(Length(t) # 0 /\ Same(t))

\* A comparison is right if no other task used the CRC unit while it ran, and
\* one of short buffers is right whatever the other tasks do.
UndisturbedIsCorrect ==
    \A t \in Tasks : /\ result[t] # "none"
                     /\ ~disturbed[t] \/ Length(t) <= CrcMinLen
                     => result[t] = Expected(t)

\* app_data_compare.c: returns "APP_DATA_COMPARE_FAIL otherwise".
MismatchIsReported ==
    \A t \in Tasks : result[t] # "none" /\ Expected(t) = "FAIL"
                       => result[t] = "FAIL"
=============================================================================
