---------------------------- MODULE TestService ----------------------------
(***************************************************************************)
(* What the firmware promises a server about one test: a command that was  *)
(* received is answered once or lost, and every answer is that of a test   *)
(* that was run for a command that was received.  Nothing is said about    *)
(* the queues, the tasks or the order of the answers: FirmwarePipeline is  *)
(* shown to implement this module for each of its tests.                   *)
(***************************************************************************)
EXTENDS Naturals

CONSTANT Results      \* outcomes of a test

VARIABLES received,   \* how many times the command was received
          pending,    \* how many copies of the command are in the firmware
          verdicts,   \* outcomes of tests that were run and not yet answered
          answered    \* how many answers there have been, by outcome

vars == <<received, pending, verdicts, answered>>

Init == /\ received = 0
        /\ pending = 0
        /\ verdicts = [r \in Results |-> 0]
        /\ answered = [r \in Results |-> 0]

Accept == /\ received' = received + 1
          /\ pending' = pending + 1
          /\ UNCHANGED <<verdicts, answered>>

\* The test was run.
Run(r) == /\ pending > 0
          /\ pending' = pending - 1
          /\ verdicts' = [verdicts EXCEPT ![r] = @ + 1]
          /\ UNCHANGED <<received, answered>>

Answer(r) == /\ verdicts[r] > 0
             /\ verdicts' = [verdicts EXCEPT ![r] = @ - 1]
             /\ answered' = [answered EXCEPT ![r] = @ + 1]
             /\ UNCHANGED <<received, pending>>

LoseCommand == /\ pending > 0
               /\ pending' = pending - 1
               /\ UNCHANGED <<received, verdicts, answered>>

LoseAnswer(r) == /\ verdicts[r] > 0
                 /\ verdicts' = [verdicts EXCEPT ![r] = @ - 1]
                 /\ UNCHANGED <<received, pending, answered>>

Next == \/ Accept
        \/ LoseCommand
        \/ \E r \in Results : Run(r) \/ Answer(r) \/ LoseAnswer(r)

Spec == Init /\ [][Next]_vars
=============================================================================
