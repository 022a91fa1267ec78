------------------------- MODULE MCFirmwarePipeline -------------------------
(* Instances of FirmwarePipeline for TLC. *)
EXTENDS FirmwarePipeline

\* The peripheral of each command: two tests of one peripheral, one of another
\* and a command whose peripheral field names none.
MCPeripheralOf == <<"TIMER", "UART", "TIMER", "LCD">>

\* Queues that are full with one item, but for the command queue, where two
\* commands can change places.
MCQueueLength == [q \in Queues |-> IF q = "command" THEN 2 ELSE 1]

\* Every command once.
MCMaxPackets == [i \in Ids |-> 1]
=============================================================================
