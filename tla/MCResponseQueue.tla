-------------------------- MODULE MCResponseQueue --------------------------
(* An instance of ResponseQueue for TLC. *)
EXTENDS ResponseQueue

\* The server has one producer, its receive thread; with a second one producers
\* too meet each other at the mutex.
MCProducers == {"rx", "other"}
MCConsumers == {"writer"}
MCClosers == {"main"}

MCRecords == {[test_id |-> 1, result |-> "SUCCESS"],
              [test_id |-> 2, result |-> "FAIL"]}
MCNoRecord == [test_id |-> 0, result |-> "zero"]
=============================================================================
