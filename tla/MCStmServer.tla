--------------------------- MODULE MCStmServer ---------------------------
(* Instances of StmServer for TLC. *)
EXTENDS StmServer

\* Two of the five peripherals are enough for the index to wrap around.
MCPeripherals == <<"TIMER", "UART">>
=============================================================================
