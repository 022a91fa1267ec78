---------------------------- MODULE MCCrcCompare ----------------------------
(* Instances of CrcCompare for TLC. *)
EXTENDS CrcCompare

\* Buffers that are empty, short, and long enough for the CRC, equal and not.
MCPairs == {[expected |-> <<>>, actual |-> <<>>],
            [expected |-> <<"a">>, actual |-> <<"a">>],
            [expected |-> <<"a">>, actual |-> <<"b">>],
            [expected |-> <<"a", "b">>, actual |-> <<"a", "b">>],
            [expected |-> <<"a", "b">>, actual |-> <<"a", "a">>]}
=============================================================================
