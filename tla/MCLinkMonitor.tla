---------------------------- MODULE MCLinkMonitor ----------------------------
(* Instances of LinkMonitor for TLC. *)
EXTENDS LinkMonitor

Case(boot, packets, changes, silences) ==
    [boot |-> boot, packets |-> packets, changes |-> changes, silences |-> silences]

\* Commands that fill the queue; commands while the cable changes; a cable that
\* changes much; receives that time out.
MCCases == { Case({"100"}, 3, 0, 0),
             Case({"100"}, 2, 1, 0),
             Case({"down"}, 1, 1, 0),
             Case({"down", "negotiating", "100"}, 0, 3, 0),
             Case({"100"}, 1, 0, 1) }
=============================================================================
