---------------------------- MODULE MCResolverScan ----------------------------
(* Three candidates (one with an explicit port) among a comment and a     *)
(* blank line.  A concurrency of 1 gives resultChan a capacity of 2, less *)
(* than the candidate count, so a sender can block on a full channel.      *)
(* Latencies 100 and 700 fall on either side of the 500 ms cut.            *)
EXTENDS ResolverScan

CONSTANTS h1, h2, h3

MCLines == << [host |-> h1, port |-> FALSE], Comment,
              [host |-> h2, port |-> TRUE], Blank,
              [host |-> h3, port |-> FALSE] >>
=============================================================================
