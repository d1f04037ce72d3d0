------------------------ MODULE MCTwoPhaseDiscovery ------------------------
EXTENDS TwoPhaseDiscovery

CONSTANTS h1, h2, h3

\* Three resolver lines, one without and one with a port, between a comment
\* and a blank line.
MCLines ==
  << [host |-> h1, port |-> FALSE], Comment,
     [host |-> h2, port |-> TRUE], Blank,
     [host |-> h3, port |-> FALSE] >>

=============================================================================
