-------------------------- MODULE MCJetstreamFeed --------------------------
(* Instances of JetstreamFeed for TLC. *)
EXTENDS JetstreamFeed

CONSTANTS h1, h2

\* A single host, by whose clock all stamps are.
NoSkew == [h \in Host |-> 0]

\* The second host's stamps are a commit ahead of the first's.
SecondAhead == [h \in Host |-> IF h = h2 THEN MaxSkew ELSE 0]
=============================================================================
