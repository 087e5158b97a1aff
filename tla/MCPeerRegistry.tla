--------------------------- MODULE MCPeerRegistry ---------------------------
(* Instances of PeerRegistry. *)
EXTENDS PeerRegistry
CONSTANTS p1, p2, f1, f2

NonEmpty == SUBSET Files \ {{}}
By(first, second) == [p \in Peers |-> IF p = p1 THEN first ELSE second]

\* nothing goes wrong: what remains is the interleaving
Steady == [punctual |-> TRUE, lifecycle |-> By("stays", "stays"), faults |-> {},
           shares |-> By(NonEmpty, {{f1}})]
\* a peer stops for good while another keeps its set alive
Leaving == [punctual |-> TRUE, lifecycle |-> By("stops", "stops"),
            faults |-> {"postgres"},
            shares |-> By({{f1}}, {{f1}})]
\* a peer comes back without the file, after its record expired or before
Returning == [punctual |-> TRUE, lifecycle |-> By("returns", "stays"),
              faults |-> {},
              shares |-> By({{f1}, {}}, {{f1}})]
\* one peer and a Redis whose commands fail
Failing == [punctual |-> FALSE, lifecycle |-> By("stays", "stays"),
            faults |-> {"redis"},
            shares |-> By({{f1}, {}}, {})]
Lone == [punctual |-> FALSE, lifecycle |-> By("stays", "stays"), faults |-> {},
         shares |-> By({{f1}}, {})]

AllRegimes == {Steady, Leaving, Returning, Failing}
LoneRegime == {Lone}
=============================================================================
