----------------------------- MODULE MCHarness ------------------------------
EXTENDS Harness, TLC

CONSTANTS sentry, lp, calm, wild, r1, r2, q1, q2

MCAgents == {sentry, lp}

MCManifest ==
  [a \in MCAgents |->
     IF a = sentry
       THEN [tiers |-> {0}, killSwitch |-> FALSE, metric |-> "wall_seconds",
             higherIsBetter |-> FALSE]
       ELSE [tiers |-> {1, 2}, killSwitch |-> TRUE, metric |-> "net_fees_usd",
             higherIsBetter |-> TRUE]]

\* The sentry may be faster or slower than the analyst, of whom one target has no
\* record. The rebalancer beats the static range when the market is wild.
MCAgentValue ==
  [a \in MCAgents |-> [d \in {calm, wild} |-> IF a = sentry THEN IF d = calm THEN {1, 12} ELSE {1}
                                              ELSE IF d = calm THEN {2} ELSE {5}]]

MCBaselineValue ==
  [a \in MCAgents |-> [d \in {calm, wild} |-> [gas \in {calm, wild} |->
     IF a = sentry THEN IF d = calm THEN 9 ELSE Missing
     ELSE (IF d = calm THEN 3 ELSE 1) - (IF gas = calm THEN 0 ELSE 1)]]]

\* Hires and requests are alike.
MCSymmetry == Permutations({r1, r2}) \cup Permutations({q1, q2})
=============================================================================
