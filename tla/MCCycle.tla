------------------------------ MODULE MCCycle ------------------------------
EXTENDS Cycle, TLC

CONSTANTS t1, t2

\* A look that is clean, one with no reading, a suspicion (a holder moved) and
\* evidence for an exit (the sell failed).
Look(quote, moved) ==
  [sellQuote |-> quote, lp |-> "burned", liquidity |-> 100, entry |-> 100, authority |-> FALSE,
   blocked |-> FALSE, idleHours |-> 0, holderMoved |-> moved, safetyFailed |-> {}]
MCLooks == {Look("ok", 0), Look(Unknown, 10), Look("failed", 0)}
MCGains == {-1}
Symmetry == Permutations({t1, t2})

=============================================================================
