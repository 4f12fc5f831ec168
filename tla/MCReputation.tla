------------------------------ MODULE MCReputation ------------------------------
EXTENDS Reputation, TLC

\* Bounties and updates in flight are interchangeable.
Symmetry == Permutations(Bounties) \cup Permutations(Handlers)
=================================================================================
