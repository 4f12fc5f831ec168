------------------------------ MODULE MCContest ------------------------------
EXTENDS Contest, TLC
CONSTANTS r1, a1
SingleRegistration == r1 :> a1
==============================================================================
