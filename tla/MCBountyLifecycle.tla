-------------------------- MODULE MCBountyLifecycle --------------------------
EXTENDS BountyLifecycle, TLC
CONSTANTS a1, a2, o1, o2
TwoOwners == a1 :> o1 @@ a2 :> o2
Nobody == <<>>
OneOwner == a1 :> o1
==============================================================================
