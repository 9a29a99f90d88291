SPECIFICATION WalkSpec
CONSTANT Inputs <- Chains
INVARIANT FollowsChain
