SPECIFICATION FairSpec
CONSTANT N = 2
CONSTANT Callers <- MCCallers
CONSTANT Kinds <- MCKinds
CONSTANT Times <- MCTimes
CONSTANT MaxEvents = 3
INVARIANT FlashFollows
INVARIANT LatestIsFresh
PROPERTY ImplementsLog
