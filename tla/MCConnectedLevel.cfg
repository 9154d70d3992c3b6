SPECIFICATION FairSpec
CONSTANTS
    CloudFailThreshold = 2
    MaxDrops = 3
INVARIANTS
    TypeOK
    CloudLevelFollowsAnswers
    BrokerHoldsDecidedLevel
    StoppedMeansOffline
PROPERTIES
    LocalLevelSettles
