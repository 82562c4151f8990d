\* The process with one connection at a time.
CONSTANTS
    None = None
    ValidNames <- ConfigNames
    ValidBuckets <- ConfigBuckets
    Users <- Logins
    Keys <- TwoKeys
    Owned <- OneKey
    StaticKeys <- OneKey
    Answers <- TreeAnswers
    Policies <- SomePolicies
    MaxTries = 2
    Alives <- SomeAlives
    Documents <- EveryDocument
SPECIFICATION Spec
INVARIANTS
    TypeOK
    ValidIsServed
    SessionIsVouchedFor
    NothingListensAfter
    ProbesAreFew
PROPERTIES
    KeptWhileItAnswers
    EverythingEnds
CHECK_DEADLOCK FALSE
