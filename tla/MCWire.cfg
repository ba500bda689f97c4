SPECIFICATION MCSpec
CONSTANTS
    VersionInfo <- MCVersion
    OtherVersion <- MCOther
    HmacBytes = 2
    NonceBytes = 2
    KeyBytes = 1
    UserBytes = 1
    PrivateBytes = 60
    ChallengeBytes = 12
    BodyCapacity = 120
    MaxAddresses = 2
    Tokens <- MCTokens
    Numbers <- MCNumbers
    Contents <- MCContents
    Bytes = {0, 97}
    MaxPackets = 3
    MaxDamaged = 1
    Senders = {sender}
    Receivers = {receiver}
    Rounds = {round}
    StopTask = StopTask
    Peers = {peer}
    None = None
    Kinds <- MCKinds
    MaxStarts <- MCMaxStarts
    MaxLives = 2
INVARIANTS NothingElseIsTaken FragmentsComeThrough
PROPERTIES WholeIsTaken PassesServeTheirPeers
CHECK_DEADLOCK FALSE
