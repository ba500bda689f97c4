SPECIFICATION Spec
CONSTANTS
    a1 = a1  a2 = a2  t1 = t1  t2 = t2  c1 = c1  c2 = c2
    Addresses = {a1, a2}  Tokens = {t1, t2}  ClientIds = {c1, c2}
    TokensOf <- TwoTokens
    ClientIdOf <- TwoIds
    ValidTokens = {t1}
    ZeroKey = ZeroKey  NoClient = NoClient
    TimeoutEnabled = TRUE  Encrypted = TRUE  Lossy = FALSE
    max_clients = 1  RedundantLimit = 1  MaxReceivers = 2
    NAddresses = 1  ServerIndex = 0  DisconnectLimit = 1  MaxStarts <- FirstTwice
CHECK_DEADLOCK FALSE
INVARIANT ListsMatchStates
INVARIANT SessionsMatchPeers
INVARIANT ReceiversHavePeers
INVARIANT ConnectedPeersHaveTokens
INVARIANT ClientIsItsPhase
PROPERTY ImplementsHandshake
