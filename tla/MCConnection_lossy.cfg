SPECIFICATION LossySpec
CONSTANTS
    a1 = a1  a2 = a2  t1 = t1  t2 = t2  c1 = c1  c2 = c2
    Addresses = {a1}  Tokens = {t1, t2}  ClientIds = {c1, c2}
    TokensOf <- AnyToken
    ClientIdOf <- TwoIds
    ValidTokens = {t1}
    ZeroKey = ZeroKey  NoClient = NoClient
    TimeoutEnabled = FALSE  Encrypted = FALSE  Lossy = TRUE
    max_clients = 1  RedundantLimit = 1  MaxReceivers = 1
    NAddresses = 1  ServerIndex = 0  DisconnectLimit = 1  MaxStarts <- Twice
CHECK_DEADLOCK FALSE
PROPERTY ResponseSucceeds
