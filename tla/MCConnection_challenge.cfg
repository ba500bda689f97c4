SPECIFICATION LossySpec
CONSTANTS
    a1 = a1  a2 = a2  t1 = t1  t2 = t2  c1 = c1  c2 = c2
    Addresses = {a1}  Tokens = {t1}  ClientIds = {c1}
    TokensOf <- OneToken
    ClientIdOf <- OneId
    ValidTokens = {t1}
    ZeroKey = ZeroKey  NoClient = NoClient
    TimeoutEnabled = FALSE  Encrypted = TRUE  Lossy = TRUE
    max_clients = 1  RedundantLimit = 1  MaxReceivers = 1
    NAddresses = 1  ServerIndex = 0  DisconnectLimit = 1  MaxStarts <- Once
CHECK_DEADLOCK FALSE
PROPERTY RequestAnswered
