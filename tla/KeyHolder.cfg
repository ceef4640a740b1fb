CONSTANTS
    c1 = c1
    c2 = c2
    k1 = k1
    k2 = k2
    k3 = k3
    k4 = k4
    NoKid = NoKid
    None = None
    Caller = {c1, c2}
    Kid = {k1, k2, k3, k4}
    MaxRestarts = 1
    Factory = {c1}
    Dpop <- DpopCalls
    MaxSent = 1
SPECIFICATION TFairSpec
INVARIANTS
    TypeOK
    TokenTypeOK
    SignerHasKey
    JwksVerifiesEarlierSignatures
    KeysBoundedByColdCallers
PROPERTIES
    AcceptedUnlessRestarted
    EveryCallReturns
