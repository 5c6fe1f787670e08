SPECIFICATION Spec
CONSTANTS
    Ringer <- MCRinger
    Env <- MCEnv
    NoEnv = "none"
    SignedEnv <- MCSigned
    RfcSigned = TRUE
    Lengths <- MCLengths
INVARIANTS TypeOK StagedContentStays SignatureMatches CurlAlive RandTTold
