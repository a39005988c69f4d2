SPECIFICATION ChainSpec
CONSTANTS
    m1 = m1  m2 = m2  agent = agent  stage = stage
    Chain <- MCChain
    Asks = {agent, stage}
    KindOf <- MCKindOf
    Patience <- MCPatience
    ProviderTimeout = 4  MaxWait = 1  Cooldown = 20  MaxAttempts = 3
    Nothing = Nothing
INVARIANTS
    ChainTypeOK
    BestAnswerIsKept
    SpentIsLeftAlone
CHECK_DEADLOCK FALSE
