SPECIFICATION Spec
CONSTANTS
    m1 = m1
    m2 = m2
    m3 = m3
    m4 = m4
    m5 = m5
    p = p
    d = d
    c1 = c1
    c2 = c2
    Order = 3
    NoOutput = nooutput
    Word = 16
    Maker = {m1, m2, m3, m4, m5}
    Nobody = nobody
    BadKey = badkey
    Markets <- MarketsMC
    Directories <- DirectoriesMC
    Attempt = {p, d}
    Sources <- SourcesMC
    Self = m2
    TriggerBatch <- TriggerMC
    WaitPendingZero <- WaitMC
    Vault <- VaultMC
    Destinations = {"mweb", "other", ""}
    Amounts <- AmountsMC
    Coin = {c1, c2}
    CoinOf <- CoinMC
    Spendable = {c1, c2}
    PubkeyMap = {m1, m2, m3}
    Draws <- DrawsMC
    MaxFilings = 2
CHECK_DEADLOCK FALSE
INVARIANTS
    TypeOK
    OnionPaysItsCoin
    SoundRoutePeels
    DirectoryRoutePasses
    NoAffordableRouteMissed
    RefusedIsNotQueued
    ClearedIsGone
    FiledIsOpen
