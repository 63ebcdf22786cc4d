SPECIFICATION Spec
CONSTANTS
    alone = alone pair = pair t1 = t1 t2 = t2 t3 = t3 c1 = c1 c2 = c2 c3 = c3 c4 = c4
    Browsers = {alone, pair}
    Tabs = {t1, t2, t3}
    Calls = {c1, c2, c3, c4}
    BrowserOf <- InBrowser
    TabOf <- InTab
    Lossy = {pair}
    Faults = TRUE
    MaxId = 4
    MaxExpired = 1
    MaxRequests = 3
CHECK_DEADLOCK FALSE
INVARIANTS
    TypeOK
    OwnTokensGood
    LiveSinceChange
PROPERTIES
    PromiseKept
