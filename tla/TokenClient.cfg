\* Two tabs, three requests, one fault, two token pairs.
SPECIFICATION Spec
CONSTANTS
    t1 = t1
    t2 = t2
    r1 = r1
    r2 = r2
    r3 = r3
    Tabs = {t1, t2}
    Requests = {r1, r2, r3}
    TabOf <- MCTabOf
    MaxPairs = 2
    MaxFaults = 1
INVARIANTS TypeOK OneRefreshServesTheQueue NoTokenSpentTwice StoredTokenIsCurrent UserOwnsTokens
PROPERTIES EveryRequestSettles
