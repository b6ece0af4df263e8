SPECIFICATION FairSpec
CONSTANTS
    Users = {u1, u2}
    Guests = {g1, g2}
    Tx = {t1, t2, cleaner}
    Cleaner = cleaner
    None = None
INVARIANTS
    OwnersRight
    BatchReachesOwner
PROPERTIES
    OnlyStaleGuestsDeleted
    EveryoneAnswered
