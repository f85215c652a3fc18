CONSTANTS
    Agents = {a, v}
    a = a
    v = v
    Tasks = {t1, t2}
    NoTask = NoTask
    NoCall = NoCall
    NoRecord = NoRecord
    Admin = Admin
    Opinion <- MCOpinion
    Vacuous <- MCVacuous
    DogmaticTrust <- MCDogmatic
    Evidence <- MCEvidence
    EvidenceOpinion <- MCEvidenceOpinion
    Fuse <- MCFuse
    Discount <- MCDiscount
    Merge <- MCMerge
    Decay <- MCDecay
    Trusted <- MCTrusted
    Referrals <- MCReferrals
    NoReferral <- MCNoReferral
    MaxAge = 0
    MaxCalls = 3
    MaxClock = 1
    Requests <- ManagerRequests
    Faults = {"get", "put", "delete", "ledger", "emit", "ids", "wipe", "load"}

SPECIFICATION FairSpec

INVARIANTS
    TypeOK
    CommitsAreCurrent
    LedgerNeverAhead

PROPERTIES
    EvictionSparesTheFresh
    ImportInstallsSnapshot
    StepsAreAtomic
    EveryCallReturns
