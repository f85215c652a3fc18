CONSTANTS
    PriorWeight = 2
    Degenerate = 1000
    Evidence <- MCEvidence
    Authorities <- MCAuthorities
    Growth <- MCGrowth
    Floors <- MCFloors
    Ceilings <- MCCeilings
    MaxCount = 3
    MaxClock = 2
    MaxTaken = 1
SPECIFICATION AssessmentSpec
INVARIANTS
    TrustWithinEvidence OpinionIsEvidenceSum DecayIsScheduleFree FusionIgnoresOrder
    AveragingCountsNobodyTwice BaseRateStaysBetween ReplayAgrees SilenceNeverAdmits
    AllowedMeansEvidence NeedIsNeverOverstated
