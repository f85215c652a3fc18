CONSTANTS
    None = None
    Error = Error
    NaN = NaN
    Malformed = Malformed
    Pending = Pending
    Whole = 2
    MaxLatency = 2
    Json <- MCJson
    SchemaParts <- MCSchemaParts
    Nesting <- MCNesting
    Sessions = {s}
    Labels = {x, y, z}
    Callbacks = {f, h}
    Answers <- MCAnswers
    RuleLists <- MCRuleLists
    Contexts <- MCContexts
    Accepts <- Accepted
    Concludes <- Evaluate
    MaxAdded = 4
SPECIFICATION Spec
INVARIANTS EvidenceNamesItsSource BatchCountsAPrefix RulesJudgeBySchema
