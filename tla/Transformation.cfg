SPECIFICATION FairSpec
CONSTANTS
    Handlers = {h1, h2}
    Events <- MCEvents
    Pipelines <- MCPipelines
    Paths <- MCPaths
    Variables <- MCVariables
    Texts <- MCTexts
    parseJSON <- MCparseJSON
    Undecodable <- MCUndecodable
    Nil = Nil
    Unset = Unset
    Malformed = Malformed
    Torn = Torn
INVARIANTS TypeOK Isolated NoVariableLeak
PROPERTIES AllAnswered
CHECK_DEADLOCK FALSE
