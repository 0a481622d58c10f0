SPECIFICATION Spec
CONSTANTS
    Handlers = {h1, h2}
    Events <- MCEvents
    Pipelines <- VariableDelete
    Paths <- MCPaths
    Variables <- MCVariables
    Texts <- MCTexts
    parseJSON <- MCparseJSON
    Undecodable <- MCUndecodable
    Nil = Nil
    Unset = Unset
    Malformed = Malformed
    Torn = Torn
INVARIANT FilterIsOwn
CHECK_DEADLOCK FALSE
