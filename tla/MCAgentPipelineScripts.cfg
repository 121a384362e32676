SPECIFICATION Spec
CONSTANTS
    s1 = s1
    s2 = s2
    Sessions = {s1, s2}
    Exchanges = {x1}
    Policies <- MCPolicies
    Messages <- MCMessages
    PlannerArgs <- MCPlannerArgs
    Answers <- MCAnswers
    Workers = 1
    MaxFaults = 0
CHECK_DEADLOCK FALSE
INVARIANTS
    ScriptsAuthorized
