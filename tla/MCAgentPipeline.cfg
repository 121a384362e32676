SPECIFICATION FairSpec
CONSTANTS
    s1 = s1
    s2 = s2
    Sessions = {s1, s2}
    Exchanges = {x1, x2}
    Policies <- MCPolicies
    Messages <- MCMessages
    PlannerArgs <- MCPlannerArgs
    Answers <- MCAnswers
    Workers = 1
    MaxFaults = 1
CHECK_DEADLOCK FALSE
INVARIANTS
    PlansPermitted
    PromptExact
PROPERTIES
    AnsweredIsStored
    ForgottenIsGone
    NoLateStart
    ExchangeEnds
