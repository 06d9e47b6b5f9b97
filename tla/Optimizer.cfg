CONSTANTS
    Anchor = "anchor"
    Store = "store"
    Universe = 4
    Scale = 1024
    NoBound <- MCNone
    NoKeys <- MCNone
    Problems <- MCProblems
    Rates <- MCRates
    MoneyWeight = 2
    ExactWeight = 4
    ShortlistWeight = 5
SPECIFICATION Spec
CHECK_DEADLOCK FALSE
INVARIANTS
    ChoiceIsOptimal
    EstimateIsOfTheSchedule
    TiesKeepTheRules
    RuleIsAStrategy
