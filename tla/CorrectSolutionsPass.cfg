\* Two problems: one whose answer may be in any order, one of tree nodes.
SPECIFICATION GradingSpec
CONSTANTS
    Problems <- Examples
    Customs <- MCCustoms
    MaxSurprises = 2
INVARIANT CorrectSolutionsPass
