\* The curated problems without the wrong ones; up to one custom case; of the answers of
\* one execution at most two are surprising.
SPECIFICATION GradingSpec
CONSTANTS
    Problems <- MCProblems
    Customs <- MCCustoms
    MaxSurprises = 2
INVARIANT ResultMatchesAnswers HiddenStayHidden PassedIsAccepted PlainSolutionsPass
