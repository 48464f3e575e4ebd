\* Three preparations: a retry after a rejection, and one after that.
SPECIFICATION FairSpec
CONSTANTS
    MaxPreparations = 3
    MaxAttempts = 3
    None = None
INVARIANTS
    OneTransactionIsOffered
    VerdictsAreTrue
PROPERTIES
    ImplementsSinglePayment
    DecisionIsLearnt
CHECK_DEADLOCK FALSE
