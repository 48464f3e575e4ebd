\* One payment and its retry; every kind of step may throw, and the services,
\* the rail and the history may never answer.
SPECIFICATION FairResilientSpec
CONSTANTS
    Payments = {p1}
    MaxAttempts = 2
    Executions <- MCExecutions
    Faults = {"decision", "rail", "validation", "execution", "settlement",
              "receipt", "history", "listener"}
    HasReceipts = TRUE
    Fallback <- SmokeFallback
    ThrownFailures <- MixedFailures
    None = None
INVARIANTS
    ClaimsAreTrue
    EventsFollowTransaction
    ResentOnlyBlindly
    AnswerIsTrue
PROPERTIES
    TransactionMovesForward
    EngineAnswers
CHECK_DEADLOCK FALSE
