\* One execution, which may find its payment invalid or have its rail throw.
SPECIFICATION ResilientSpec
CONSTANTS
    Payments = {p1}
    MaxAttempts = 1
    Executions <- MCExecutions
    Faults = {"execution"}
    HasReceipts = FALSE
    Fallback = None
    ThrownFailures = {None}
    None = None
INVARIANTS
    CompletedEventIsTrue
CHECK_DEADLOCK FALSE
