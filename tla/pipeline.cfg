\* One execution: executions share nothing.  The default runtime has no receipts.
SPECIFICATION PipelineSpec
CONSTANTS
    Executions = {x1}
    Faults = {"decision", "rail", "validation", "execution", "settlement",
              "history", "listener"}
    HasReceipts = FALSE
    Requests <- MCRequests
    None = None
INVARIANTS
    NoTransferAgainstAVerdict
    StagesAreAccounted
PROPERTIES
    ImplementsRuntime
CHECK_DEADLOCK FALSE
