\* Three participants of three types, created or onboarded, closed and activated,
\* written back by any copy; two payments; evidence just below each level; a fee
\* rate below, within and above the bounds; errors up to one grain.
SPECIFICATION Spec
CONSTANTS
    Ids = {"matt", "pizza", "bot"}
    TypeOf <- MCTypeOf
    Statuses = {"active", "closed"}
    Amounts = {0, 3}
    Rates <- MCRates
    Grain = 1
    Roundings <- MCRoundings
    PastEvidence <- MCPastEvidence
    MaxPayments = 2
VIEW WhatMatters
INVARIANTS
    TypeOK
    FeesAreAccountedFor
    EvidenceMatchesAnalytics
PROPERTIES
    TrustIsKept
