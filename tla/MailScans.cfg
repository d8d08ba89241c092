SPECIFICATION ScanSpec
CONSTANTS
    checking = checking
    processing = processing
    preparing = preparing
    Posts = {p1, p2, p3, p4}
    Codes = {checking, processing, preparing}
    MailCodes = {checking, processing, preparing}
    Text = m1
    Messages = {m1}
    Requests <- DashboardRequests
    Plan <- MCPlan
    Providers = {gmail, outlook}
    MaxAttempts = 2
    MaxQueue = 2
    Reported = {"connecting", "running", "succeeded", "failed"}
    MaxTroubles = 1
    NoTurn = NoTurn
    NoRequest = NoRequest
SYMMETRY Symmetry
INVARIANTS
    ScanTypeOK
    TurnCoherent
    VerdictStored
    OnlyRelapseRefused
PROPERTIES
    LostByOverlap
    EndKept
CHECK_DEADLOCK FALSE
