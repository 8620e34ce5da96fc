SPECIFICATION MLSpec
CONSTANTS
    a1 = a1
    a2 = a2
    j1 = j1
    u1 = u1
    u2 = u2
    None = None
    Jobs = {j1}
    Attempts = {a1, a2}
    JobOf <- MCJobOf
    Urls = {u1, u2}
    Configured = u1
    Offers <- MCOffers
    TTL = 1
    Refresh = 1
    MaxRetries = 1
    Trouble <- MCTrouble
INVARIANTS MLTypeOK RenderedOnce SucceededWasAnswered FailureIsJustified OrphanNeedsACause
PROPERTIES MislabelledByOldAttempt AttemptsEnd
