SPECIFICATION FairSpec
CONSTANTS
    main = main
    other = other
    Requests = {main, other}
    a = a
    b = b
    None = None
    Hosts <- MCHosts
    Submissions <- MCSubmissions
    Targets <- MCTargets
    Slots = 1
    MaxHops = 2
    MaxRetries = 1
    Timeout = 1
INVARIANTS CredentialsStayHome NothingSentTwice LeasesExact
PROPERTIES JarAnswersFresh EveryRequestEnds
