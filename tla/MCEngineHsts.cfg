SPECIFICATION FairSpec
CONSTANTS
    main = main
    other = other
    Requests = {main}
    a = a
    b = b
    None = None
    Hosts <- MCHosts
    Submissions <- MCSubmissions
    Targets <- MCAllTargets
    Slots = 1
    MaxHops = 2
    MaxRetries = 1
    Timeout = 1
PROPERTIES NoPlaintextAfterPolicy
