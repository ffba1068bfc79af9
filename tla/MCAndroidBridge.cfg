SPECIFICATION FairSpec
CONSTANTS
    main = main
    other = other
    shell = shell
    service = service
    console = console
    None = none
    Callers = {main, other, shell}
    Starters = {main, other}
    Objects = {service, console}
    Of <- Own
    Servers = {g1, g2}
CHECK_DEADLOCK TRUE
INVARIANTS
    TypeOK
    ServerOutlivesWorker
    NeverTerminates
    RunningIsServed
PROPERTIES
    ErrorStays
    CallsEnd
