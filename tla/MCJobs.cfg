SPECIFICATION JobsSpec
CONSTANTS
    scheduler = scheduler
    request = request
    night = night
    noon = noon
    manually = manually
    server = server
    Threads = {scheduler, request}
    Sweepers = {scheduler}
    MaxAttempts = 3
    Retention = 2
    MaxRows = 2
    MaxManual = 1
    MaxCrashes = 1
    Runners = {night, noon, manually}
    Hosts = {server}
    HostOf <- OneProcess
    Ttl = 2
    MaxDeaths = 1
INVARIANTS TypeOK AttemptsCounted OneAtATime
PROPERTIES BackoffKept NothingIsStuck
CHECK_DEADLOCK FALSE
