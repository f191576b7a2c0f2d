SPECIFICATION FairSpec
CONSTANTS
    scheduler = scheduler
    request = request
    Threads = {scheduler, request}
    Sweepers = {scheduler}
    MaxAttempts = 2
    Retention = 1
    MaxRows = 1
    MaxManual = 0
    MaxCrashes = 1
PROPERTY RetrySurvivesRestart
CHECK_DEADLOCK FALSE
