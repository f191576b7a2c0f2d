SPECIFICATION AppSpec
CONSTANTS
    ali = ali
    sara = sara
    daily = daily
    bulk = bulk
    Customers = {ali}
    Stratum <- OneStratum
    Holdouts = {0}
    FatigueDays = 2
    MaxCampaigns = 1
    MaxDay = 2
    MaxUnreported = 0
    Scans = {daily}
    Texts = {bulk}
    DedupeDays = 2
    MaxFaults = 1
    first = first
    second = second
    Sessions = {first, second}
    Analysed = {first}
    Workers = 1
    RawDays = 1
    HeavyDays = 1
    DeleteDays = 2
    MaxAge = 2
    MaxJobs = 2
    MaxServerDeaths = 1
INVARIANTS RemindersAccounted NoOrphanedJob
PROPERTIES CampaignsSeeReminders DoneStands JobsConclude
CHECK_DEADLOCK FALSE
