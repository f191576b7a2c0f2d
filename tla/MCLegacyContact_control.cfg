SPECIFICATION LegacySpec
CONSTANTS
    ali = ali
    sara = sara
    daily = daily
    catchup = catchup
    bulk = bulk
    Customers = {ali, sara}
    Stratum <- OneStratum
    Holdouts = {10}
    FatigueDays = 1
    MaxCampaigns = 1
    MaxDay = 1
    MaxUnreported = 0
    Scans = {}
    Texts = {bulk}
    DedupeDays = 1
    MaxFaults = 0
INVARIANT ControlGetsNoText
SYMMETRY Symmetry
CHECK_DEADLOCK FALSE
