SPECIFICATION Spec
CONSTANTS
    ali = ali
    sara = sara
    Customers = {ali, sara}
    Stratum <- OneStratum
    Holdouts = {10}
    FatigueDays = 1
    MaxCampaigns = 2
    MaxDay = 2
    MaxUnreported = 1
INVARIANTS TypeOK HistoryIsTrue ControlIsClean TreatmentInEveryStratum
PROPERTIES MeasurementStands GateAtContact
SYMMETRY Symmetry
CHECK_DEADLOCK FALSE
