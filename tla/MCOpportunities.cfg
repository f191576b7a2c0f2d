SPECIFICATION OpportunitiesSpec
CONSTANTS
    cycle = cycle
    personal = personal
    machine = machine
    Cards = {cycle}
    WithProduct = {cycle}
    ReplacedBy <- MCChallenger
    Discounted = {cycle}
    Ladders = {{5}, {10}}
    Bases <- MCBases
    Ttl = 0
    Engines = {machine}
    MaxDay = 2
    Unknown = Unknown
    NoProduct = NoProduct
    ann = ann
    bob = bob
    tea = tea
    cup = cup
    Plans <- MCPlans
    Cadences <- MCCadences
    Whales <- MCWhales
    Worlds <- MCWorlds
    Failures <- MCFailures
    OpenCap = 2
    MaxMoney = 3
    MaxRapport = 1
    MaxReminders = 1
INVARIANTS InboxTypeOK InboxSound RunSound DiscountKeepsFloor
PROPERTIES PeopleDecide ValidCardsStay
CHECK_DEADLOCK FALSE
