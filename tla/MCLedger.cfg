SPECIFICATION Spec
CONSTANTS
    ali = ali
    reza = reza
    p1 = p1
    p2 = p2
    mail = mail
    tea = tea
    Unknown = Unknown
    ann = ann
    bob = bob
    twelve = twelve
    dotted = dotted
    Parts <- MCParts
    None = None
    OldVersions <- MCVersions
    OldLedgers <- MCLedgers
    NumberOf <- MCNumbers
    Normal <- MCNormal
    Mail <- MCMail
    OldOwners <- MCOwners
    Year <- MCYear
    RawKeys = {ali, reza}
    Phones = {p1, p2}
    Emails = {mail}
    Scopes = {"all"}
    MaxRows = 2
    Files <- Exports
    MaxImports = 4
    QuarantineCap = 1
    RawCap = 3
    CostRows <- DatedCosts
    MaxCostRows = 2
    Unset = Unset
    Numbers = {4, 6000, 9500}
    DefaultHigh = 9000
    DefaultLow = 5000
    DefaultMinLines = 3
    DefaultCell = 30
INVARIANTS IdentitySound LedgerAddsUp PricedAsOfSale ThresholdsOrdered UpgradedIsSound
PROPERTIES KeepsConsent UpgradeKeepsLedger
CHECK_DEADLOCK FALSE
