SPECIFICATION FairSpec
CONSTANTS
    Money = {0, 3}
    Presses = {p1, p2}
    NoWallet = NoWallet
    Visits <- MCVisits
    Catalogues <- MCCatalogues
    PlanIds = {1, 2}
    Quantities = {1, 2, 3}
    MaxQuantity = 2
    NaN = NaN
    Retries = {r1}
    Offers <- MCOffers
    Amounts = {4, 5, 9}
    MinCents = 5
    MaxCents = 8
    MaxTimers = 2
INVARIANTS
    BrowserTypeOK
    NoDoubleSubmit
    BusyMeansWorking
    CaptchaRefusals
    NoGhostUser
PROPERTIES
    RefusalMeansChange
    TopupMeetsTerms
    SubmissionsEnd
    SelectionIsTheCustomers
CHECK_DEADLOCK FALSE
