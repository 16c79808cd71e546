\* Every client of contracts, one at a time; each may stop for good, for
\* its bounds or because what was asked has been answered.
SPECIFICATION ClientsSpec

CONSTANTS
    Parts = {"numbers", "gas", "config", "oasis", "offchain",
             "vaults", "events", "past", "auctions", "savings", "allowances"}
    TEN = 10
    PREC = 4
    Number <- MCNumber

    Strategies <- MCStrategies
    NodePrices = {0, 5}
    UpdatedPrices = {7, 10}
    GWEI = 1
    MaxElapsed = 5
    NoPrice = NoPrice

    MaxEdits = 3
    NoConfig = NoConfig

    MaxOrders = 3
    PAGE = 2
    NewOrders <- MCNewOrders
    Markets <- MCMarkets
    me = me
    other = other
    client = me

    Venues = {"EtherDelta", "ZrxExchange", "ZrxExchangeV2"}
    OrderAmounts <- MCOrderAmounts
    FillAmounts <- MCFillAmounts
    Fees = {0, 1}
    Deposits = {160}
    MaxCreated = 2
    MaxTime = 2
    ATTEMPTS = 2
    Unsigned = Unsigned

    VatStates <- MCVatStates
    VatChanges <- MCVatChanges
    MaxVatChanges = 1
    Dinks <- MCDinks
    Darts <- MCDarts

    LogClients = {"Vat", "Flipper", "Flapper", "Flopper", "Clipper"}
    BlockKinds <- MCBlockKinds
    CHUNK = 2
    MaxBlocks = 4
    MaxReorgs = 1

    Window = 1
    MaxPastBlocks = 3
    MaxReplaced = 1

    Houses = {"Flipper", "Flapper", "Flopper", "Clipper"}
    MaxKicks = 2
    MaxClock = 5
    TTL = 2
    TAU = 3
    FullBid = 1
    FullLot = 1
    Sales <- MCSales
    CHOST = 8000
    DaiBalances = {10300}
    Amounts = {1, 20}
    MaxPrices = {9000, 11000}

    FirstPies <- MCFirstPies
    Saver = "us"
    PieAmounts = {2, 3}
    Rates = {1000, 1009, 1091}
    MaxJoins = 2

    Approvers = {"a1", "a2"}
    FirstAllowances = {0, 2, 9}
    FirstBalance = 3
    ENOUGH = 4
    UNLIMITED = 9
    SpentAmounts = {1, 2}
    MaxTransfers = 1

INVARIANTS
    ErrorIsBounded
    GeometricBidsAreSent
    ConfigIsFresh
    StandingFound PositionRight
    RemainingIsSane PublishedOrTried
    FrobIsJudged WipeAllIsClose BiteIsJudged
    ScanIsComplete PollsMissNothing
    StandingAreListed TakeIsJudged
    BalanceIsClose DaiOfNeverExceeds
    ApprovedCanSpend

PROPERTIES
    QuotesRise
    RemainingShrinks

CHECK_DEADLOCK FALSE
