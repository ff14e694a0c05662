SPECIFICATION EvidenceSpec
CONSTANTS
    Contribution <- MCContribution
    Rarity <- MCRarity
    IdOrder <- MCIdOrder
    EmptyBytes = 2
    RowBytes = 2
    Corpora <- MCCorpora
    Pools <- MCPools
    Queries <- MCQueries
    TopK = {1, 2, 3}
    Budgets = {7, 12, 20}
    ItemLimits = {1, 3}
    Tiers <- MCTiers
    TierSequences <- MCTierSequences
    Rooms = {6, 10, 14}
    Reserves = {0, 3, 8}
    Unreported = Unreported
CHECK_DEADLOCK FALSE
INVARIANTS
    SearchRanksAsScan
    AccountingExact
    EvidenceNotWithheld
    CoverageIsKept
    DeliveredFitted
