SPECIFICATION Spec
CONSTANTS
    Half = 512
    Invalid = Invalid
    Window = 1
    u1 = u1
    u2 = u2
    Users = {u1, u2}
    Unset = Unset
    Texts <- MCTexts
    Requests <- MCRequests
    Pools <- MCPools
    RuleLists <- MCRuleLists
    Households <- MCHouseholds
    Imports <- MCImports
    UserIds = {u1, u2}
    NotImported = NotImported
    Contributions <- MCContributions
    LastMonth = 4
    Nothing = Nothing
INVARIANTS
    ParsedExactly
    PartOfTheWhole
    PairedOff
    LongestWins
    CountedOnce
    AddsUp
    ImportedWhole
PROPERTY SetFromMonthOn
CHECK_DEADLOCK FALSE
