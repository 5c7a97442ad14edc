CONSTANTS
    LastDay = 5
    None = None
    Nobody = Nobody
    MaxDepth = 2
    DayLength = 6
    Unset = Unset
    Unbound = Unbound
    e1 = e1
    e2 = e2
    e3 = e3
    e4 = e4
    Offset = 1
    Hours = 2
    MaxTyped = 1
    MaxWrites = 1
    MaxChanges = 4
    Screens <- PagedLists
    Listed <- MCListed
    PageSize = 1
    MaxPast = 4
    MaxRuns = 2
    MaxActs = 1
    DaysBack = 2
    DaysOn = 1
    MaxDrawn = 2
    MaxLen = 2
    MaxDevRuns = 3
    MaxEdits = 3
    MaxMonth = 2
SPECIFICATION SpecApart
INVARIANTS CountsHalves ReadersAgree DashboardsAddUp ReachIsSound DaysAgree OffersAccepted PagesUsable SeedsConverge
PROPERTY SavesWhatIsTyped
