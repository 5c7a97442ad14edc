CONSTANTS
    Screens <- TreeViews
    Listed <- Item
    PageSize = 20
    MaxPast = 3
SPECIFICATION PagesSpec
INVARIANT PagesLoad
