CONSTANTS
    c1 = c1
    c2 = c2
    n1 = n1
    n2 = n2
    p1 = p1
    staff = staff
    custom = custom
    x = x
    joe = joe
    ann = ann
    ch1 = ch1
    a1 = a1
    e1 = e1
    x1 = x1
    k1 = k1
    Never = Never
    Kept = Kept
    Nothing = Nothing
    People = {p1}
    Roles = {staff, custom}
    SystemRoles = {staff}
    Permissions = {x}
    Invites = {n1, n2}
    Callers = {c1, c2}
    Accounts = {ann, joe}
    SecondFactor = {ann}
    Challenges = {ch1}
    Guessers = {c1, c2}
    LoginLimit = 2
    CodeLimit = 2
    Announcements = {a1}
    Staff = {e1}
    Users = {e1}
    Moments = {1, 2}
    MaxSent = 2
    Writers = {c1, c2}
    Edits <- MCEdits
    Docs = {x1}
    Categories = {k1}
    Seeded = {}
    Files = {n1, n2}
    MaxVersion = 2
    Readers = {e1}
    Terms <- MCTerms
    Clerks = {c1, c2}
SYMMETRY Symmetry
SPECIFICATION SpecApart
INVARIANTS NothingHidden OneOfEach GuessesLimited NotifiedOnce ScheduleCoherent BellMatchesFeed SignersAreReaders FiledRight
PROPERTIES LinksOpenOnce VersionsAreALog
