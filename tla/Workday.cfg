CONSTANTS
    d1 = d1
    r1 = r1
    r2 = r2
    c1 = c1
    c2 = c2
    Unset = Unset
    Blurred = Blurred
    EmployeeDays = {d1}
    Requests = {r1, r2}
    Callers = {c1, c2}
    LastMinute = 3
    LateAfter = 1
    HalfDay = 2
    Asked <- MCAsked
    std = std
    k2 = k2
    k3 = k3
    pol1 = pol1
    pol2 = pol2
    pol3 = pol3
    e1 = e1
    e2 = e2
    NewRow = NewRow
    l1 = l1
    Nowhere = Nowhere
    None = None
    Locations = {l1}
    Dates = {1, 2}
    Askers = {c1, c2}
    Standard = std
    Calendars = {std, k2, k3}
    Policies = {pol1, pol2, pol3}
    Editors = {e1, e2}
SYMMETRY Symmetry
SPECIFICATION SpecApart
INVARIANTS OneStory CorrectionStands OneDefault LookupsAnswer
PROPERTIES RecordsAreTimeSheets
CHECK_DEADLOCK FALSE
