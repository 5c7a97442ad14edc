CONSTANTS
    Employees = {e1}
    Types = {t1}
    RequestIds = {r1, r2}
    Applicants = {a1}
    Deciders = {d1, d2}
    Year <- MCYear
    Asks <- MCRaceAsks
    HolidaySets = {{}}
    Configs <- MCRaceConfigs
    Grants = {4}
SPECIFICATION Spec
INVARIANT LedgerReconciles
