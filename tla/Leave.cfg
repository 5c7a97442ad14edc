CONSTANTS
    Employees = {e1}
    Types = {t1}
    RequestIds = {r1, r2}
    Applicants = {a1, a2}
    Deciders = {d1, d2}
    Year <- MCYear
    Asks <- MCAsks
    HolidaySets = {{}}
    Configs <- MCConfigs
    Grants = {4}
CONSTRAINT MCInFlight
SYMMETRY MCSymmetry
SPECIFICATION Spec
INVARIANTS BalanceAlgebra NoOverlap NoOverdraft
PROPERTY TerminalIsFinal
