CONSTANTS
    boss = boss
    joe = joe
    ann = ann
    a1 = a1
    a2 = a2
    c1 = c1
    c2 = c2
    t1 = t1
    t2 = t2
    t3 = t3
    r1 = r1
    r2 = r2
    NoToken = NoToken
    Users = {boss, joe}
    Founders = {boss}
    Staff = {boss, joe}
    Admins = {a1}
    Clients = {c1}
    TokenIds = {t1, t2, t3}
    ResetIds = {r1}
SPECIFICATION SpecAlone
PROPERTY DeactivationSparesSessions
