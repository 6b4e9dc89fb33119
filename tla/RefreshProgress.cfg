SPECIFICATION FairSpec
CONSTANTS
    p1 = p1
    p2 = p2
    r1 = r1
    r2 = r2
    Login = {u1}
    NoLogin = NoLogin
    Proc = {p1, p2}
    Request = {r1, r2}
    ProcOf <- MCProcOfShared
    NoHolder = NoHolder
    MaxGen = 2
    MaxRateLimitRetries = 1
PROPERTIES RequestsFinish
