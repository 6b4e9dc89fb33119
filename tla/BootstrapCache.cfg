SPECIFICATION Spec
CONSTANTS
    p1 = p1
    p2 = p2
    k1 = k1
    k2 = k2
    c1 = c1
    c2 = c2
    Login = {u1, u2}
    NoLogin = NoLogin
    Proc = {p1, p2}
    Call = {c1, c2}
    ProcOf <- MCProcOf
    Key = {k1, k2}
    NoHolder = NoHolder
INVARIANTS TypeOK OwnSessionOnly
PROPERTIES NoLostUpdate
SYMMETRY MCSymmetry
