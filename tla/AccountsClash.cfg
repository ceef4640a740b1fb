CONSTANTS
    c1 = c1
    c2 = c2
    e1 = e1
    e2 = e2
    e3 = e3
    w1 = w1
    w2 = w2
    w3 = w3
    p = p
    q = q
    s = s
    t = t
    r1 = r1
    None = None
    Caller = {c1, c2}
    Email = {e1, e2}
    WebId = {w1, w2}
    Password = {p, q}
    Setting = {s, t}
    Record = {r1}
    Asks <- Racing
SPECIFICATION Spec
SYMMETRY RacingSymmetry
INVARIANT OneAccountPerWebId
