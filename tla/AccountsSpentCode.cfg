SPECIFICATION Spec
CONSTANTS
    k1 = k1
    k2 = k2
    pw1 = pw1
    pw2 = pw2
    c1 = c1
    c2 = c2
    c3 = c3
    weak = weak
    strong = strong
    s1 = s1
    s2 = s2
    h1 = h1
    h2 = h2
    Keys = {k1, k2}
    Passwords = {pw1, pw2}
    Codes = {c1, c2, c3}
    Kdfs = {weak, strong}
    Sessions = {s1, s2}
    Procs = {h1, h2}
    Activators = {h1}
    Nothing = Nothing
SYMMETRY Interchangeable
INVARIANT SpentCodeDead
