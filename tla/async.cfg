CONSTANTS
    t1 = t1
    t2 = t2
    a1 = a1
    a2 = a2
    a3 = a3
    a4 = a4
    a5 = a5
    c1 = c1
    c2 = c2
    c3 = c3
    None = None
    Thread = {t1, t2}
    Address = {a1, a2, a3, a4, a5}
    Call = {c1, c2, c3}
    Cancels = {c1}
    Fatal = {c2}
SYMMETRY Alike
SPECIFICATION Spec
INVARIANTS TypeOK SoleHolder ListenersConserved
PROPERTY ImplementsCallService
CHECK_DEADLOCK FALSE
