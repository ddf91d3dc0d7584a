SPECIFICATION Spec
CONSTANTS
    None = None
    Callers = {p1, p2, p3}
    RequestIds = {r1, r2}
    Expected = {None, 1}
SYMMETRY Symmetric
INVARIANTS TypeOK AuditTrail NoPrimaryKeyClash AnswersHold
PROPERTIES RegisterSpec
CHECK_DEADLOCK FALSE
