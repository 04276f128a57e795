SPECIFICATION Spec
SYMMETRY ProcessSymmetry
CONSTANTS
    plan = plan
    film = film
    Job = {plan, film}
    Owner = {p1, p2}
    NoOne = NoOne
    KindOf <- MCKindOf
    LeaseSeconds = 1
    BusyTimeout = 1
    MaxNow = 3
    MaxEvents = 6
INVARIANT TypeOK
INVARIANT AuditTrail
INVARIANT FinishedByOneRun
PROPERTY LeaseHonoured
PROPERTY ImplementsTable
CHECK_DEADLOCK FALSE
