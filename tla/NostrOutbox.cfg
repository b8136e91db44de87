\* Two requests and the thread, three events, or two and a crash or database error, and a
\* clock that may be set back; no event is refused for ever.  When the bound on events is
\* reached nothing is left to do.
SPECIFICATION Spec
CONSTANTS
    Program = program
    Enrollments = {e1}
    Workers = {w1, w2}
    Thread = thread
    None = none
    MaxEvents = 3
    MaxClock = 1
    MaxFaults = 1
    BatchLimit = 1
    Refused = {}
INVARIANTS ShownIsPublished CampaignIsOrdered CampaignIsShown
PROPERTIES NeverDowngraded
SYMMETRY WorkerSymmetry
CONSTRAINT FaultBound
CHECK_DEADLOCK FALSE
