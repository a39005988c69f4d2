SPECIFICATION Spec
CONSTANTS
    Last = 4
    Texts = {1, 2, 4}
    MaxFailures = 3
INVARIANTS
    NothingIsForgottenUnhandled
    HandledInOrder
PROPERTIES
    EveryMessageIsHandled
CHECK_DEADLOCK FALSE
