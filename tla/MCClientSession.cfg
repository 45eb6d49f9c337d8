SPECIFICATION Spec
CONSTANTS
    Specs <- MCSpecs
    Expected <- MCExpected
    Touchable <- MCTouchable
    EventBound = 3
INVARIANT TypeOK
PROPERTIES
    SuccessMeansApplied
    FailureIsExcused
    PassEnds
    Settles
