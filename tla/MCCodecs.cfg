SPECIFICATION Spec
INVARIANTS
    FramesRoundTrip ErrorsAreNoticed SequenceNumbersFollowTheCircle MessagesAreUnderstood DamageIsNoticed
    ArithmeticAgrees RequestsAreAnsweredRight FramesAreAccountedFor
CHECK_DEADLOCK FALSE
