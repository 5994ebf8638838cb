SPECIFICATION Spec
CONSTANTS
  BufferSize = 3
  Sizes = {0, 1, 2, 3, 4, 7}
  MaxBytes = 9
INVARIANT FileFollowsAppends
INVARIANT AllOrNothing
PROPERTY LossIsReported
CHECK_DEADLOCK FALSE
