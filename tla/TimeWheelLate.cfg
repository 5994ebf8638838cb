SPECIFICATION Spec
CONSTANTS
  Timers = {t1}
  None = None
  TVN_SIZE = 4
  TVN_NUM = 3
  Deltas = {0, 3, 4, 15, 16, 20, 63, 64}
  MaxAdds = 1
  MaxNow = 120
INVARIANT ClockDigits
INVARIANT NeverOverdue
PROPERTY AlignedIsPrompt
CHECK_DEADLOCK FALSE
