SPECIFICATION Spec
CONSTANTS
  Timers = {t1}
  None = None
  TVN_SIZE = 256
  TVN_NUM = 3
  Deltas = {5}
  MaxAdds = 1
  MaxNow = 6
PROPERTY FiresOnTime
CHECK_DEADLOCK FALSE
