SPECIFICATION Spec
CONSTANTS
  Timers = {t1, t2}
  None = None
  TVN_SIZE = 4
  TVN_NUM = 2
  Deltas = {0, 1, 3, 4, 5, 16}
  MaxAdds = 2
  MaxNow = 12
SYMMETRY Symmetry
INVARIANT EachTimerOnce
PROPERTY FiresWhenDue
CHECK_DEADLOCK FALSE
