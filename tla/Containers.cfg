SPECIFICATION Spec
CONSTANTS
  LruKeys = {k1, k2, k3, k4}
  Values = {v1, v2}
  Nodes = {n1, n2, n3}
  Caps = {0, 1, 2}
  VDiskIds = {d1, d2}
  BlockTypes = {connect, disk}
  NoPolicy = NoPolicy
  MaxNow = 3
  MapKeys = {0, 1, 3, 6, 8}
  FirstCnts = {0, 1}
  Cnts = {3, 7}
  Limits = {0, 1, 2, 4}
  Wrap = 21
  level_shift = 1
  UNSIGNED = 8
  N = 9
  CHUNK_SIZE_64_BITS = 4
  SizeBounds = {1, 2, 3, 4, 5, 6, 7, 8, 9}
SYMMETRY Symmetry
INVARIANT HoldsMostRecent
INVARIANT BlockedIffCause
INVARIANT ShownInTime
INVARIANT SummariesAgree
INVARIANT FindersAgree
INVARIANT FindsFirstFit
CHECK_DEADLOCK FALSE
