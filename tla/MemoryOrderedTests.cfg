SPECIFICATION Spec
CONSTANTS
  TOTAL_TASKS = 5
  Main = Main
  Producer = Producer
  Consumer = Consumer
  string = string
  data = data
  ptr = ptr
  completed_tasks = completed_tasks
INVARIANT AssertsHold
INVARIANT LastReportsAll
PROPERTY TestsEnd
CHECK_DEADLOCK FALSE
