CONSTANTS
  TaskCount <- TASK_COUNT
  IsrTasks <- TimerTasks
  NoReturn <- NoReturnTasks
  Callees <- QueuedByTask
  IdleCallees <- UsbIdleTasks
SPECIFICATION FairSpec
INVARIANTS TypeOK OnlyIsrTasksLost IdleMeansNoWork
PROPERTIES PriorityRespected Refinement WorkConserving IsrTasksServed
