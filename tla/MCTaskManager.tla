--------------------------- MODULE MCTaskManager ---------------------------
(* Model checking of TaskManager with the firmware's own task list.        *)
EXTENDS TaskManager, FirmwareTasks
=============================================================================
