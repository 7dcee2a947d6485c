\* The same instance; only what the comment on the rollback promises is asked.
SPECIFICATION StoreSpec
CONSTANTS
  Threads = {t1, t2}
  MaxSaves = 4
INVARIANT RollbackRestores
CHECK_DEADLOCK FALSE
