\* Two threads and four saves: two can overlap after one that succeeded, and one
\* alone can follow.
SPECIFICATION StoreSpec
CONSTANTS
  Threads = {t1, t2}
  MaxSaves = 4
INVARIANTS TypeOK FileSound
CHECK_DEADLOCK FALSE
