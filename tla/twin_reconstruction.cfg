\* Two calls at once: a reconstruction, a registration or a calibration of an earlier
\* baseline, and another reconstruction, a calibration or a reading of either.
SPECIFICATION Spec
CONSTANTS
  c1 = c1
  c2 = c2
  A = A
  B = B
  Publishers = {c1, c2}
  Handlers = {h1, h2}
  Calls <- MCCalls
  Paths = {p1}
  Logs <- MCLogs
  Stored <- MCStored
  MaxMegabytes = 100
  Period = 3
  NoRequest = NoRequest
  None = None
INVARIANTS ReconstructionsHold RowsAreSound
PROPERTIES OwnRowsOnly LogsCleaned
CHECK_DEADLOCK FALSE
