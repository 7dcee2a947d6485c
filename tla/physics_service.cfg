\* Two callers and two requests: an abandoned one and its retry, or two that overlap.
\* Two steps make a run that an E-stop can cut in the middle.
SPECIFICATION Spec
CONSTANTS
  Callers = {c1, c2}
  MaxSteps = 2
  MaxCalls = 2
  QueueDepth = 1
  MaxStops = 2
  MaxDeaths = 1
INVARIANTS TypeOK EstopEndsRun SuccessIsWhole
PROPERTIES CallsReturn StopsHandled
CHECK_DEADLOCK FALSE
