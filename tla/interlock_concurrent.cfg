\* The telemetry loop runs beside one command at a time; the recovery port returns.
SPECIFICATION Spec
CONSTANTS
  c1 = c1
  c2 = c2
  e1 = e1
  Commanders <- MCCommanders
  Evaluators <- MCEvaluators
  Snapshots <- SnapshotsAtTheLimits
  Ports <- AllPorts
  MaxTorque = 150
  HeartbeatTimeout = 100
  CriticalDistance = 5
  WarningDistance = 15
  MaxScore = 85
  Far = 9990
  Exclusive <- MCCommanders
  Faulty <- HwAndPub
  Late <- AlwaysLate
INVARIANT PendingHasOwner
PROPERTIES PowerNeedsBothApprovals EstopLatches PendingResolves
