SPECIFICATION FairSpec
CONSTANTS
  Callers = {c1, c2}
  Processes = {"shipment", "invoice", "mystery"}
  Threshold = 2
  Cooldown = 2
  MaxErrors = 3
  Registered = {"shipment", "invoice"}
  RiskSafe = {"shipment"}
INVARIANTS
  IInv
  ClosedNeedsRms
  CircuitSound
PROPERTIES
  GateRecovers
