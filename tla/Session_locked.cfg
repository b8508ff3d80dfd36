CONSTANTS
  Callers = {c1, c2}
  Workers = {}
  Kinds = {k1, k2}
  Prefill = {k1}
  Voiced = {k1}
  None = None
  Ops = {"steer", "generate", "exclusive", "fit", "stop"}
  MaxTokens = 1
  MaxStack = 1
SPECIFICATION Spec
INVARIANTS SteeringFollowsStack IdleMeansReleased FitsRunUnsteered
PROPERTIES ImplementsModelAccess SteeringStableInDecode
