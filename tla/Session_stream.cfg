CONSTANTS
  Callers = {c1}
  Workers = {w1}
  Kinds = {k1, k2}
  Prefill = {k1}
  Voiced = {k1}
  None = None
  Ops = {"steer", "stream", "generate", "exclusive", "stop", "prefix", "joint"}
  MaxTokens = 2
  MaxStack = 2
SPECIFICATION FairSpec
INVARIANTS StopIsPrompt
PROPERTIES CallsReturn
