SPECIFICATION Spec
CONSTANTS
  k1 = k1  k2 = k2  r1 = r1  r2 = r2
  Conv = {k1, k2}
  Run = {r1, r2}
  Tool = {t1}
  ConvOf <- MCConvOf
  MaxCalls = 2
  MaxDecisions = 2
  None = None
INVARIANT SecondDecisionIsNoOp
