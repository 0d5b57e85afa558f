CONSTANTS
  a = a
  b = b
  c = c
  m = m
  Nobody = Nobody
  o = o
  Pipeline = {a, m}
  Manual = {m}
  Checker = {o}
  Unit <- MCUnit
  UnitOf <- MCUnitOf
  MaxAttempts = 2
SPECIFICATION Spec
INVARIANT MutualExclusion
