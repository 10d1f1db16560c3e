SPECIFICATION Spec
CONSTANTS
  a1 = a1  a2 = a2  a3 = a3  c1 = c1  m = m
  None = None
  Agents = {a1, a2, a3}
  Callers = {c1}
  Manager = m
  MinSize = 2
  MaxSize = 2
  VMs = {1, 2}
INVARIANTS TypeOK CallsMatch PoolLeased Overshoot
PROPERTY MinKept
SYMMETRY AgentSymmetry
CHECK_DEADLOCK FALSE
