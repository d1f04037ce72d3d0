CONSTANTS
  t1 = t1
  t2 = t2
  CallerOps <- AnyOps
  Callers = {t1, t2}
  MaxCalls = 3
  NumTunnelsCfg = 2
  NameCapacities = {92, 93}
  UseZstd <- ZstdOf
  ListenAddr <- DefaultAddr
  a1 = a1
  a2 = a2
  Nil = Nil

SPECIFICATION Spec
INVARIANT NotifiedIsState
