CONSTANTS
  c1 = c1
  c2 = c2
  k1 = k1
  Conns = {c1, c2}
  Carriers = {k1}
  DomainLen = 4

SPECIFICATION Spec

PROPERTY
  AllRelaysWindDown
