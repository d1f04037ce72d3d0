CONSTANTS
  h1 = h1
  h2 = h2
  h3 = h3
  Hosts = {h1, h2, h3}
  Lines <- MCLines
  Blank = Blank
  Comment = Comment
  NoResult = NoResult
  Workers1 = {u1, u2}
  Workers2 = {v1, v2}
  Phase2MaxToTestCfg = 2
  MaxLatencyMs = 1
  Latencies = {1, 2}

SPECIFICATION Spec
PROPERTY NoProbeAfterCancel
