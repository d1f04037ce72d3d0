CONSTANTS
  h1 = h1
  h2 = h2
  h3 = h3
  Hosts = {h1, h2, h3}
  Lines <- MCLines
  Blank = Blank
  Comment = Comment
  NoResult = NoResult
  Latencies = {100, 700}
  ConcurrencyCfg = 1

SPECIFICATION Spec

INVARIANTS
  TypeOK
  ScanReturnsAll
  CallbacksBeforeReturn
  TunnelSearchExact
  FirstWorkingExact

PROPERTIES
  Returns
