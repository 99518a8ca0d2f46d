SPECIFICATION Spec
CONSTANTS
  orders = orders
  orders2 = orders2
  Contents = {orders, orders2}
  NoArtifact = NoArtifact
  NoChunk = NoChunk
  Source <- MCSource
  BridgeOptions <- MCBridgeOptions
  ScanRequests <- MCScanRequests
  Chunks <- OneChunk
  MaxDisturbances = 2
SYMMETRY Symmetry
CHECK_DEADLOCK FALSE
INVARIANTS
    ReadyIsOfOneSource
    LadderStands
