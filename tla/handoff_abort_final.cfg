SPECIFICATION HandoffSpec
CONSTANTS
  a = a
  b = b
  Peers <- MCPeers
  Handoffs <- MCHandoffs
  Sender <- MCSender
  Receiver <- MCReceiver
  WindowSize = 2
INVARIANTS
  AbortFinal
CHECK_DEADLOCK FALSE
