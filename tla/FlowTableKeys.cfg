SPECIFICATION FlowSpec
CONSTANTS
  Sockets = {client, other, server}
  Ends = {"e1", "e443"}
  QuicEnds = {"e443"}
  FlowLimit = 3
  MaxPackets = 5
INVARIANTS
  HandshakesOfConnections
