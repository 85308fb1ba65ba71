SPECIFICATION Spec
CONSTANTS
  Setups <- MCSetups
  Capacity = 1
  Threshold = 2
  Lengths <- MCLengths
  max_chunk_size = 2
  MAX_PENDING_PACKETS = 3
  MAX_PENDING_BYTES = 8
  MAX_FRAG_TOTAL = 3
  Base = 16
  Groups = 2
  LastLimit = 1
  MaxStreamId = 20
  MAX_FRAME_PAYLOAD = 14
  MAX_PADDING = 2
  MAX_FRAME_HEADER = 4
  TagLength = 2
  Probes <- MCProbes
  StreamIds = {0, 15, 16, 20}
  PlaintextLengths = {0, 12, 13}
  PaddingLengths = {0, 1, 2, 3}
INVARIANTS FramesInOrder DataIntact
PROPERTIES DeadMeansSilent WaitsEnd
