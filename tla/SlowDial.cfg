SPECIFICATION ClientSpec
CONSTANTS
  split = split
  dns = dns
  bypass = bypass
  tun = tun
  endpoint = endpoint
  firewall = firewall
  Resource = {bypass, dns, tun, firewall}
  Kind <- MCKind
  MaxFaults = 2
  Handle = {"h1", "h2"}
  MaxLockFaults = 1
  PipeCapacity = 1
  CaptureLimit = 1
  InputChunks = 1
  CarrierKinds = {"carrier", "quic", "http_stream"}
  EndpointCount = 3
  MaxStreak = 9
PROPERTY StreakNeedsEvidence
