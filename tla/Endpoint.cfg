SPECIFICATION EndpointSpec
CONSTANTS
  Order <- Keys3
  Port <- TwoPorts
  Seed <- FirstTwo
  Foreign = {"x"}
  MaxDials = 6
  MaxQueries = 1
  MaxFaults = 2
  MaxRevision = 6
  MaxPending = 2
  Datagrams <- MCDatagrams
  NamePackets <- MCNamePackets
  NameStarts = {0, 1, 2}
  QueryNames <- MCQueryNames
  max_cname_depth = 2
  max_addresses = 1
  max_resource_records = 4
  MAX_POINTER_HOPS = 2
  MAX_NAME_LEN = 3
INVARIANTS PathsSound StopsSound DnsSound
PROPERTIES AnswersInTime EndsWhenAsked
CHECK_DEADLOCK FALSE
