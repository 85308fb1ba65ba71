SPECIFICATION RestartSpec
CONSTANTS
  split = split
  dns = dns
  bypass = bypass
  tun = tun
  endpoint = endpoint
  firewall = firewall
  Resource = {split, dns, bypass, tun, firewall, endpoint}
  Kind <- MCKind
  MaxFaults = 2
INVARIANT JournalCovers
PROPERTIES KillSwitchLast ConflictIsFinal ForeignUntouched NoFalseConflict LeftoverResolved
