SPECIFICATION ObjectSpec
CONSTANTS
  Handle = {"h1", "h2"}
  MaxLockFaults = 3
  CarrierTuples <- MCTuples
  InitialTuples = {"e1"}
  MaxTuples = 2
  MaxCommandFaults = 1
  MaxForeignSteps = 1
  MaxGuardCrashes = 1
  MaxManagerSteps = 2
  MaxDnsCuts = 3
  MaxDnsFaults = 2
  MaxWriteFaults = 2
  MaxRouteFaults = 1
  MaxOtherRoutes = 1
  MaxRouteCrashes = 2
  MaxStepFaults = 3
  MaxLinkFaults = 2
  MaxLinkChanges = 2
  MaxTunCrashes = 2
  MaxLinks = 3
  Rules <- MCRules
  Hosts <- MCHosts
  Answers <- MCAnswers
  Aliases <- MCAliases
  Private = {"lan"}
  Nets = {"n"}
  Resolvers = {"r1"}
  Queries = {q1, q2}
  MaxSplitFaults = 1
  DohAddresses <- MCDoh
  MaxIptFaults = 2
  MaxIptCrashes = 1
  Writers = {w1, w2}
  MaxFiles = 3
  MaxGenerations = 2
  LockFiles = {f1, f2}
  NoLock = NoLock
INVARIANT ResolversPinned
CHECK_DEADLOCK FALSE
