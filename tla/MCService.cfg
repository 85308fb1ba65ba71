SPECIFICATION Spec
CONSTANTS
    Attempts = {"c1", "c2"}
    Acceptors = {"s1", "s2"}
    Worlds <- MCWorlds
    Starters = {p1, p2}
    MaxRemovals = 1
    MaxPowerLosses = 1
    Admins = {a1, a2}
    Devices = {"k1", "k2", "k3"}
    Secrets = {"p1", "p2"}
    MAX_AUTHORIZED_CLIENTS = 2
    MaxOps = 3
    MaxCuts = 1
    Connections = {1, 2, 3}
    MaxPermits = 2
    MaxPanics = 1
INVARIANTS SessionsSound ServerSound
PROPERTIES RefusedOnlyWhileOwned PermitsComeBack
CHECK_DEADLOCK FALSE
