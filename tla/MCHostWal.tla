---------------------------- MODULE MCHostWal ----------------------------
EXTENDS HostWal
CONSTANTS split, dns, bypass, tun, endpoint, firewall
MCKind == [r \in Resource |->
    CASE r = split -> "split" [] r = dns -> "dns" [] r = bypass -> "bypass"
      [] r = tun -> "tun" [] r = endpoint -> "endpoint" [] r = firewall -> "firewall"]
=============================================================================
