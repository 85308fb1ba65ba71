---------------------------- MODULE MCHostObjects ----------------------------
(* The objects a session owns in the kernel and the file system, each with    *)
(* the code that installs, removes and recovers it.  They share no state here *)
(* (HostWal and FullTunnel compose them): a behaviour of this instance is a   *)
(* behaviour of one, with the others left where they start.                   *)
EXTENDS Lockdown, NetGuard, DnsExchange, RouteGuard,
        TunState, SplitTunnel, JournalFile

VARIABLE part

lockVars == <<walVars, table, lpc, lfaults>>
objectVars == <<part, lockVars, guardVars, dnsVars, dnsGuardVars, routeVars, stepVars,
                tunVars, splitVars, leakVars, directoryVars>>

MCTuples == <<"e1", "e2">>
MCDoh == <<"a1", "a2">>

\* A name bypassed inside a domain that is tunnelled, one tunnelled, and one that is neither
\* by itself but is an alias of a tunnelled name.
MCRules == [direct |-> {[kind |-> "full", name |-> <<"com", "a", "x">>]},
            proxy |-> {[kind |-> "suffix", name |-> <<"com", "a">>]}]
MCHosts == {<<"com", "a", "w">>, <<"com", "a", "x">>, <<"org", "b">>}
MCAnswers == [h \in MCHosts |-> CASE h = <<"org", "b">> -> {"i1", "i2"}
                                  [] h = <<"com", "a", "w">> -> {"i1"}
                                  [] OTHER -> {"i3", "lan"}]
MCAliases == [h \in MCHosts |-> IF h = <<"org", "b">> THEN {<<"com", "a", "w">>} ELSE {}]

\* Two processes and two files that the lock comes to name.
Alike == Permutations(Writers) \cup Permutations(LockFiles)

Parts == {"lockdown", "firewall", "dns", "legacy_dns", "routes", "steps", "tun",
          "split", "leak", "directory"}

ObjectInit ==
    /\ part \in Parts
    /\ Init /\ GuardInit /\ DnsInit /\ DnsGuardInit /\ RouteInit /\ StepsInit
    /\ TunInit /\ SplitInit /\ LeakInit /\ StoreInit
    /\ part # "firewall" => fw = [f \in Families |-> NoShell]
    /\ fw["v6"].table => fw["v6"].output
    /\ fw["v6"].table = fw["v4"].output
    /\ part # "legacy_dns" => resolv = "file"
    /\ part # "routes" => routeTable = {}
    /\ part # "steps" => occupied = {} /\ steps.left = split_steps
    /\ part # "split" => \A d \in DOMAIN routed : routed[d] = "none"
    /\ part # "directory" => dir.journal = 0

\* Two troubles in one behaviour: of the firewall, and of the routes.
Troubles ==
    /\ env.faults + env.foreign + env.crashes <= 2
    /\ routeEnv.faults + routeEnv.others + routeEnv.crashes <= 2

\* A step of one part.
Only(p, A) == part = p /\ A /\ UNCHANGED part

ObjectNext ==
    \/ /\ Only("lockdown", Next)
       /\ UNCHANGED <<guardVars, dnsVars, dnsGuardVars, routeVars, stepVars, tunVars,
                      splitVars, leakVars, directoryVars>>
    \/ /\ Only("firewall", GuardNext)
       /\ UNCHANGED <<lockVars, dnsVars, dnsGuardVars, routeVars, stepVars, tunVars,
                      splitVars, leakVars, directoryVars>>
    \/ /\ Only("dns", DnsNext)
       /\ UNCHANGED <<lockVars, guardVars, dnsGuardVars, routeVars, stepVars, tunVars,
                      splitVars, leakVars, directoryVars>>
    \/ /\ Only("legacy_dns", DnsGuardNext)
       /\ UNCHANGED <<lockVars, guardVars, dnsVars, routeVars, stepVars, tunVars,
                      splitVars, leakVars, directoryVars>>
    \/ /\ Only("routes", RouteNext)
       /\ UNCHANGED <<lockVars, guardVars, dnsVars, dnsGuardVars, stepVars, tunVars,
                      splitVars, leakVars, directoryVars>>
    \/ /\ Only("steps", StepsNext)
       /\ UNCHANGED <<lockVars, guardVars, dnsVars, dnsGuardVars, routeVars, tunVars,
                      splitVars, leakVars, directoryVars>>
    \/ /\ Only("tun", TunNext)
       /\ UNCHANGED <<lockVars, guardVars, dnsVars, dnsGuardVars, routeVars, stepVars,
                      splitVars, leakVars, directoryVars>>
    \/ /\ Only("split", SplitNext)
       /\ UNCHANGED <<lockVars, guardVars, dnsVars, dnsGuardVars, routeVars, stepVars,
                      tunVars, leakVars, directoryVars>>
    \/ /\ Only("leak", LeakNext)
       /\ UNCHANGED <<lockVars, guardVars, dnsVars, dnsGuardVars, routeVars, stepVars,
                      tunVars, splitVars, directoryVars>>
    \/ /\ Only("directory", StoreNext)
       /\ UNCHANGED <<lockVars, guardVars, dnsVars, dnsGuardVars, routeVars, stepVars,
                      tunVars, splitVars, leakVars>>

ObjectSpec == ObjectInit /\ [][ObjectNext]_objectVars

-----------------------------------------------------------------------------
(* Properties, as the run lists them. *)

\* Whatever stands in the kernel or the file system is covered by a record from which the next
\* process undoes it, whenever this one dies: the lockdown's table, the kill switch's rules,
\* the pinned resolver, the routes, their inverses and the TUN.
Covered ==
    /\ TableHasWal /\ RecoveryRestores /\ ResolverRestored /\ PinnedIsOwned
    /\ RoutesCovered /\ InverseKept /\ TunCovered

\* When split tunnelling has ended, so have its routes and its firewall rules.
SplitSound == SplitRoutesGone /\ GuardLeavesNothing

\* Of the firewall, no step opens what must stay shut or removes what is not its own.
FirewallSteps ==
    [][/\ part = "lockdown" => OnlyReleaseRemoves /\ ArmedMeansBlocked
       /\ part = "firewall" => ReleasedWhole /\ ForeignKept]_objectVars

\* Of the resolver and the routes, no step removes what is not its own, or the carrier's
\* bypass before the routes that need it.
ObjectSteps ==
    [][/\ part = "dns" => OnlyPinnedUnlinked
       /\ part = "routes" => BypassOutlivesSplits]_objectVars
=============================================================================
