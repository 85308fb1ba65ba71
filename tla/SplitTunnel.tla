----------------------------- MODULE SplitTunnel ----------------------------
(***************************************************************************)
(* Split mode: an ordered policy decides which names go through the        *)
(* tunnel, a local DNS server asks the upstream the policy picks, and the  *)
(* addresses of proxied names become host routes to the TUN.  Queries run  *)
(* as tasks of their own that share one SplitRouteGuard; stopping the      *)
(* tunnel ends the listener, not the tasks.  Routes are those of Linux.    *)
(***************************************************************************)
EXTENDS Naturals, FiniteSets, Sequences, SequencesExt

CONSTANTS
    Rules,          \* [direct, proxy |-> a set of rules]
    Hosts,          \* names: sequences of labels, the top-level one first
    Answers,        \* the addresses behind each name
    Aliases,        \* the names a name's answer passes through
    Private,        \* addresses that never get a route
    Nets,           \* the proxied address blocks of the policy
    Resolvers,      \* the upstream servers
    Queries,        \* identities of query tasks
    MaxSplitFaults  \* route commands and upstream queries that fail

ASSUME SplitTunnelAssumption == MaxSplitFaults \in Nat

VARIABLES
    routed,     \* per destination: nobody's route, ours, or another program's
    known,      \* the guard's record: hosts, nets and bypassed resolvers
    split,      \* what the tunnel is doing, and what start has left to do
    tasks,      \* per query: its name and step
    dnsCache,   \* names whose answer is cached, by the action it was asked with
    splitFaults

splitVars == <<routed, known, split, tasks, dnsCache, splitFaults>>

----------------------------------------------------------------------------
(* The policy: DomainMatcher and SplitPolicy *)

\* A suffix rule is stored with a leading dot: it needs a label before it.
Matches(rule, host) ==
    CASE rule.kind = "full" -> host = rule.name
      [] rule.kind = "suffix" -> Len(host) > Len(rule.name) /\ IsPrefix(rule.name, host)
      [] rule.kind = "keyword" -> \E i \in DOMAIN host : host[i] = rule.name[1]

match_domain(rules, host) == host # <<>> /\ \E rule \in rules : Matches(rule, host)

\* Direct rules first, then proxy rules, and direct when neither matches.
route_domain(host) ==
    IF match_domain(Rules.direct, host) THEN "direct"
    ELSE IF match_domain(Rules.proxy, host) THEN "proxy" ELSE "direct"

----------------------------------------------------------------------------
(* SplitRouteGuard *)

NoRecord == [hosts |-> {}, nets |-> {}, bypasses |-> {}]
SplitFault == splitFaults < MaxSplitFaults /\ splitFaults' = splitFaults + 1
SplitAt(pc) == split.pc = pc
Split(pc, left) == split' = [pc |-> pc, left |-> left]

\* `ip route replace`: whatever was there is gone.
Replaced(ips) == [d \in DOMAIN routed |-> IF d \in ips THEN "ours" ELSE routed[d]]

\* Drop: a bypass is deleted by its prefix, the others by prefix and interface.
\* A delete that fails is ignored; here at most one does.
Released(record) ==
    [d \in DOMAIN routed |->
        IF d \in record.bypasses \/ (d \in record.hosts \cup record.nets /\ routed[d] = "ours")
        THEN "none" ELSE routed[d]]

DropRecord ==
    \/ routed' = Released(known) /\ UNCHANGED splitFaults
    \/ /\ SplitFault
       /\ \E d \in known.hosts \cup known.nets \cup known.bypasses :
            routed' = [Released(known) EXCEPT ![d] = routed[d]]

----------------------------------------------------------------------------
(* SplitTunnel::start *)

\* install_direct_bypass on Linux adds the route and drops the RouteGuard it
\* got, which deletes it again.
BypassEffect(r) == routed

StartBypass ==
    /\ SplitAt("bypass")
    /\ IF split.left = {}
       THEN Split("nets", Nets) /\ UNCHANGED <<routed, known, splitFaults>>
       ELSE \E r \in split.left :
              /\ known' = [known EXCEPT !.bypasses = @ \cup {r}]
              /\ \/ /\ routed[r] = "none"
                    /\ routed' = BypassEffect(r)
                    /\ Split("bypass", split.left \ {r}) /\ UNCHANGED splitFaults
                 \/ routed[r] # "none" /\ Split("failed", {}) /\ UNCHANGED <<routed, splitFaults>>
                 \/ /\ SplitFault                       \* the delete failed, or the add
                    /\ \/ /\ routed[r] = "none" /\ routed' = [routed EXCEPT ![r] = "ours"]
                          /\ Split("bypass", split.left \ {r})
                       \/ Split("failed", {}) /\ UNCHANGED routed
    /\ UNCHANGED <<tasks, dnsCache>>

install_geoip_routes ==
    /\ SplitAt("nets")
    /\ IF split.left = {}
       THEN Split("preload", {h \in Hosts : route_domain(h) = "proxy"})
            /\ UNCHANGED <<routed, known, splitFaults>>
       ELSE \E n \in split.left :
              \/ /\ routed' = Replaced({n}) /\ known' = [known EXCEPT !.nets = @ \cup {n}]
                 /\ Split("nets", split.left \ {n}) /\ UNCHANGED splitFaults
              \/ SplitFault /\ Split("failed", {}) /\ UNCHANGED <<routed, known>>
    /\ UNCHANGED <<tasks, dnsCache>>

\* install_proxy_host: an address is recorded before its route is tried, and a
\* recorded one is not tried again.
Fresh(h) == Answers[h] \ (Private \cup known.hosts)

InstallHosts(h) ==
    /\ known' = [known EXCEPT !.hosts = @ \cup Fresh(h)]
    /\ \/ routed' = Replaced(Fresh(h)) /\ UNCHANGED splitFaults
       \/ /\ SplitFault
          /\ \E d \in Fresh(h) : routed' = Replaced(Fresh(h) \ {d})

preload_domains ==
    /\ SplitAt("preload")
    /\ IF split.left = {}
       THEN \/ Split("up", {}) /\ UNCHANGED <<routed, known, splitFaults>>
            \/ SplitFault /\ Split("failed", {}) /\ UNCHANGED <<routed, known>>   \* the port is taken
       ELSE \E h \in split.left :
              /\ Split("preload", split.left \ {h})
              /\ \/ InstallHosts(h)
                 \/ SplitFault /\ UNCHANGED <<routed, known>>
    /\ UNCHANGED <<tasks, dnsCache>>

----------------------------------------------------------------------------
(* The DNS server: one task per query *)

Task(q, pc) == tasks' = [tasks EXCEPT ![q].pc = pc]
TaskOnly == UNCHANGED <<routed, known, split>>

\* An AAAA query for a proxied name is answered empty on the spot.
Receive ==
    /\ SplitAt("up")
    /\ \E q \in Queries, h \in Hosts, t \in {"A", "AAAA"} :
         /\ tasks[q].pc = "idle"
         /\ tasks' = [tasks EXCEPT ![q] = [name |-> h, pc |->
                IF t = "AAAA" /\ route_domain(h) = "proxy" THEN "idle"
                ELSE IF <<h, t>> \notin dnsCache THEN (IF t = "A" THEN "ask" ELSE "ask6")
                ELSE IF t = "A" THEN "post" ELSE "idle"]]
    /\ TaskOnly /\ UNCHANGED <<dnsCache, splitFaults>>

\* The upstream answers, or an error or the timeout ends the task: nothing is
\* cached, and there is no address to route.  Neither is there in an AAAA answer.
Upstream ==
    \E q \in Queries :
      /\ tasks[q].pc \in {"ask", "ask6"}
      /\ \/ /\ Task(q, IF tasks[q].pc = "ask" THEN "post" ELSE "idle")
            /\ dnsCache' = dnsCache \cup {<<tasks[q].name, IF tasks[q].pc = "ask" THEN "A" ELSE "AAAA">>}
            /\ UNCHANGED splitFaults
         \/ SplitFault /\ Task(q, "idle") /\ UNCHANGED dnsCache
      /\ TaskOnly

\* The reply is already on its way to the asker when the routes are installed.
post_process ==
    \E q \in Queries :
      /\ tasks[q].pc = "post" /\ Task(q, "idle")
      /\ IF \E n \in {tasks[q].name} \cup Aliases[tasks[q].name] : route_domain(n) = "proxy"
         THEN InstallHosts(tasks[q].name)
         ELSE UNCHANGED <<routed, known, splitFaults>>
      /\ UNCHANGED <<split, dnsCache>>

Expire == dnsCache # {} /\ dnsCache' = {} /\ UNCHANGED <<routed, known, split, tasks, splitFaults>>

----------------------------------------------------------------------------
(* Stopping *)

\* Dropping SplitTunnel aborts the listener and empties the guard; a failed
\* start drops the guard as well.
StopSplit ==
    /\ split.pc \in {"up", "failed"}
    /\ Split("stopped", {}) /\ known' = NoRecord /\ DropRecord
    /\ UNCHANGED <<tasks, dnsCache>>

NoQueries == \A q \in Queries : tasks[q].pc = "idle"

\* Mutant: only teardown removes routes.
KeepLate == UNCHANGED <<routed, splitFaults>>

\* The guard itself goes with the last task that shares it.
LastDrop == DropRecord

GuardDropped ==
    /\ SplitAt("stopped") /\ NoQueries
    /\ Split("gone", {}) /\ known' = NoRecord /\ LastDrop
    /\ UNCHANGED <<tasks, dnsCache>>

SplitInit ==
    /\ \E others \in SUBSET Resolvers :
         routed = [d \in Resolvers \cup Nets \cup UNION {Answers[h] : h \in Hosts} |->
                      IF d \in others THEN "other" ELSE "none"]
    /\ known = NoRecord
    /\ split = [pc |-> "bypass", left |-> Resolvers]
    /\ tasks = [q \in Queries |-> [name |-> <<>>, pc |-> "idle"]]
    /\ dnsCache = {} /\ splitFaults = 0

SplitNext ==
    \/ StartBypass \/ install_geoip_routes \/ preload_domains
    \/ Receive \/ Upstream \/ post_process \/ Expire \/ StopSplit \/ GuardDropped

SplitSpec == SplitInit /\ [][SplitNext]_splitVars

----------------------------------------------------------------------------
(* Properties *)

\* Once the tunnel is stopped and the last query that outlived it has ended, no
\* route of ours is left, however late that query installed it; a command that
\* failed is the only excuse.
SplitRoutesGone ==
    (split.pc = "gone" /\ splitFaults = 0) => \A d \in DOMAIN routed : routed[d] # "ours"

\* While the tunnel is up its upstream resolvers are pinned outside it.
ResolversPinned == split.pc = "up" => \A r \in Resolvers : routed[r] = "ours"

-----------------------------------------------------------------------------
(***************************************************************************)
(* The DNS leak guard of split mode on Linux: a list of iptables commands  *)
(* that send every port-53 packet to a chain of our own and reject DoT and *)
(* DoH, and the list that takes them out again.  There is no record of     *)
(* what is installed: a failed install runs the whole removal.             *)
(***************************************************************************)

CONSTANTS
    DohAddresses,   \* DOH_BLOCK_IPS, as a sequence
    MaxIptFaults,   \* commands that fail for a reason of their own
    MaxIptCrashes   \* times the client dies with its rules in place

ASSUME LeakGuardAssumption == MaxIptFaults \in Nat /\ MaxIptCrashes \in Nat

VARIABLES
    chain,      \* SHADOWPIPE_DNS: whether it exists, and the copies of its rules
    output,     \* copies of each of our rules in OUTPUT
    leak        \* the guard: what it runs, what is left of it, what went wrong

leakVars == <<chain, output, leak>>

----------------------------------------------------------------------------
(* The commands *)

Protocols == <<"udp", "tcp">>
Hijack(p) == <<"hijack", p>>
Dot(p) == <<"dot", p>>
Doh(a) == <<"doh", a>>
Each(op, kind(_), s) == [i \in DOMAIN s |-> [op |-> op, rule |-> kind(s[i])]]

\* The rules of OUTPUT that reject: DoT by protocol, DoH by resolver address.
Blocks(op) == Each(op, Dot, Reverse(Protocols)) \o Each(op, Doh, DohAddresses)

\* The chain is complete before anything jumps to it.
leak_guard_install_argv ==
    <<[op |-> "new"], [op |-> "flush"], [op |-> "fill"], [op |-> "fill"]>>
        \o Each("append", Hijack, Protocols) \o Blocks("append")

\* Mutant: the chain is deleted before the rules that jump to it.
ChainFirst ==
    <<[op |-> "flush"], [op |-> "drop"]>> \o Each("delete", Hijack, Protocols) \o Blocks("delete")

\* The chain can only be deleted once nothing jumps to it.
leak_guard_teardown_argv ==
    Each("delete", Hijack, Protocols) \o <<[op |-> "flush"], [op |-> "drop"]>> \o Blocks("delete")

Referenced == \E i \in DOMAIN Protocols : output[Hijack(Protocols[i])] > 0

\* Whether iptables can do it; ipt counts an existing chain as success.
Possible(c) ==
    CASE c.op = "new" -> TRUE
      [] c.op \in {"flush", "fill"} -> chain.exists
      [] c.op = "append" -> c.rule[1] = "hijack" => chain.exists
      [] c.op = "delete" -> output[c.rule] > 0
      [] c.op = "drop" -> chain.exists /\ chain.rules = 0 /\ ~Referenced

Effect(c) ==
    /\ chain' = CASE c.op = "new" -> [chain EXCEPT !.exists = TRUE]
                  [] c.op = "flush" -> [chain EXCEPT !.rules = 0]
                  [] c.op = "fill" -> [chain EXCEPT !.rules = @ + 1]
                  [] c.op = "drop" -> [chain EXCEPT !.exists = FALSE]
                  [] OTHER -> chain
    /\ output' = CASE c.op = "append" -> [output EXCEPT ![c.rule] = @ + 1]
                   [] c.op = "delete" -> [output EXCEPT ![c.rule] = @ - 1]
                   [] OTHER -> output

NoEffect == UNCHANGED <<chain, output>>
Leak(pc, todo) == leak' = [leak EXCEPT !.pc = pc, !.todo = todo]
Failing(pc, todo) ==
    /\ leak.faults < MaxIptFaults
    /\ leak' = [leak EXCEPT !.pc = pc, !.todo = todo, !.faults = @ + 1,
                            !.stuck = @ \/ leak.pc = "remove"]

----------------------------------------------------------------------------
(* The guard *)

Engage ==
    /\ leak.pc = "off"
    /\ Leak("install", leak_guard_install_argv) /\ NoEffect

\* run_install_with_rollback: the first failure starts the whole removal.
InstallCommand ==
    /\ leak.pc = "install"
    /\ IF leak.todo = <<>> THEN Leak("on", <<>>) /\ NoEffect
       ELSE \/ Possible(Head(leak.todo)) /\ Effect(Head(leak.todo)) /\ Leak("install", Tail(leak.todo))
            \/ Failing("remove", leak_guard_teardown_argv) /\ NoEffect

\* Drop runs the same list.
Disengage ==
    /\ leak.pc = "on"
    /\ Leak("remove", leak_guard_teardown_argv) /\ NoEffect

\* A command that fails, or has nothing to delete, does not stop the others.
RemoveCommand ==
    /\ leak.pc = "remove"
    /\ IF leak.todo = <<>> THEN Leak("off", <<>>) /\ NoEffect
       ELSE \/ Possible(Head(leak.todo)) /\ Effect(Head(leak.todo)) /\ Leak("remove", Tail(leak.todo))
            \/ ~Possible(Head(leak.todo)) /\ NoEffect /\ Leak("remove", Tail(leak.todo))
            \/ Failing("remove", Tail(leak.todo)) /\ NoEffect

\* The client dies and its rules stay: nothing records them.
LeakCrash ==
    /\ leak.pc # "off" /\ leak.crashes < MaxIptCrashes
    /\ leak' = [leak EXCEPT !.pc = "off", !.todo = <<>>, !.crashes = @ + 1]
    /\ NoEffect

LeakInit ==
    /\ chain = [exists |-> FALSE, rules |-> 0]
    /\ output = [r \in {c.rule : c \in ToSet(Each("append", Hijack, Protocols) \o Blocks("append"))} |-> 0]
    /\ leak = [pc |-> "off", todo |-> <<>>, faults |-> 0, crashes |-> 0, stuck |-> FALSE]

LeakNext == Engage \/ InstallCommand \/ Disengage \/ RemoveCommand \/ LeakCrash

LeakSpec == LeakInit /\ [][LeakNext]_leakVars

----------------------------------------------------------------------------
(* Properties *)

\* Whatever command of the install failed, the removal leaves no chain and no
\* rule behind, unless a command of the removal itself failed or an earlier
\* client died with its rules in place.
GuardLeavesNothing ==
    (leak.pc = "off" /\ ~leak.stuck /\ leak.crashes = 0) =>
        ~chain.exists /\ chain.rules = 0 /\ \A r \in DOMAIN output : output[r] = 0
=============================================================================
