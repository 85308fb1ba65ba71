----------------------------- MODULE EndpointDns -----------------------------
(***************************************************************************)
(* The bounded resolver behind the endpoint refresh: one question to one   *)
(* resolver over UDP, over TCP once when the answer was validly truncated, *)
(* and a parser that follows compressed names and a bounded CNAME chain.   *)
(*   A packet is a record of what its header says and of its resource      *)
(* records; a name on the wire is a function from offsets to cells.        *)
(***************************************************************************)
EXTENDS Naturals, Sequences, SequencesExt, FiniteSets, FiniteSetsExt

CONSTANTS
    Datagrams,              \* what may arrive on the UDP socket or the TCP stream
    NamePackets,            \* packets to read a name from
    NameStarts,             \* where the name starts
    QueryNames,             \* names a policy may give, as sequences of labels
    max_cname_depth, max_addresses, max_resource_records,
    MAX_POINTER_HOPS, MAX_NAME_LEN

default_negative_ttl_secs == 30

VARIABLES
    lookup,     \* [at, qname, via, result]: one call of resolve_a
    wire        \* [packet, start]: the bytes parse_name is given

dnsVars == <<lookup, wire>>

DnsError == [kind |-> "error"]
Fallback == [kind |-> "truncated"]

-----------------------------------------------------------------------------
(* Names.  A label is one byte long: cells hold its length byte, its content byte may be
   anything. *)

Root == [kind |-> "end"]
\* Mutant: the end of the name is where the last pointer was.
AfterLastPointer(next, position) == position + 2
\* get_or_insert: the first pointer ends the name where it started.
AfterPointer(next, position) == IF next = 0 THEN position + 2 ELSE next

RECURSIVE read_labels(_, _, _, _, _, _)
\* The loop of parse_name from `position`; next = 0 before the first pointer.
read_labels(packet, position, labels, next, visited, hops) ==
    IF position \notin DOMAIN packet \/ position \in visited THEN DnsError
    ELSE LET cell == packet[position]
             seen == visited \cup {position} IN
         CASE cell.kind = "pointer" ->
                IF position + 1 \notin DOMAIN packet \/ cell.to \notin DOMAIN packet \/ hops = MAX_POINTER_HOPS
                THEN DnsError
                ELSE read_labels(packet, cell.to, labels, AfterPointer(next, position), seen, hops + 1)
           [] cell.kind = "end" ->
                [kind |-> "name", labels |-> labels, next |-> IF next = 0 THEN position + 1 ELSE next]
           [] cell.kind = "label" ->
                IF position + 1 \notin DOMAIN packet \/ 2 * Len(labels) + 1 > MAX_NAME_LEN THEN DnsError
                ELSE read_labels(packet, position + 2, Append(labels, position + 1), next, seen, hops)
           [] cell.kind = "reserved" -> DnsError
parse_name(packet, start) == read_labels(packet, start, <<>>, 0, {}, 0)

\* Labels are "host", "HOST" (which is lower-cased), or not a host label.
canonical_qname(name) ==
    IF name = <<>> \/ \E i \in DOMAIN name : name[i] \notin {"host", "HOST"} THEN <<>>
    ELSE [i \in DOMAIN name |-> "host"]

\* Length and content byte of each label, and the root; offsets start at 1 here.
encode_name(name) ==
    [p \in 1..(2 * Len(name) + 1) |->
        IF p > 2 * Len(name) THEN Root
        ELSE IF p % 2 = 1 THEN [kind |-> "label"] ELSE [kind |-> "reserved"]]

\* build_a_query refuses what has no canonical name.
build_a_query(name) == canonical_qname(name) # <<>>

-----------------------------------------------------------------------------
(* Answers *)

InClass(answers, type) == {i \in DOMAIN answers : answers[i].in /\ answers[i].type = type}
Targets(answers, owner) == {answers[i].data : i \in {j \in InClass(answers, "CNAME") : answers[j].owner = owner}}
AddressRecords(answers, owner) == {i \in InClass(answers, "A") : answers[i].owner = owner}
LinkTtl(answers, owner) == Min({answers[i].ttl : i \in {j \in InClass(answers, "CNAME") : answers[j].owner = owner}})
Lower(a, b) == IF a < b THEN a ELSE b

RECURSIVE walk(_, _, _, _, _)
\* The loop of follow_cname_chain at `current`, reached at `depth` with the TTL of the path.
walk(answers, current, path_ttl, seen, depth) ==
    IF current \in seen THEN DnsError
    ELSE IF AddressRecords(answers, current) # {}
    THEN LET ips == {answers[i].data : i \in AddressRecords(answers, current)}
             ttls(ip) == {answers[i].ttl : i \in {j \in AddressRecords(answers, current) : answers[j].data = ip}}
         IN  IF Cardinality(ips) > max_addresses THEN DnsError
             ELSE [kind |-> "positive", ttl |-> [ip \in ips |-> Lower(Min(ttls(ip)), path_ttl)]]
    ELSE IF Targets(answers, current) = {} THEN [kind |-> "empty"]
    ELSE IF depth = max_cname_depth THEN DnsError
    ELSE walk(answers, CHOOSE t \in Targets(answers, current) : TRUE,
              Lower(path_ttl, LinkTtl(answers, current)), seen \cup {current}, depth + 1)

\* A TTL above every TTL of the instance, for u32::MAX.
TtlMax == 1000

\* Mutant: the TTL of the address alone counts.
WalkWithoutPath(answers, qname) ==
    IF \E o \in {answers[i].owner : i \in DOMAIN answers} :
          Cardinality(Targets(answers, o)) > 1 \/ (Targets(answers, o) # {} /\ AddressRecords(answers, o) # {})
    THEN DnsError
    ELSE walk([i \in DOMAIN answers |-> IF answers[i].type = "CNAME" THEN [answers[i] EXCEPT !.ttl = TtlMax]
                                        ELSE answers[i]], qname, TtlMax, {}, 0)
follow_cname_chain(answers, qname) ==
    IF \/ \E i \in InClass(answers, "A") \cup InClass(answers, "CNAME") : ~answers[i].whole
       \/ \E o \in {answers[i].owner : i \in DOMAIN answers} :
             Cardinality(Targets(answers, o)) > 1 \/ (Targets(answers, o) # {} /\ AddressRecords(answers, o) # {})
    THEN DnsError
    ELSE walk(answers, qname, TtlMax, {}, 0)

\* Each SOA gives the lesser of its TTL and its minimum field.
parse_soa_minimum(rr) == Lower(rr.ttl, rr.minimum)
soa_negative_ttl(soas) ==
    IF soas = {} THEN default_negative_ttl_secs ELSE Min({parse_soa_minimum(rr) : rr \in soas})

\* Header, question and the extent of every record.
HeaderSound(p) == p.sized /\ p.txid /\ p.qr /\ p.opcode = 0 /\ ~p.z /\ p.questions = 1
RecordsSound(p) == p.records <= max_resource_records /\ p.extent = "exact"

\* Mutant: TC counts before the question and the records were read.
TruncatedFirst(p) ==
    IF ~HeaderSound(p) THEN DnsError
    ELSE IF p.tc THEN Fallback
    ELSE IF ~RecordsSound(p) \/ p.question # "asked" \/ \E rr \in p.soas : ~rr.whole THEN DnsError
    ELSE IF p.rcode = 3 THEN [kind |-> "nxdomain", ttl |-> soa_negative_ttl(p.soas)]
    ELSE IF p.rcode # 0 THEN [kind |-> "transient"]
    ELSE follow_cname_chain(p.answers, "q")
parse_a_response(p) ==
    IF ~HeaderSound(p) \/ ~RecordsSound(p) \/ p.question # "asked" THEN DnsError
    ELSE IF p.tc THEN Fallback
    ELSE IF \E rr \in p.soas : ~rr.whole THEN DnsError
    ELSE IF p.rcode = 3 THEN [kind |-> "nxdomain", ttl |-> soa_negative_ttl(p.soas)]
    ELSE IF p.rcode # 0 THEN [kind |-> "transient"]
    ELSE LET records == follow_cname_chain(p.answers, "q")
         IN  IF records.kind = "empty" THEN [kind |-> "nodata", ttl |-> soa_negative_ttl(p.soas)]
             ELSE records

\* From<ParsedDnsAnswer>: what the coordinator is told.
Observation(result) == IF result.kind = "transient" THEN "TransientFailure" ELSE result.kind

-----------------------------------------------------------------------------
(* resolve_a *)

Lookup(at, qname) == [at |-> at, qname |-> qname, via |-> <<>>, packet |-> DnsError, result |-> DnsError]

\* A packet with a name in it and no call, or a call and one such packet.
DnsInit ==
    \/ /\ lookup = Lookup("idle", <<>>)
       /\ wire \in [packet : NamePackets, start : NameStarts]
    \/ /\ lookup \in {Lookup("start", q) : q \in QueryNames}
       /\ wire = CHOOSE w \in [packet : NamePackets, start : NameStarts] : TRUE

resolve_a ==
    /\ lookup.at = "start"
    /\ lookup' = [lookup EXCEPT !.at = IF build_a_query(lookup.qname) THEN "udp" ELSE "done"]
    /\ UNCHANGED wire

\* A datagram from the resolver, a send error, or the timeout.  The socket is connected: what
\* another source sends is not received.
resolve_a_connected_with_txid ==
    /\ lookup.at = "udp"
    /\ \/ \E p \in Datagrams :
             LET result == parse_a_response(p) IN
             lookup' = [lookup EXCEPT !.at = IF result = Fallback THEN "tcp" ELSE "done",
                                      !.via = Append(@, "udp"), !.packet = p, !.result = result]
       \/ lookup' = [lookup EXCEPT !.at = "done", !.via = Append(@, "udp")]
    /\ UNCHANGED wire

\* Connect, write, length prefix and body, each with a timeout; the body is as long as the
\* prefix says.  A second truncation is an error of the call.
resolve_a_tcp_with_txid ==
    /\ lookup.at = "tcp"
    /\ \/ \E p \in Datagrams :
             lookup' = [lookup EXCEPT !.at = "done", !.via = Append(@, "tcp"), !.packet = p,
                                      !.result = parse_a_response(p)]
       \/ lookup' = [lookup EXCEPT !.at = "done", !.via = Append(@, "tcp"), !.packet = DnsError,
                                   !.result = DnsError]
    /\ UNCHANGED wire

DnsNext == resolve_a \/ resolve_a_connected_with_txid \/ resolve_a_tcp_with_txid

-----------------------------------------------------------------------------
(* Properties *)

\* Where a reader stands who knows nothing of bounds or repetitions, after i moves; outside
\* the packet they stay.
Outside == 1000
Move(packet, p) ==
    IF p \notin DOMAIN packet \/ p + 1 \notin DOMAIN packet \/ packet[p].kind \notin {"pointer", "label"} THEN Outside
    ELSE IF packet[p].kind = "pointer" THEN packet[p].to ELSE p + 2
Stands(packet, start) ==
    LET at[i \in 0..Cardinality(DOMAIN packet)] == IF i = 0 THEN start ELSE Move(packet, at[i - 1]) IN at
Passed(packet, at, n, kind) == {i \in 0..(n - 1) : packet[at[i]].kind = kind}

\* A name is read exactly when such a reader comes to a root within the bounds: no cycle is
\* followed, and none is seen where there is none.  It has the labels that were passed, and
\* what follows it starts behind the bytes at its own place, wherever the pointers lead.
\* A name that was encoded is read back.
NamesRead ==
    LET packet == wire.packet  name == parse_name(packet, wire.start)  at == Stands(packet, wire.start)
        roots == {n \in DOMAIN at :
                    /\ at[n] \in DOMAIN packet /\ packet[at[n]].kind = "end"
                    /\ Cardinality(Passed(packet, at, n, "pointer")) <= MAX_POINTER_HOPS
                    /\ 2 * Cardinality(Passed(packet, at, n, "label")) <= MAX_NAME_LEN + 1}
    IN  /\ (name.kind = "name") <=> (roots # {})
        /\ \A n \in roots :
              LET pointers == Passed(packet, at, n, "pointer")  labels == Passed(packet, at, n, "label") IN
              /\ ToSet(name.labels) = {at[i] + 1 : i \in labels} /\ Len(name.labels) = Cardinality(labels)
              /\ name.next = IF pointers = {} THEN at[n] + 1 ELSE at[Min(pointers)] + 2
        /\ LET q == canonical_qname(lookup.qname)  back == parse_name(encode_name(q), 1) IN
           q # <<>> /\ 2 * Len(q) <= MAX_NAME_LEN + 1 =>
             back.kind = "name" /\ Len(back.labels) = Len(q) /\ back.next = 2 * Len(q) + 2

Chain(answers, path) ==
    /\ path[1] = "q" /\ IsInjective(path) /\ Len(path) <= max_cname_depth + 1
    /\ \A i \in 1..(Len(path) - 1) : path[i + 1] \in Targets(answers, path[i])

\* An address is accepted only from an answer to this question that was not truncated, over
\* UDP first and over TCP only behind a truncation that was itself a sound answer; a
\* chain of aliases of bounded length leads to it; and it is kept no longer than any
\* record it rests on.  A name is declared absent for no longer than an SOA allows.
AnswersSound ==
    lookup.at = "done" =>
      LET r == lookup.result  p == lookup.packet IN
      /\ lookup.via \in {<<>>, <<"udp">>, <<"udp", "tcp">>}
      /\ r.kind \in {"positive", "nodata", "nxdomain", "transient"} =>
           HeaderSound(p) /\ RecordsSound(p) /\ p.question = "asked" /\ ~p.tc
      /\ r.kind = "positive" =>
           \E n \in 1..(max_cname_depth + 1) : \E path \in [1..n -> {p.answers[i].owner : i \in DOMAIN p.answers}] :
              /\ Chain(p.answers, path)
              /\ DOMAIN r.ttl = {p.answers[i].data : i \in AddressRecords(p.answers, path[n])}
              /\ \A ip \in DOMAIN r.ttl : \A i \in DOMAIN p.answers :
                    \/ p.answers[i].in /\ p.answers[i].type = "A" /\ p.answers[i].owner = path[n]
                         /\ p.answers[i].data = ip
                    \/ p.answers[i].in /\ p.answers[i].type = "CNAME"
                         /\ \E k \in 1..(n - 1) : p.answers[i].owner = path[k]
                    => r.ttl[ip] <= p.answers[i].ttl
      /\ r.kind \in {"nxdomain", "nodata"} => \A rr \in p.soas : r.ttl <= rr.ttl /\ r.ttl <= rr.minimum

\* Truncation is followed only when it answers the question that was asked.
FallbackEarned ==
    lookup.at = "tcp" =>
      LET p == lookup.packet IN HeaderSound(p) /\ RecordsSound(p) /\ p.question = "asked" /\ p.tc
=============================================================================
