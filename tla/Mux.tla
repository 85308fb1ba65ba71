--------------------------------- MODULE Mux ---------------------------------
(***************************************************************************)
(* Packet fragmentation of shadowpipe-core/src/mux/mod.rs: encode_packet   *)
(* spreads an IP packet over frames, and the Reassembler puts the frames   *)
(* of a packet together again under bounds on the number of unfinished     *)
(* packets and on their bytes.                                             *)
(*                                                                         *)
(* A packet is the sequence of its cells, a cell standing for as many      *)
(* bytes as the instance likes; packets carry increasing ids.              *)
(***************************************************************************)
EXTENDS Integers, Sequences, FiniteSets, FiniteSetsExt, Functions

CONSTANTS
    Lengths,             \* Lengths[id]: the cells of packet id
    max_chunk_size,      \* cells per frame
    MAX_PENDING_PACKETS,
    MAX_PENDING_BYTES,   \* in cells
    MAX_FRAG_TOTAL

PacketIds == DOMAIN Lengths

ASSUME MuxAssumption ==
    /\ PacketIds \subseteq Nat \ {0} /\ \A id \in PacketIds : Lengths[id] \in Nat
    /\ {max_chunk_size, MAX_FRAG_TOTAL} \subseteq Nat \ {0}
    \* 256 packets and 8 MiB in the code: room for a packet besides the one in hand.
    /\ MAX_PENDING_PACKETS \in Nat /\ MAX_PENDING_PACKETS >= 2
    /\ MAX_PENDING_BYTES \in Nat
    /\ \A id \in PacketIds : Lengths[id] <= MAX_PENDING_BYTES

VARIABLES
    pending,   \* unfinished packets: [total, frags] by packet id
    bytes,     \* total_bytes
    out,       \* what the last feed returned: [ok, packet], <<>> when it returned none
    newest,    \* the newest packet whose first frame was fed
    streak     \* frames of `newest` fed in order with nothing in between

muxVars == <<pending, bytes, out, newest, streak>>

Packet(id) == [c \in 1..Lengths[id] |-> <<id, c>>]

-----------------------------------------------------------------------------
(* encode_packet                                                            *)

ChunkCount(len) == (len + max_chunk_size - 1) \div max_chunk_size

Chunk(p, k) ==
    SubSeq(p, k * max_chunk_size + 1, Min({(k + 1) * max_chunk_size, Len(p)}))

\* An empty packet has no frames.
encode_packet(id) ==
    LET n == ChunkCount(Lengths[id])
    IN [k \in 1..n |-> [id |-> id, idx |-> k - 1, total |-> n, data |-> Chunk(Packet(id), k - 1)]]

Frames == UNION {Range(encode_packet(id)) : id \in PacketIds}

-----------------------------------------------------------------------------
(* Reassembler::feed                                                        *)

Size(entry) == FoldFunction(LAMBDA d, n : Len(d) + n, 0, entry.frags)

TotalSize(p) == FoldFunction(LAMBDA e, n : Size(e) + n, 0, p)

\* evict_oldest takes the smallest id; the loop stops when there is room for one
\* more packet and for the data, or when nothing is pending any more.
HasRoom(p, b, data) ==
    Cardinality(DOMAIN p) < MAX_PENDING_PACKETS /\ b + Len(data) <= MAX_PENDING_BYTES

Kept(data) ==
    LET from(id) == Restrict(pending, {i \in DOMAIN pending : i >= id})
        fits == {id \in DOMAIN pending : HasRoom(from(id), TotalSize(from(id)), data)}
    IN IF fits = {} THEN Restrict(pending, {}) ELSE from(Min(fits))

\* total_bytes drops by the size of every evicted packet, but not below zero.
BytesKept(kept) ==
    LET gone == TotalSize(pending) - TotalSize(kept)
    IN IF gone > bytes THEN 0 ELSE bytes - gone

Insert(kept, f) ==
    LET old == IF f.id \in DOMAIN kept THEN kept[f.id].frags ELSE Restrict(<<>>, {})
        frags == [i \in DOMAIN old \cup {f.idx} |-> IF i = f.idx THEN f.data ELSE old[i]]
    IN [id \in DOMAIN kept \cup {f.id} |->
          IF id = f.id THEN [total |-> f.total, frags |-> frags] ELSE kept[id]]

\* Mutant: a repeated fragment is accounted again.
NothingReplaced(kept, f) == 0

\* A frame of the same index is replaced and counted once.
Replaced(kept, f) ==
    IF f.id \in DOMAIN kept /\ f.idx \in DOMAIN kept[f.id].frags
    THEN Len(kept[f.id].frags[f.idx]) ELSE 0

Assemble(entry) ==
    LET upTo[k \in 0..entry.total] ==
            IF k = 0 THEN <<>> ELSE upTo[k - 1] \o entry.frags[k - 1]
    IN upTo[entry.total]

Return(ok, packet) == out' = [ok |-> ok, packet |-> packet]

feed(f) ==
    IF f.total = 0 \/ f.idx >= f.total \/ f.total > MAX_FRAG_TOTAL
    THEN Return(FALSE, <<>>) /\ UNCHANGED <<pending, bytes>>
    ELSE LET kept == Kept(f.data)
             all == Insert(kept, f)
             held == BytesKept(kept) + Len(f.data) - Replaced(kept, f)
         IN CASE f.id \in DOMAIN kept /\ kept[f.id].total # f.total ->
                    /\ pending' = kept
                    /\ bytes' = BytesKept(kept)
                    /\ Return(FALSE, <<>>)
              [] Cardinality(DOMAIN all[f.id].frags) = f.total ->
                    /\ pending' = Restrict(all, DOMAIN all \ {f.id})
                    /\ bytes' = held - Size(all[f.id])
                    /\ Return(TRUE, Assemble(all[f.id]))
              [] OTHER ->
                    /\ pending' = all
                    /\ bytes' = held
                    /\ Return(TRUE, <<>>)

-----------------------------------------------------------------------------
MuxInit ==
    /\ pending = Restrict(<<>>, {})
    /\ bytes = 0
    /\ out = [ok |-> TRUE, packet |-> <<>>]
    /\ newest = 0
    /\ streak = 0

\* The next frame of the newest packet, or the first of a newer one.
FeedNext(f) ==
    /\ \/ f.id = newest /\ f.idx = streak
       \/ f.id > newest /\ f.idx = 0
    /\ newest' = f.id
    /\ streak' = f.idx + 1
    /\ feed(f)

\* A frame of a packet that was begun, out of order or once more.
FeedStray(f) ==
    /\ f.id <= newest
    /\ streak' = -1
    /\ feed(f)
    /\ UNCHANGED newest

MuxNext == \E f \in Frames : FeedNext(f) \/ FeedStray(f)

MuxSpec == MuxInit /\ [][MuxNext]_muxVars

-----------------------------------------------------------------------------
\* The byte count is kept by adding and subtracting over inserts, replacements,
\* evictions and completions: it always is what is really buffered, a packet that
\* has all its frames is never left behind, and both bounds hold after every feed.
BuffersAccounted ==
    /\ bytes = TotalSize(pending)
    /\ bytes <= MAX_PENDING_BYTES
    /\ Cardinality(DOMAIN pending) <= MAX_PENDING_PACKETS
    /\ \A id \in DOMAIN pending :
          Cardinality(DOMAIN pending[id].frags) < pending[id].total

\* Whatever was left unfinished before, and however often eviction had to make
\* room, a returned packet is a packet that was sent, cell by cell, and a packet
\* whose frames arrive one after the other, as the carrier delivers them, is
\* returned with its last frame.
PacketsWhole ==
    /\ BuffersAccounted
    /\ out.ok /\ (out.packet = <<>> \/ \E id \in PacketIds : out.packet = Packet(id))
    /\ (newest # 0 /\ streak = ChunkCount(Lengths[newest])) => out.packet = Packet(newest)
=============================================================================
