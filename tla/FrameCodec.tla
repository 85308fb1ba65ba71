----------------------------- MODULE FrameCodec -----------------------------
(***************************************************************************)
(* The frame header of shadowpipe-core/src/proto/mod.rs: what write_frame  *)
(* puts on the carrier for a frame that prepare_outbound_frame let pass,   *)
(* what read_frame makes of any header, and the bytes both ends account to *)
(* the volume guard for it.                                                *)
(*                                                                         *)
(* A byte is a number; a uvarint group carries Base values (128 in the     *)
(* code) and a byte of Base or more announces another group.  The reader   *)
(* is fed one header byte at a time.                                       *)
(***************************************************************************)
EXTENDS Integers, Sequences, FiniteSets, SequencesExt

CONSTANTS
    Base,               \* values of one group: 2^7 in the code
    Groups,             \* groups a u64 may need: 10
    LastLimit,          \* greatest payload of the last of them: 1
    MaxStreamId,        \* u32::MAX
    MAX_FRAME_PAYLOAD,
    MAX_PADDING,
    MAX_FRAME_HEADER,
    TagLength,          \* CHACHA20_POLY1305_TAG_LEN
    Probes,             \* header bytes the reader is fed
    StreamIds, PlaintextLengths, PaddingLengths  \* the frames that are sent

\* FrameFlags, by the bit that stands for each in the flags byte.
FlagBits == [data |-> 1, fin |-> 2, ping |-> 4, padding |-> 8]

ASSUME CodecAssumption ==
    /\ {Base, Groups} \subseteq Nat \ {0, 1} /\ LastLimit \in 0..(Base - 1)
    /\ {MAX_FRAME_PAYLOAD, MAX_PADDING, MAX_FRAME_HEADER, TagLength} \subseteq Nat
    /\ Probes \subseteq 0..(2 * Base - 1)
    /\ StreamIds \subseteq 0..MaxStreamId
    /\ PlaintextLengths \cup PaddingLengths \subseteq Nat

VARIABLES
    header,     \* the header bytes read so far
    prepared    \* the frames the sender prepared: none, or the one in hand

codecVars == <<header, prepared>>

Failed == [ok |-> FALSE, value |-> 0, rest |-> <<>>]

\* The canonical form drops no group and adds none.
write_uvarint[value \in Nat] ==
    IF value < Base THEN <<value>>
    ELSE <<Base + (value % Base)>> \o write_uvarint[value \div Base]

\* Mutant: a redundant zero group is accepted.
PaddedUvarint(bytes) ==
    LET stops == {i \in 1..Len(bytes) : bytes[i] < Base}
        last  == CHOOSE i \in stops : \A k \in stops : i <= k
    IN  IF stops = {} \/ last > Groups \/ (last = Groups /\ bytes[last] > LastLimit) THEN Failed
        ELSE [ok |-> TRUE, rest |-> SubSeq(bytes, last + 1, Len(bytes)),
              value |-> FoldRight(LAMBDA b, v : (v * Base) + (b % Base), SubSeq(bytes, 1, last), 0)]

\* The first group without the continuation mark is the last; a number has one
\* encoding, and one that a u64 cannot hold is refused.
read_uvarint(bytes) ==
    LET stops == {i \in 1..Len(bytes) : bytes[i] < Base}
        last  == CHOOSE i \in stops : \A k \in stops : i <= k
    IN  IF \/ stops = {}
           \/ last > Groups
           \/ last = Groups /\ bytes[last] > LastLimit
           \/ last > 1 /\ bytes[last] = 0
        THEN Failed
        ELSE [ok |-> TRUE, rest |-> SubSeq(bytes, last + 1, Len(bytes)),
              value |-> FoldRight(LAMBDA b, v : (v * Base) + (b % Base), SubSeq(bytes, 1, last), 0)]

Bits(flags) == FoldSet(LAMBDA f, sum : sum + FlagBits[f], 0, flags)

\* FrameFlags::from_bits after the check that no other bit is set.
KnownFlags(byte) == {f \in SUBSET DOMAIN FlagBits : Bits(f) = byte}

write_frame_header(frame) ==
    write_uvarint[frame.stream_id] \o <<Bits(frame.flags)>> \o write_uvarint[frame.payload]

\* The frames that leave an end: one purpose, the padding flag exactly when
\* there is padding, and a payload the receiver is bound to take.
prepare_outbound_frame ==
    {[stream_id |-> id, payload |-> n + TagLength, padding |-> pad,
      flags |-> {purpose} \cup (IF pad = 0 THEN {} ELSE {"padding"})] :
        id \in StreamIds, pad \in {p \in PaddingLengths : p <= MAX_PADDING},
        n \in {l \in PlaintextLengths : l + TagLength <= MAX_FRAME_PAYLOAD},
        purpose \in {"data", "fin", "ping"}}

\* What read_frame makes of a header, the two bytes after the payload being `pad`.
read_frame(bytes, pad) ==
    LET id     == read_uvarint(bytes)
        flags  == KnownFlags(id.rest[1])
        length == read_uvarint(Tail(id.rest))
        padded == "padding" \in (CHOOSE f \in flags : TRUE)
    IN  IF \/ Len(bytes) > MAX_FRAME_HEADER
           \/ ~id.ok \/ id.value > MaxStreamId \/ id.rest = <<>>
           \/ flags = {} \/ ~length.ok \/ length.rest # <<>> \/ length.value > MAX_FRAME_PAYLOAD
           \/ padded /\ pad \notin 1..MAX_PADDING
        THEN [ok |-> FALSE]
        ELSE [ok |-> TRUE, stream_id |-> id.value, flags |-> CHOOSE f \in flags : TRUE,
              payload |-> length.value, padding |-> IF padded THEN pad ELSE 0]

\* estimate_frame_wire_bytes, given the bytes padding takes with its length.
uvarint_len[value \in Nat] == IF value < Base THEN 1 ELSE 1 + uvarint_len[value \div Base]

estimate_frame_wire_bytes(payload, padding, id) ==
    2 + uvarint_len[id] + 1 + uvarint_len[payload] + payload + padding

\* What record_sent and record_recv are given for a frame.
SentBytes(frame) ==
    estimate_frame_wire_bytes(frame.payload,
        IF frame.padding = 0 THEN 0 ELSE 2 + frame.padding, frame.stream_id)

ReceivedBytes(frame) ==
    estimate_frame_wire_bytes(frame.payload,
        IF "padding" \in frame.flags THEN 2 + frame.padding ELSE 0, frame.stream_id)

CodecInit == header = <<>> /\ prepared = {}

Prepare ==
    /\ header = <<>> /\ \E frame \in prepare_outbound_frame : prepared' = {frame}
    /\ UNCHANGED header

\* read_blob16_bounded hands over at most MAX_FRAME_HEADER bytes; one more is
\* fed here to meet the bound.
FeedByte ==
    /\ prepared = {} /\ Len(header) <= MAX_FRAME_HEADER
    /\ \E b \in Probes : header' = Append(header, b)
    /\ UNCHANGED prepared

NextHeader == Len(header) > MAX_FRAME_HEADER /\ header' = <<>> /\ UNCHANGED prepared

CodecNext == Prepare \/ FeedByte \/ NextHeader

\* Frames and headers correspond one to one: a header that read_frame takes is the
\* one write_frame would have written for that frame, every frame the sender
\* prepares fits the receiver's MAX_FRAME_HEADER and is read back as it was sent,
\* and both ends charge it to their volume guards with the same number of bytes,
\* which is the number written.
OneEncoding ==
    /\ \A pad \in PaddingLengths :
          LET frame == read_frame(header, pad)
          IN  frame.ok => write_frame_header(frame) = header
    /\ \A frame \in prepared :
          LET written == write_frame_header(frame)
              read    == read_frame(written, frame.padding)
          IN  /\ read = [ok |-> TRUE] @@ frame
              /\ SentBytes(frame) = ReceivedBytes(frame)
              /\ SentBytes(frame) = 2 + Len(written) + frame.payload
                                    + (IF frame.padding = 0 THEN 0 ELSE 2 + frame.padding)
=============================================================================
