------------------------------ MODULE Framing ------------------------------
(***************************************************************************)
(* The block format of framing.py.  A byte, and an offset, is the set of   *)
(* its bits that are one, bit 0 being the lowest.  The widths are          *)
(* constants: narrow enough for TLC to try every frame and every damaged   *)
(* byte, or those of the code.                                             *)
(***************************************************************************)
EXTENDS Integers, Sequences, FiniteSets

CONSTANTS
    ByteBits,     \* bits of a byte, 8 in the code
    OffsetBytes,  \* bytes of an offset, 4 in the code
    MaxPayload,   \* BLOCK_PAYLOAD_SIZE
    Marker        \* BLOCK_MARKER: some byte, which data may contain too

Bits == 0 .. ByteBits - 1
Bytes == SUBSET Bits
Offsets == SUBSET (0 .. OffsetBytes * ByteBits - 1)
Payloads == UNION {[1 .. n -> Bytes] : n \in 1 .. MaxPayload}

ASSUME FramingAssumption ==
    /\ ByteBits \in Nat \ {0}
    /\ OffsetBytes \in Nat \ {0}
    /\ MaxPayload \in Nat \ {0}
    /\ Marker \in Bytes

Refused == <<>>

\* offset.to_bytes(4, byteorder="little")
LittleEndian(offset) ==
    [i \in 1 .. OffsetBytes |->
        {bit \in Bits : ByteBits * (i - 1) + bit \in offset}]

\* int.from_bytes(body[-4:], byteorder="little")
Value(field) ==
    {place \in 0 .. OffsetBytes * ByteBits - 1 :
        place % ByteBits \in field[place \div ByteBits + 1]}

\* The exclusive or of bytes: a bit is one if it is one in an odd number.
OddBits(bytes) ==
    {bit \in Bits :
        Cardinality({i \in DOMAIN bytes : bit \in bytes[i]}) % 2 = 1}

PayloadSum(body) ==   \* slip: the offset is not part of the checksum
    OddBits(SubSeq(body, 1, Len(body) - OffsetBytes))

Checksum(body) == OddBits(body)

\* frame_file_block
Framed(payload, offset) ==
    LET body == payload \o LittleEndian(offset)
    IN  body \o <<Checksum(body), Marker>>

\* parse_file_block: too short, another marker, another checksum, or a block
Parsed(datagram) ==
    LET size == Len(datagram)
        body == SubSeq(datagram, 1, size - 2)
    IN  IF \/ size <= OffsetBytes + 2
           \/ datagram[size] # Marker
           \/ datagram[size - 1] # Checksum(body)
        THEN Refused
        ELSE <<SubSeq(body, 1, size - 2 - OffsetBytes),
               Value(SubSeq(body, size - 1 - OffsetBytes, size - 2))>>

\* What is framed is what is parsed, at every offset a frame can carry and also
\* when the data contains the marker; and any one damaged byte, of the data,
\* the offset, the checksum or the marker, makes the printer refuse the block,
\* so that none is stored at another place or with other data.
DamageIsDetected ==
    \A payload \in Payloads, offset \in Offsets :
        LET frame == Framed(payload, offset)
        IN  \A i \in DOMAIN frame, byte \in Bytes :
                Parsed([frame EXCEPT ![i] = byte]) =
                    IF byte = frame[i] THEN <<payload, offset>> ELSE Refused
=============================================================================
