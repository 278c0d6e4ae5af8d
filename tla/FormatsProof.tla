---------------------------- MODULE FormatsProof ----------------------------
(***************************************************************************)
(* The block format for all widths, payloads and offsets, and the file     *)
(* names for all lengths: what TLC tries on every small frame and name.    *)
(***************************************************************************)
EXTENDS MCUploadSystem, FiniteSetTheorems, SequenceTheorems, TLAPS

-----------------------------------------------------------------------------
(***************************************************************************)
(* Offsets                                                                 *)
(***************************************************************************)

LEMMA Widths ==
    /\ ByteBits \in Nat \ {0} /\ OffsetBytes \in Nat \ {0}
    /\ MaxPayload \in Nat \ {0} /\ Marker \in Bytes
  BY FramingAssumption DEF FramingAssumption

LEMMA DivisionIs ==
    ASSUME NEW p \in Nat, NEW b \in Nat \ {0}
    PROVE  /\ p % b \in 0 .. b - 1 /\ p \div b \in Nat
           /\ b * (p \div b) + (p % b) = p
  OBVIOUS

\* Every place of an offset is a bit of one of its bytes.
LEMMA PlaceIs ==
    ASSUME NEW p \in 0 .. OffsetBytes * ByteBits - 1
    PROVE  /\ p % ByteBits \in Bits
           /\ p \div ByteBits + 1 \in 1 .. OffsetBytes
           /\ ByteBits * ((p \div ByteBits + 1) - 1) + (p % ByteBits) = p
  <1>1. p \in Nat /\ ByteBits \in Nat \ {0} /\ OffsetBytes \in Nat \ {0}
    BY Widths
  <1>2. PICK r \in 0 .. ByteBits - 1, q \in Nat :
            /\ r = p % ByteBits /\ q = p \div ByteBits
            /\ ByteBits * q + r = p
    BY <1>1, DivisionIs
  <1>3. q < OffsetBytes
    <2>1. SUFFICES ASSUME q >= OffsetBytes PROVE FALSE
      BY <1>1, <1>2
    <2>2. ByteBits * q >= ByteBits * OffsetBytes
      BY <1>1, <1>2, <2>1
    <2>3. ByteBits * OffsetBytes = OffsetBytes * ByteBits
      BY <1>1
    <2>4. QED
      BY <1>1, <1>2, <2>2, <2>3
  <1>4. q + 1 \in 1 .. OffsetBytes /\ (q + 1) - 1 = q
    BY <1>1, <1>2, <1>3
  <1>5. QED
    BY <1>2, <1>4 DEF Bits

\* from_bytes takes back what to_bytes wrote.
LEMMA OffsetReturns ==
    ASSUME NEW at \in Offsets
    PROVE  /\ LittleEndian(at) \in [1 .. OffsetBytes -> Bytes]
           /\ Value(LittleEndian(at)) = at
  <1>1. LittleEndian(at) \in [1 .. OffsetBytes -> Bytes]
    BY DEF LittleEndian, Bytes
  <1>2. ASSUME NEW p \in 0 .. OffsetBytes * ByteBits - 1
        PROVE  p % ByteBits \in LittleEndian(at)[p \div ByteBits + 1]
                  <=> p \in at
    <2>1. LittleEndian(at)[p \div ByteBits + 1] =
             {bit \in Bits :
                 ByteBits * ((p \div ByteBits + 1) - 1) + bit \in at}
      BY PlaceIs DEF LittleEndian
    <2>2. QED
      BY <2>1, PlaceIs
  <1>3. \A p \in at : p \in 0 .. OffsetBytes * ByteBits - 1
    BY DEF Offsets
  <1>4. QED
    BY <1>1, <1>2, <1>3 DEF Value

-----------------------------------------------------------------------------
(***************************************************************************)
(* The checksum                                                            *)
(***************************************************************************)

LEMMA OddChanges ==
    ASSUME NEW n \in Nat
    PROVE  n % 2 = 1 <=> ~((n + 1) % 2 = 1)
  OBVIOUS

\* The bytes with a certain bit are one more or one fewer after a change of
\* the bit in one of them.
LEMMA CountChanges ==
    ASSUME NEW S, IsFiniteSet(S), NEW i, i \notin S
    PROVE  Cardinality(S \cup {i}) % 2 = 1 <=> ~(Cardinality(S) % 2 = 1)
  <1>1. Cardinality(S) \in Nat /\ Cardinality(S \cup {i}) = Cardinality(S) + 1
    BY FS_CardinalityType, FS_AddElement
  <1>2. QED
    BY <1>1, OddChanges

LEMMA OnesFinite ==
    ASSUME NEW body \in Seq(Bytes), NEW bit
    PROVE  IsFiniteSet({i \in DOMAIN body : bit \in body[i]})
  <1>1. DOMAIN body = 1 .. Len(body) /\ Len(body) \in Nat
    BY LenProperties
  <1>2. IsFiniteSet(1 .. Len(body))
    BY <1>1, FS_Interval
  <1>3. {i \in DOMAIN body : bit \in body[i]} \in SUBSET (1 .. Len(body))
    BY <1>1
  <1>4. QED
    BY <1>2, <1>3, FS_Subset

LEMMA ChecksumChanges ==
    ASSUME NEW body \in Seq(Bytes), NEW i \in 1 .. Len(body),
           NEW byte \in Bytes, byte # body[i]
    PROVE  Checksum([body EXCEPT ![i] = byte]) # Checksum(body)
  <1> DEFINE other == [body EXCEPT ![i] = byte]
             Ones(bytes, bit) == {j \in DOMAIN bytes : bit \in bytes[j]}
  <1>1. /\ other \in Seq(Bytes) /\ DOMAIN other = DOMAIN body
        /\ i \in DOMAIN body /\ body[i] \in Bytes
        /\ \A j \in DOMAIN body : other[j] = IF j = i THEN byte ELSE body[j]
    BY ExceptSeq, LenProperties, ElementOfSeq
  <1>2. PICK bit \in Bits : ~(bit \in byte <=> bit \in body[i])
    BY <1>1 DEF Bytes
  <1> HIDE DEF other
  <1>3. IsFiniteSet(Ones(body, bit)) /\ IsFiniteSet(Ones(other, bit))
    BY <1>1, OnesFinite
  <1>4. \/ /\ i \notin Ones(body, bit)
           /\ Ones(other, bit) = Ones(body, bit) \cup {i}
        \/ /\ i \notin Ones(other, bit)
           /\ Ones(body, bit) = Ones(other, bit) \cup {i}
    BY <1>1, <1>2
  <1> HIDE DEF Ones
  <1>5. Cardinality(Ones(body, bit)) % 2 = 1
           <=> ~(Cardinality(Ones(other, bit)) % 2 = 1)
    BY <1>3, <1>4, CountChanges
  <1>6. \A bytes : bit \in Checksum(bytes)
                      <=> Cardinality(Ones(bytes, bit)) % 2 = 1
    BY DEF Checksum, OddBits, Ones
  <1>7. QED
    BY <1>5, <1>6 DEF other

LEMMA ChecksumIsByte == \A body : Checksum(body) \in Bytes
  BY DEF Checksum, OddBits, Bytes

-----------------------------------------------------------------------------
(***************************************************************************)
(* Frames                                                                  *)
(***************************************************************************)

\* The frame of a body, with any one of its bytes replaced.
LEMMA FrameIs ==
    ASSUME NEW body \in Seq(Bytes), NEW i \in 1 .. Len(body) + 2,
           NEW byte \in Bytes
    PROVE  LET frame == body \o <<Checksum(body), Marker>>
               damaged == [frame EXCEPT ![i] = byte]
               L == Len(body)
           IN  /\ L \in Nat
               /\ DOMAIN frame = 1 .. L + 2
               /\ Len(damaged) = L + 2
               /\ \A j \in 1 .. L + 2 :
                     damaged[j] = IF j = i THEN byte ELSE frame[j]
               /\ \A j \in 1 .. L : frame[j] = body[j]
               /\ frame[L + 1] = Checksum(body) /\ frame[L + 2] = Marker
               /\ damaged \in Seq(Bytes)
               /\ SubSeq(damaged, 1, L) \in Seq(Bytes)
               /\ Len(SubSeq(damaged, 1, L)) = L
               /\ \A j \in 1 .. L : SubSeq(damaged, 1, L)[j] = damaged[j]
  <1> DEFINE tail == <<Checksum(body), Marker>>
             frame == body \o tail
             damaged == [frame EXCEPT ![i] = byte]
             L == Len(body)
  <1>1. /\ tail \in Seq(Bytes) /\ Len(tail) = 2
        /\ tail[1] = Checksum(body) /\ tail[2] = Marker
    BY Widths, ChecksumIsByte
  <1>2. L \in Nat
    BY LenProperties
  <1> HIDE DEF tail
  <1>3. /\ frame \in Seq(Bytes) /\ Len(frame) = L + 2
        /\ \A j \in 1 .. L + 2 :
              frame[j] = IF j <= L THEN body[j] ELSE tail[j - L]
    <2>1. /\ body \o tail \in Seq(Bytes) /\ Len(body \o tail) = L + Len(tail)
          /\ \A j \in 1 .. L + Len(tail) :
                (body \o tail)[j] = IF j <= L THEN body[j] ELSE tail[j - L]
      BY <1>1, ConcatProperties
    <2>2. QED
      BY <1>1, <2>1
  <1>4. /\ \A j \in 1 .. L : frame[j] = body[j]
        /\ frame[L + 1] = Checksum(body) /\ frame[L + 2] = Marker
    BY <1>1, <1>2, <1>3
  <1> HIDE DEF frame
  <1>5. /\ damaged \in Seq(Bytes) /\ Len(damaged) = L + 2
        /\ \A j \in 1 .. L + 2 : damaged[j] = IF j = i THEN byte ELSE frame[j]
    BY <1>3, ExceptSeq
  <1>6. DOMAIN frame = 1 .. L + 2
    BY <1>3, LenProperties
  <1> HIDE DEF damaged
  <1>7. /\ SubSeq(damaged, 1, L) \in Seq(Bytes)
        /\ Len(SubSeq(damaged, 1, L)) = L
        /\ \A j \in 1 .. L : SubSeq(damaged, 1, L)[j] = damaged[j]
    <2>1. \A j \in 1 .. L : damaged[j] \in Bytes
      BY <1>2, <1>5, ElementOfSeq
    <2>2. /\ SubSeq(damaged, 1, L) \in Seq(Bytes)
          /\ Len(SubSeq(damaged, 1, L)) = IF 1 <= L THEN L - 1 + 1 ELSE 0
          /\ \A j \in 1 .. L - 1 + 1 : SubSeq(damaged, 1, L)[j] = damaged[1 + j - 1]
      BY <1>2, <2>1, SubSeqProperties
    <2>3. L - 1 + 1 = L /\ \A j \in 1 .. L : 1 + j - 1 = j
      BY <1>2
    <2>4. QED
      BY <1>2, <2>2, <2>3
  <1>8. QED
    BY <1>2, <1>4, <1>5, <1>6, <1>7 DEF frame, damaged, tail

LEMMA DamageRefused ==
    ASSUME NEW body \in Seq(Bytes), NEW i \in 1 .. Len(body) + 2,
           NEW byte \in Bytes,
           byte # (body \o <<Checksum(body), Marker>>)[i]
    PROVE  Parsed([body \o <<Checksum(body), Marker>> EXCEPT ![i] = byte])
              = Refused
  <1> DEFINE frame == body \o <<Checksum(body), Marker>>
             damaged == [frame EXCEPT ![i] = byte]
             L == Len(body)
             kept == SubSeq(damaged, 1, L)
  <1> SUFFICES Parsed(damaged) = Refused
    OBVIOUS
  <1>1. /\ L \in Nat /\ Len(damaged) = L + 2
        /\ \A j \in 1 .. L + 2 : damaged[j] = IF j = i THEN byte ELSE frame[j]
        /\ \A j \in 1 .. L : frame[j] = body[j]
        /\ frame[L + 1] = Checksum(body) /\ frame[L + 2] = Marker
        /\ kept \in Seq(Bytes) /\ Len(kept) = L
        /\ \A j \in 1 .. L : kept[j] = damaged[j]
    BY FrameIs
  <1>2. byte # frame[i]
    OBVIOUS
  <1> HIDE DEF frame, damaged
  <1>3. (L + 2) - 2 = L /\ (L + 2) - 1 = L + 1
    BY <1>1
  <1>4. damaged[L + 2] # Marker \/ damaged[L + 1] # Checksum(kept)
           => Parsed(damaged) = Refused
    BY <1>1, <1>3 DEF Parsed
  <1>5. CASE i = L + 2
    BY <1>1, <1>2, <1>4, <1>5
  <1>6. CASE i = L + 1
    <2>1. kept = body
      <3>1. \A j \in 1 .. Len(kept) : kept[j] = body[j]
        BY <1>1, <1>6
      <3>2. QED
        BY <1>1, <3>1, SeqEqual
    <2>2. damaged[L + 1] # Checksum(body)
      BY <1>1, <1>2, <1>6
    <2>3. QED
      BY <1>4, <2>1, <2>2
  <1>7. CASE i \in 1 .. L
    <2>1. byte # body[i]
      BY <1>1, <1>2, <1>7
    <2>2. kept = [body EXCEPT ![i] = byte]
      <3>1. /\ [body EXCEPT ![i] = byte] \in Seq(Bytes)
            /\ Len([body EXCEPT ![i] = byte]) = L
            /\ \A j \in 1 .. L :
                  [body EXCEPT ![i] = byte][j] = IF j = i THEN byte ELSE body[j]
        BY <1>7, ExceptSeq
      <3>2. \A j \in 1 .. Len(kept) : kept[j] = [body EXCEPT ![i] = byte][j]
        BY <1>1, <3>1
      <3>3. QED
        BY <1>1, <3>1, <3>2, SeqEqual
    <2>3. Checksum(kept) # Checksum(body)
      BY <1>7, <2>1, <2>2, ChecksumChanges
    <2>4. damaged[L + 1] = Checksum(body)
      BY <1>1, <1>7
    <2>5. QED
      BY <1>4, <2>3, <2>4
  <1>8. i = L + 2 \/ i = L + 1 \/ i \in 1 .. L
    BY <1>1
  <1>9. QED
    BY <1>5, <1>6, <1>7, <1>8

LEMMA FrameReturns ==
    ASSUME NEW payload \in Payloads, NEW at \in Offsets
    PROVE  /\ payload \o LittleEndian(at) \in Seq(Bytes)
           /\ Parsed(Framed(payload, at)) = <<payload, at>>
  <1> DEFINE field == LittleEndian(at)
             body == payload \o field
             frame == body \o <<Checksum(body), Marker>>
             L == Len(body)
             n == Len(payload)
  <1>1. payload \in Seq(Bytes) /\ n \in Nat \ {0}
    <2>1. PICK k \in 1 .. MaxPayload : payload \in [1 .. k -> Bytes]
      BY DEF Payloads
    <2>2. QED
      BY <2>1, Widths
  <1>2. field \in Seq(Bytes) /\ Len(field) = OffsetBytes /\ Value(field) = at
    BY OffsetReturns, Widths
  <1> HIDE DEF field
  <1>3. /\ body \in Seq(Bytes) /\ L = n + OffsetBytes
        /\ \A i \in 1 .. L : body[i] = IF i <= n THEN payload[i] ELSE field[i - n]
    BY <1>1, <1>2, ConcatProperties
  <1> HIDE DEF body, n
  <1>4. /\ L \in Nat /\ L > OffsetBytes /\ L - OffsetBytes = n
        /\ OffsetBytes \in Nat \ {0}
        /\ 1 \in 1 .. L + 2
    BY <1>1, <1>3, Widths
  <1>5. frame[1] \in Bytes /\ [frame EXCEPT ![1] = frame[1]] = frame
    <2>1. <<Checksum(body), Marker>> \in Seq(Bytes)
      BY Widths, ChecksumIsByte
    <2>2. frame \in Seq(Bytes) /\ Len(frame) = L + 2
      BY <1>3, <2>1, ConcatProperties
    <2>3. QED
      BY <1>4, <2>2, ElementOfSeq, LenProperties
  <1>6. /\ Len(frame) = L + 2
        /\ \A j \in 1 .. L : frame[j] = body[j]
        /\ frame[L + 1] = Checksum(body) /\ frame[L + 2] = Marker
        /\ SubSeq(frame, 1, L) \in Seq(Bytes) /\ Len(SubSeq(frame, 1, L)) = L
        /\ \A j \in 1 .. L : SubSeq(frame, 1, L)[j] = frame[j]
    BY <1>3, <1>4, <1>5, FrameIs
  <1> HIDE DEF frame
  <1>7. SubSeq(frame, 1, L) = body
    BY <1>3, <1>6, SeqEqual
  <1>8. SubSeq(body, 1, n) = payload
    <2>1. \A j \in 1 .. n : body[j] \in Bytes /\ body[j] = payload[j]
      BY <1>1, <1>3, <1>4, ElementOfSeq DEF n
    <2>2. /\ SubSeq(body, 1, n) \in Seq(Bytes)
          /\ Len(SubSeq(body, 1, n)) = n
          /\ \A j \in 1 .. n : SubSeq(body, 1, n)[j] = body[1 + j - 1]
      <3>1. n \in Nat \ {0} /\ n - 1 + 1 = n /\ 1 <= n
        BY <1>1
      <3>2. QED
        BY <2>1, <3>1, SubSeqProperties
    <2>3. \A j \in 1 .. n : 1 + j - 1 = j
      BY <1>1
    <2>4. \A j \in 1 .. Len(SubSeq(body, 1, n)) :
             SubSeq(body, 1, n)[j] = payload[j]
      BY <2>1, <2>2, <2>3
    <2>5. QED
      BY <1>1, <2>2, <2>4, SeqEqual DEF n
  <1>9. SubSeq(body, n + 1, L) = field
    <2>1. n \in Nat /\ L \in Nat /\ n + 1 <= L /\ L - (n + 1) + 1 = OffsetBytes
      BY <1>1, <1>3, <1>4
    <2>2. \A j \in n + 1 .. L : body[j] \in Bytes
      BY <1>3, <2>1, ElementOfSeq
    <2>3. /\ SubSeq(body, n + 1, L) \in Seq(Bytes)
          /\ Len(SubSeq(body, n + 1, L)) = OffsetBytes
          /\ \A j \in 1 .. OffsetBytes :
                SubSeq(body, n + 1, L)[j] = body[(n + 1) + j - 1]
      BY <2>1, <2>2, SubSeqProperties
    <2>4. ASSUME NEW j \in 1 .. OffsetBytes
          PROVE  body[(n + 1) + j - 1] = field[j]
      <3>1. (n + 1) + j - 1 \in 1 .. L /\ ~((n + 1) + j - 1 <= n)
            /\ ((n + 1) + j - 1) - n = j
        BY <1>3, <1>4, <2>1
      <3>2. QED
        BY <1>3, <3>1
    <2>5. QED
      BY <1>2, <2>3, <2>4, SeqEqual
  <1>10. Parsed(frame) = <<payload, at>>
    <2>1. /\ (L + 2) - 2 = L /\ (L + 2) - 1 = L + 1
          /\ ~(L + 2 <= OffsetBytes + 2)
          /\ (L + 2) - 2 - OffsetBytes = n
          /\ (L + 2) - 1 - OffsetBytes = n + 1
      BY <1>1, <1>4
    <2>2. Parsed(frame) = <<SubSeq(body, 1, n), Value(SubSeq(body, n + 1, L))>>
      BY <1>6, <1>7, <2>1 DEF Parsed
    <2>3. QED
      BY <1>2, <1>8, <1>9, <2>2
  <1>11. QED
    BY <1>3, <1>10 DEF Framed, frame, body, field

\* Whatever the widths of a byte, an offset and a payload are, and whichever
\* byte is the marker: what is framed is what is parsed, and a frame with one
\* byte damaged is refused.
THEOREM DamageDetected == DamageIsDetected
  <1> SUFFICES ASSUME NEW payload \in Payloads, NEW at \in Offsets,
                      NEW i \in DOMAIN Framed(payload, at),
                      NEW byte \in Bytes
               PROVE  Parsed([Framed(payload, at) EXCEPT ![i] = byte]) =
                         IF byte = Framed(payload, at)[i]
                         THEN <<payload, at>> ELSE Refused
    BY DEF DamageIsDetected
  <1> DEFINE body == payload \o LittleEndian(at)
             frame == body \o <<Checksum(body), Marker>>
  <1>1. frame = Framed(payload, at)
    BY DEF Framed
  <1>2. body \in Seq(Bytes) /\ Parsed(frame) = <<payload, at>>
    BY <1>1, FrameReturns
  <1> HIDE DEF body
  <1>3. DOMAIN frame = 1 .. Len(body) + 2
    <2>1. Len(body) \in Nat /\ 1 \in 1 .. Len(body) + 2
      BY <1>2, LenProperties
    <2>2. QED
      BY <1>2, <2>1, Widths, FrameIs
  <1>4. i \in 1 .. Len(body) + 2
    BY <1>1, <1>3
  <1>5. CASE byte # frame[i]
    BY <1>1, <1>2, <1>4, <1>5, DamageRefused
  <1>6. CASE byte = frame[i]
    <2>1. [frame EXCEPT ![i] = byte] = frame
      <3>1. frame \in Seq(Bytes)
        <4>1. <<Checksum(body), Marker>> \in Seq(Bytes)
          BY Widths, ChecksumIsByte
        <4>2. QED
          BY <1>2, <4>1, ConcatProperties
      <3>2. QED
        BY <1>6, <3>1, LenProperties
    <2>2. QED
      BY <1>1, <1>2, <1>6, <2>1
  <1>7. QED
    BY <1>5, <1>6, <1>1

\* So no damage on the way that LegacyWire flags is stored by the printer.
THEOREM FramesExact == Spec => []FramesAreExact
  <1>1. FramesAreExact
    BY DamageDetected DEF FramesAreExact
  <1>2. QED
    BY <1>1, PTL

-----------------------------------------------------------------------------
(***************************************************************************)
(* Names                                                                   *)
(***************************************************************************)

\* A finite set of numbers has a first, a second, ..., a last element.
LEMMA Ranks ==
    ASSUME NEW n \in Nat, NEW K \in SUBSET (1 .. n)
    PROVE  /\ IsFiniteSet(K) /\ Cardinality(K) \in Nat
           /\ \A k \in 1 .. Cardinality(K) :
                 \E i \in K : Cardinality({j \in K : j <= i}) = k
  <1> DEFINE Below(i) == {j \in K : j <= i}
             c == Cardinality(K)
             f == [i \in K |-> Cardinality(Below(i))]
  <1>1. IsFiniteSet(K) /\ c \in Nat
    <2>1. IsFiniteSet(1 .. n)
      BY FS_Interval
    <2>2. IsFiniteSet(K)
      BY <2>1, FS_Subset
    <2>3. QED
      BY <2>2, FS_CardinalityType
  <1>2. ASSUME NEW i \in K
        PROVE  /\ IsFiniteSet(Below(i)) /\ i \in Below(i)
               /\ Cardinality(Below(i)) \in 1 .. c
    <2>1. Below(i) \in SUBSET K /\ i \in Below(i)
      OBVIOUS
    <2>2. IsFiniteSet(Below(i)) /\ Cardinality(Below(i)) <= c
      BY <1>1, <2>1, FS_Subset
    <2>3. Cardinality(Below(i)) \in Nat /\ Cardinality(Below(i)) # 0
      BY <2>1, <2>2, FS_CardinalityType, FS_EmptySet
    <2>4. QED
      BY <1>1, <2>1, <2>2, <2>3
  <1>3. ASSUME NEW i \in K, NEW h \in K, i < h
        PROVE  Cardinality(Below(i)) # Cardinality(Below(h))
    <2>1. \A j \in K : j \in Nat /\ (j <= i => j <= h)
      BY <1>3
    <2>2. h \in Below(h) /\ h \notin Below(i)
      BY <1>3, <2>1
    <2>3. Below(i) \in SUBSET Below(h)
      BY <2>1
    <2>4. QED
      BY <1>2, <2>2, <2>3, FS_Subset
  <1>4. \A i, h \in K : i # h => i < h \/ h < i
    OBVIOUS
  <1> HIDE DEF Below
  <1>5. f \in Injection(K, 1 .. c)
    <2>1. f \in [K -> 1 .. c]
      BY <1>2
    <2>2. \A i, h \in K : f[i] = f[h] => i = h
      BY <1>3, <1>4
    <2>3. QED
      BY <2>1, <2>2 DEF Injection, IsInjective
  <1>6. IsFiniteSet(1 .. c) /\ Cardinality(1 .. c) = c
    BY <1>1, FS_Interval
  <1>7. f \in Surjection(K, 1 .. c)
    BY <1>5, <1>6, FS_Injection
  <1>8. \A k \in 1 .. c : \E i \in K : f[i] = k
    BY <1>7 DEF Surjection
  <1>9. QED
    BY <1>1, <1>8 DEF Below

LEMMA EndsExist ==
    ASSUME NEW n \in Nat, NEW K \in SUBSET (1 .. n), K # {}
    PROVE  /\ \E i \in K : \A j \in K : i <= j
           /\ \E i \in K : \A j \in K : j <= i
  <1>1. IsFiniteSet(K) /\ Cardinality(K) \in Nat \ {0}
    BY Ranks, FS_EmptySet
  <1> DEFINE c == Cardinality(K)
  <1>r. \A k \in 1 .. c : \E i \in K : Cardinality({j \in K : j <= i}) = k
    BY Ranks
  <1>c. 1 \in 1 .. c /\ c \in 1 .. c
    BY <1>1
  <1> HIDE DEF c
  <1>2. PICK i \in K : Cardinality({j \in K : j <= i}) = 1
    BY <1>r, <1>c
  <1>3. PICK h \in K : Cardinality({j \in K : j <= h}) = c
    BY <1>r, <1>c
  <1>4. ASSUME NEW j \in K PROVE i <= j
    <2>1. {m \in K : m <= i} \in SUBSET K
      OBVIOUS
    <2>2. IsFiniteSet({m \in K : m <= i})
      BY <1>1, <2>1, FS_Subset
    <2>3. PICK x : {m \in K : m <= i} = {x}
      BY <1>2, <2>2, FS_Singleton
    <2>4. i \in {x} /\ (j <= i => j \in {x})
      BY <2>3
    <2>5. QED
      BY <2>4
  <1>5. {m \in K : m <= h} = K
    <2>1. {m \in K : m <= h} \in SUBSET K
      OBVIOUS
    <2>2. QED
      BY <1>1, <1>3, <2>1, FS_Subset DEF c
  <1>6. QED
    BY <1>4, <1>5

LEMMA SymbolsAre ==
    /\ {"x", "gcode", ".", "_", "space", "control", "forbidden"} = Symbols
    /\ Extension \in Seq(Symbols) /\ Len(Extension) = 2
    /\ Extension[1] = "." /\ Extension[2] = "gcode"
    /\ Default \in Seq(Symbols) /\ Default # <<>> /\ Len(Default) = 1
    /\ Default[1] = "x"
  BY DEF Symbols, Extension, Default

\* Of what is stripped, only the ends are known, and that nothing is new.
LEMMA StrippedIs ==
    ASSUME NEW name \in Seq(Symbols), NEW symbols
    PROVE  LET out == Stripped(name, symbols)
           IN  /\ out \in Seq(Symbols)
               /\ \A k \in DOMAIN out : \E i \in DOMAIN name : out[k] = name[i]
               /\ out # <<>> => /\ Len(out) \in Nat \ {0}
                                /\ out[1] \notin symbols
                                /\ out[Len(out)] \notin symbols
  <1> DEFINE kept == {i \in DOMAIN name : name[i] \notin symbols}
             first == CHOOSE i \in kept : \A j \in kept : i <= j
             last == CHOOSE i \in kept : \A j \in kept : j <= i
             out == Stripped(name, symbols)
  <1>1. Len(name) \in Nat /\ DOMAIN name = 1 .. Len(name)
    BY LenProperties
  <1>2. CASE kept = {}
    <2>1. out = <<>>
      BY <1>2 DEF Stripped
    <2>2. QED
      BY <2>1
  <1>3. CASE kept # {}
    <2>1. out = SubSeq(name, first, last)
      BY <1>3 DEF Stripped
    <2>2. kept \in SUBSET (1 .. Len(name))
      BY <1>1
    <2>3. first \in kept /\ last \in kept /\ first <= last
      <3>1. /\ \E i \in kept : \A j \in kept : i <= j
            /\ \E i \in kept : \A j \in kept : j <= i
        BY <1>1, <1>3, <2>2, EndsExist
      <3>2. QED
        BY <3>1
    <2>4. /\ first \in 1 .. Len(name) /\ last \in 1 .. Len(name)
          /\ name[first] \notin symbols /\ name[last] \notin symbols
      BY <2>2, <2>3
    <2> HIDE DEF first, last, out
    <2>5. \A i \in first .. last : i \in DOMAIN name /\ name[i] \in Symbols
      BY <1>1, <2>4, ElementOfSeq
    <2>6. /\ out \in Seq(Symbols) /\ Len(out) = last - first + 1
          /\ \A i \in 1 .. last - first + 1 : out[i] = name[first + i - 1]
      BY <2>1, <2>3, <2>4, <2>5, SubSeqProperties
    <2>7. last - first + 1 \in Nat \ {0}
      BY <2>3, <2>4
    <2>8. DOMAIN out = 1 .. last - first + 1
      BY <2>6, LenProperties
    <2>9. \A i \in 1 .. last - first + 1 : first + i - 1 \in first .. last
      BY <2>4
    <2>10. out[1] = name[first] /\ out[Len(out)] = name[last]
      <3>1. /\ 1 \in 1 .. last - first + 1 /\ first + 1 - 1 = first
            /\ last - first + 1 \in 1 .. last - first + 1
            /\ first + (last - first + 1) - 1 = last
        BY <2>4, <2>7
      <3>2. QED
        BY <2>6, <3>1
    <2>11. \A k \in DOMAIN out : \E i \in DOMAIN name : out[k] = name[i]
      BY <2>5, <2>6, <2>8, <2>9
    <2>12. QED
      BY <2>4, <2>6, <2>7, <2>10, <2>11 DEF out
  <1>4. QED
    BY <1>2, <1>3

LEMMA StripsNothing ==
    ASSUME NEW name \in Seq(Symbols), NEW symbols, name # <<>>,
           name[1] \notin symbols, name[Len(name)] \notin symbols
    PROVE  Stripped(name, symbols) = name
  <1> DEFINE kept == {i \in DOMAIN name : name[i] \notin symbols}
             n == Len(name)
  <1>1. n \in Nat \ {0} /\ DOMAIN name = 1 .. n
    BY LenProperties, EmptySeq
  <1>2. 1 \in kept /\ n \in kept /\ kept \in SUBSET (1 .. n)
    BY <1>1
  <1> HIDE DEF kept
  <1>3. (CHOOSE i \in kept : \A j \in kept : i <= j) = 1
    <2>1. \A j \in kept : 1 <= j
      BY <1>1, <1>2
    <2>2. \A i \in kept : (\A j \in kept : i <= j) => i = 1
      BY <1>1, <1>2
    <2>3. QED
      BY <1>2, <2>1, <2>2
  <1>4. (CHOOSE i \in kept : \A j \in kept : j <= i) = n
    <2>1. \A j \in kept : j <= n
      BY <1>1, <1>2
    <2>2. ASSUME NEW i \in kept, \A j \in kept : j <= i
          PROVE  i = n
      <3>1. i \in 1 .. n /\ n <= i
        BY <1>2, <2>2
      <3> HIDE DEF n
      <3>2. QED
        BY <1>1, <3>1
    <2>3. QED
      BY <1>2, <2>1, <2>2
  <1>5. Stripped(name, symbols) = SubSeq(name, 1, n)
    BY <1>2, <1>3, <1>4 DEF Stripped, kept
  <1>6. SubSeq(name, 1, n) = name
    <2>1. \A i \in 1 .. n : name[i] \in Symbols
      BY ElementOfSeq
    <2>2. n - 1 + 1 = n /\ 1 <= n /\ \A i \in 1 .. n : 1 + i - 1 = i
      BY <1>1
    <2>3. /\ SubSeq(name, 1, n) \in Seq(Symbols)
          /\ Len(SubSeq(name, 1, n)) = n
          /\ \A i \in 1 .. n : SubSeq(name, 1, n)[i] = name[1 + i - 1]
      BY <1>1, <2>1, <2>2, SubSeqProperties
    <2>4. QED
      BY <2>2, <2>3, SeqEqual
  <1>7. QED
    BY <1>5, <1>6

\* What is replaced is gone, and what was absent stays absent.
LEMMA ReplacedIs ==
    ASSUME NEW name \in Seq(Symbols), NEW symbols, NEW gone, gone # "_",
           gone \in symbols \/ \A i \in DOMAIN name : name[i] # gone
    PROVE  /\ Replaced(name, symbols) \in Seq(Symbols)
           /\ \A k \in DOMAIN Replaced(name, symbols) :
                 Replaced(name, symbols)[k] # gone
  <1> DEFINE kept == {i \in DOMAIN name :
                         name[i] \in symbols =>
                             i = 1 \/ name[i - 1] \notin symbols}
             Nth(k) == CHOOSE i \in kept :
                          Cardinality({j \in kept : j <= i}) = k
             New(i) == IF name[i] \in symbols THEN "_" ELSE name[i]
             out == Replaced(name, symbols)
             c == Cardinality(kept)
  <1>1. Len(name) \in Nat /\ DOMAIN name = 1 .. Len(name)
    BY LenProperties
  <1>2. kept \in SUBSET (1 .. Len(name))
    BY <1>1
  <1>3. out = [k \in 1 .. c |-> New(Nth(k))]
    BY DEF Replaced
  <1> HIDE DEF kept, out
  <1>4. c \in Nat /\ \A k \in 1 .. c : Nth(k) \in kept
    <2>1. /\ c \in Nat
          /\ \A k \in 1 .. c :
                \E i \in kept : Cardinality({j \in kept : j <= i}) = k
      BY <1>1, <1>2, Ranks
    <2>2. QED
      BY <2>1
  <1> HIDE DEF Nth, c
  <1>5. \A i \in kept : i \in DOMAIN name /\ name[i] \in Symbols /\ New(i) \in Symbols
    BY <1>1, <1>2, ElementOfSeq, SymbolsAre
  <1>6. out \in Seq(Symbols) /\ DOMAIN out = 1 .. c
    <2>1. out \in [1 .. c -> Symbols]
      BY <1>3, <1>4, <1>5
    <2>2. DOMAIN out = 1 .. c
      BY <2>1
    <2>3. out \in Seq(Symbols)
      <3>1. \E m \in Nat : out \in [1 .. m -> Symbols]
        BY <1>4, <2>1, Zenon
      <3>2. out \in UNION {[1 .. m -> Symbols] : m \in Nat}
        BY <3>1, Zenon
      <3>3. QED
        BY <3>2, SeqDef, Zenon
    <2>4. QED
      BY <2>2, <2>3
  <1>7. \A i \in kept : New(i) # gone
    BY <1>5
  <1>8. \A k \in DOMAIN out : out[k] # gone
    BY <1>3, <1>4, <1>6, <1>7
  <1>9. QED
    BY <1>6, <1>8 DEF out

LEMMA SizeType ==
    ASSUME NEW name \in Seq(Symbols)
    PROVE  Size(name) \in Nat
  <1>1. Len(name) \in Nat /\ DOMAIN name = 1 .. Len(name)
    BY LenProperties
  <1>2. {i \in DOMAIN name : name[i] = "gcode"} \in SUBSET (1 .. Len(name))
    BY <1>1
  <1>3. Cardinality({i \in DOMAIN name : name[i] = "gcode"}) \in Nat
    BY <1>1, <1>2, Ranks
  <1>4. QED
    BY <1>1, <1>3 DEF Size

\* A name the client leaves as it is.
LEMMA AcceptedAsIs ==
    ASSUME NEW name \in Seq(Symbols), HasExtension(name), name[1] # "space",
           Size(name) <= MaxName,
           \A i \in DOMAIN name : name[i] \notin {"forbidden", "control"}
    PROVE  Validated(name) = name
  <1>1. Len(name) \in Nat /\ Len(name) > 1 /\ name[Len(name)] = "gcode"
    BY LenProperties DEF HasExtension
  <1>2. name # <<>> /\ name # <<".">> /\ name # <<".", ".">>
    <2>1. Len(<<>>) = 0 /\ Len(<<".">>) = 1 /\ Len(<<".", ".">>) = 2
          /\ <<".", ".">>[2] = "."
      OBVIOUS
    <2>2. QED
      BY <1>1, <2>1
  <1>3. Stripped(name, {"space"}) = name
    BY <1>1, <1>2, StripsNothing
  <1>4. ~(Size(name) > MaxName)
    BY SizeType, NamesAssumption DEF NamesAssumption
  <1>5. QED
    BY <1>2, <1>3, <1>4 DEF Validated, WithExtension

LEMMA ExtensionJoins ==
    ASSUME NEW bare \in Seq(Symbols), bare # <<>>
    PROVE  LET name == bare \o Extension
           IN  /\ name \in Seq(Symbols) /\ HasExtension(name)
               /\ name[1] = bare[1]
               /\ \A i \in DOMAIN name :
                     \/ name[i] \in {".", "gcode"}
                     \/ \E j \in DOMAIN bare : name[i] = bare[j]
  <1> DEFINE name == bare \o Extension
             n == Len(bare)
  <1>1. n \in Nat \ {0} /\ DOMAIN bare = 1 .. n
    BY LenProperties, EmptySeq
  <1>2. /\ name \in Seq(Symbols) /\ Len(name) = n + 2
        /\ \A i \in 1 .. n + 2 :
              name[i] = IF i <= n THEN bare[i] ELSE Extension[i - n]
    <2>1. /\ name \in Seq(Symbols) /\ Len(name) = n + Len(Extension)
          /\ \A i \in 1 .. n + Len(Extension) :
                name[i] = IF i <= n THEN bare[i] ELSE Extension[i - n]
      BY SymbolsAre, ConcatProperties
    <2>2. QED
      BY <2>1, SymbolsAre
  <1>3. DOMAIN name = 1 .. n + 2
    BY <1>2, LenProperties
  <1> HIDE DEF name
  <1>4. name[n + 1] = "." /\ name[n + 2] = "gcode" /\ name[1] = bare[1]
    <2>1. /\ n + 1 \in 1 .. n + 2 /\ ~(n + 1 <= n) /\ (n + 1) - n = 1
          /\ n + 2 \in 1 .. n + 2 /\ ~(n + 2 <= n) /\ (n + 2) - n = 2
          /\ 1 \in 1 .. n + 2 /\ 1 <= n
      BY <1>1
    <2>2. QED
      BY <1>2, <2>1, SymbolsAre
  <1>5. HasExtension(name)
    <2>1. n + 2 > 1 /\ (n + 2) - 1 = n + 1
      BY <1>1
    <2>2. QED
      BY <1>2, <1>4, <2>1 DEF HasExtension
  <1>6. ASSUME NEW i \in DOMAIN name
        PROVE  \/ name[i] \in {".", "gcode"}
               \/ \E j \in DOMAIN bare : name[i] = bare[j]
    <2>1. i \in 1 .. n \/ i = n + 1 \/ i = n + 2
      BY <1>1, <1>3
    <2>2. CASE i \in 1 .. n
      BY <1>1, <1>2, <1>3, <2>2
    <2>3. QED
      BY <1>4, <2>1, <2>2
  <1>7. QED
    BY <1>2, <1>4, <1>5, <1>6 DEF name

\* The client accepts what it has made of a name.
LEMMA CheckedTwice ==
    ASSUME NEW given \in Seq(Symbols), Validated(given) # Invalid,
           Size(Validated(given)) <= MaxName
    PROVE  Validated(Validated(given)) = Validated(given)
  <1> DEFINE bare == Stripped(given, {"space"})
             name == WithExtension(bare)
  <1>1. /\ bare # <<>> /\ Validated(given) = name
        /\ \A i \in DOMAIN bare : bare[i] \notin {"forbidden", "control"}
    BY DEF Validated
  <1>2. bare \in Seq(Symbols) /\ bare[1] # "space"
    BY <1>1, StrippedIs
  <1> HIDE DEF bare
  <1>3. /\ name \in Seq(Symbols) /\ HasExtension(name) /\ name[1] # "space"
        /\ \A i \in DOMAIN name : name[i] \notin {"forbidden", "control"}
    <2>1. CASE HasExtension(bare)
      BY <1>1, <1>2, <2>1 DEF WithExtension
    <2>2. CASE ~HasExtension(bare)
      <3>1. name = bare \o Extension
        BY <2>2 DEF WithExtension
      <3> DEFINE joined == bare \o Extension
      <3>2. /\ joined \in Seq(Symbols) /\ HasExtension(joined)
            /\ joined[1] = bare[1]
            /\ \A i \in DOMAIN joined :
                  \/ joined[i] \in {".", "gcode"}
                  \/ \E j \in DOMAIN bare : joined[i] = bare[j]
        BY <1>1, <1>2, ExtensionJoins
      <3> HIDE DEF joined
      <3>3. \A i \in DOMAIN joined : joined[i] \notin {"forbidden", "control"}
        BY <1>1, <3>2
      <3>4. joined[1] # "space"
        BY <1>2, <3>2
      <3>5. QED
        BY <3>1, <3>2, <3>3, <3>4 DEF joined
    <2>3. QED
      BY <2>1, <2>2
  <1>4. QED
    BY <1>1, <1>3, AcceptedAsIs

\* And what the plugin has made of one.
LEMMA PluginChecked ==
    ASSUME NEW given \in Seq(Symbols), Size(PluginName(given)) <= MaxName,
           \A i \in DOMAIN PluginName(given) : PluginName(given)[i] # "control"
    PROVE  Validated(PluginName(given)) = PluginName(given)
  <1> DEFINE stem == IF HasExtension(given)
                     THEN SubSeq(given, 1, Len(given) - 2) ELSE given
             once == Replaced(stem, {"forbidden"})
             twice == Replaced(once, {"space"})
             clean == Cleaned(stem)
             bare == IF clean = <<>> THEN Default ELSE clean
             name == PluginName(given)
  <1>1. stem \in Seq(Symbols)
    <2>1. CASE HasExtension(given)
      <3>1. Len(given) \in Nat /\ Len(given) > 1
        BY <2>1, LenProperties DEF HasExtension
      <3>2. /\ 1 \in Int /\ Len(given) - 2 \in Int
            /\ \A i \in 1 .. Len(given) - 2 : given[i] \in Symbols
        BY <3>1, ElementOfSeq
      <3>3. SubSeq(given, 1, Len(given) - 2) \in Seq(Symbols)
        BY <3>2, SubSeqProperties
      <3>4. QED
        BY <2>1, <3>3
    <2>2. QED
      BY <2>1
  <1>2. name = bare \o Extension
    BY DEF PluginName
  <1>3. clean = Stripped(twice, {".", "_"})
    BY DEF Cleaned
  <1> HIDE DEF stem, clean, name
  <1>4. once \in Seq(Symbols) /\ \A k \in DOMAIN once : once[k] # "forbidden"
    BY <1>1, ReplacedIs
  <1> HIDE DEF once
  <1>5. /\ twice \in Seq(Symbols)
        /\ \A k \in DOMAIN twice : twice[k] # "space"
        /\ \A k \in DOMAIN twice : twice[k] # "forbidden"
    BY <1>4, ReplacedIs
  <1> HIDE DEF twice
  <1>6. /\ clean \in Seq(Symbols)
        /\ \A k \in DOMAIN clean : clean[k] \notin {"forbidden", "space"}
    <2>1. PICK symbols : symbols = {".", "_"}
      OBVIOUS
    <2>2. clean = Stripped(twice, symbols)
      BY <1>3, <2>1
    <2>3. /\ clean \in Seq(Symbols)
          /\ \A k \in DOMAIN clean : \E i \in DOMAIN twice : clean[k] = twice[i]
      BY <1>5, <2>2, StrippedIs
    <2>4. QED
      BY <1>5, <2>3
  <1>7. /\ bare \in Seq(Symbols) /\ bare # <<>>
        /\ \A k \in DOMAIN bare : bare[k] \notin {"forbidden", "space"}
    <2>1. CASE clean = <<>>
      <3>1. /\ Default \in Seq(Symbols) /\ Default # <<>>
            /\ DOMAIN Default = 1 .. 1 /\ Default[1] = "x"
        BY SymbolsAre, LenProperties
      <3>2. QED
        BY <2>1, <3>1
    <2>2. CASE clean # <<>>
      BY <1>6, <2>2
    <2>3. QED
      BY <2>1, <2>2
  <1> HIDE DEF bare
  <1>8. bare[1] # "space"
    <2>1. 1 \in DOMAIN bare
      BY <1>7, LenProperties, EmptySeq
    <2>2. QED
      BY <1>7, <2>1
  <1>9. /\ name \in Seq(Symbols) /\ HasExtension(name) /\ name[1] # "space"
        /\ \A i \in DOMAIN name : name[i] # "forbidden"
    BY <1>2, <1>7, <1>8, ExtensionJoins
  <1>10. /\ Size(name) <= MaxName
         /\ \A i \in DOMAIN name : name[i] \notin {"forbidden", "control"}
    BY <1>9 DEF name
  <1>11. Validated(name) = name
    BY <1>9, <1>10, AcceptedAsIs
  <1>12. QED
    BY <1>11 DEF name

\* Names of any length, with any limit: one that the plugin made or the client
\* has checked goes into M28, M29 and the search of the listing unchanged,
\* unless it has a control character or the extension made it too long.
THEOREM NamesStay == CheckedNamesStay
  <1>1. ASSUME NEW given \in Names
        PROVE  given \in Seq(Symbols)
    <2>1. PICK n \in 0 .. MaxSymbols : given \in [1 .. n -> Symbols]
      BY DEF Names
    <2>2. n \in Nat
      BY NamesAssumption DEF NamesAssumption
    <2>3. QED
      BY <2>1, <2>2
  <1>2. QED
    BY <1>1, CheckedTwice, PluginChecked DEF CheckedNamesStay

\* So one file is named in M28, in M29 and in the search of the listing.
THEOREM NamesExact == Spec => []NamesAgree
  <1>1. NamesAgree
    BY NamesStay DEF NamesAgree
  <1>2. QED
    BY <1>1, PTL
=============================================================================
