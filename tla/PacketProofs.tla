---------------------------- MODULE PacketProofs ----------------------------
(***************************************************************************)
(* What is written into a packet is read out of it again: the envelope,    *)
(* for every value of its limits, and what the payloads are put together   *)
(* from, whatever their length is and however they are padded.             *)
(***************************************************************************)
EXTENDS Payloads, DataFacts

(* Arithmetic of the two packed bytes and of the little-endian codes.      *)
LEMMA EvenDivision ==
  ASSUME NEW x \in Nat, NEW s \in 1 .. 3, x % s = 0
  PROVE  (x \div s) * s = x
<1>1. s = 1 \/ s = 2 \/ s = 3
  OBVIOUS
<1>2. CASE s = 2
  BY <1>2
<1>3. CASE s = 3
  BY <1>3
<1>4. QED
  BY <1>1, <1>2, <1>3

LEMMA ExactMultiple ==
  ASSUME NEW x \in Nat, NEW s \in 1 .. 3
  PROVE  /\ x * s \in Nat
         /\ (x * s) % s = 0
         /\ (x * s) \div s = x
<1>1. s = 1 \/ s = 2 \/ s = 3
  OBVIOUS
<1>2. CASE s = 2
  BY <1>2
<1>3. CASE s = 3
  BY <1>3
<1>4. QED
  BY <1>1, <1>2, <1>3

LEMMA QuotientBound ==
  ASSUME NEW x \in Nat, NEW s \in 1 .. 3
  PROVE  x \div s \in Nat
OBVIOUS

LEMMA TwoFieldByte ==
  ASSUME NEW high \in 0 .. 3, NEW low \in 0 .. 63
  PROVE  /\ high * 64 + low \in Byte
         /\ (high * 64 + low) \div 64 = high
         /\ (high * 64 + low) % 64 = low
BY DEF Byte

LEMMA HeaderFields ==
  ASSUME NEW type \in 0 .. 15, NEW route \in 0 .. 3
  PROVE  /\ type * 4 + route \in 0 .. 63
         /\ (type * 4 + route) % 4 = route
         /\ ((type * 4 + route) \div 4) % 16 = type
OBVIOUS

LEMMA ByteSplit ==
  ASSUME NEW b \in Byte
  PROVE  /\ b \div 64 \in 0 .. 3
         /\ b % 64 \in 0 .. 63
BY DEF Byte

LEMMA ByteJoin ==
  ASSUME NEW b \in Byte
  PROVE  (b \div 64) * 64 + (b % 64) = b
BY DEF Byte

LEMMA HeaderSplit ==
  ASSUME NEW b \in Byte, b \div 64 = 0
  PROVE  /\ b % 4 \in 0 .. 3
         /\ (b \div 4) % 16 \in 0 .. 15
         /\ ((b \div 4) % 16) * 4 + (b % 4) = b
BY DEF Byte

LEMMA JoinedBytes ==
  ASSUME NEW a \in Byte, NEW b \in Byte
  PROVE  /\ a + 256 * b \in Uint16
         /\ (a + 256 * b) % 256 = a
         /\ (a + 256 * b) \div 256 = b
<1>1. a \in 0 .. 255 /\ b \in 0 .. 255
  BY DEF Byte
<1>2. a + 256 * b \in Uint16
  BY <1>1 DEF Uint16
<1>3. (a + 256 * b) % 256 = a
  BY <1>1
<1>4. (a + 256 * b) \div 256 = b
  BY <1>1
<1>5. QED
  BY <1>2, <1>3, <1>4

LEMMA CodeFields ==
  ASSUME NEW u \in Uint16
  PROVE  /\ u % 256 \in Byte
         /\ u \div 256 \in Byte
         /\ (u % 256) + 256 * (u \div 256) = u
BY DEF Uint16, Byte

-----------------------------------------------------------------------------
(* What ValidateWire accepts. *)
LEMMA WireFacts ==
  ASSUME NEW p \in Packet, ValidateWire(p) = Nil
  PROVE  /\ p.Version = 0
         /\ p.Route \in 0 .. 3
         /\ p.Type \in 0 .. 15
         /\ p.PathHashSize \in 1 .. 3
         /\ Len(p.Path) % p.PathHashSize = 0
         /\ Len(p.Path) <= MaxPathBytes
         /\ Len(p.Payload) <= MaxPayloadBytes
         /\ HopCount(p) \in 0 .. MaxHopCount
<1>1. p.Route \in Byte /\ p.Type \in Byte
  BY DEF Packet
<1>2. p.Version = 0
  BY DEF ValidateWire, Nil, CurrentPayloadVer
<1>3. ~(p.Route > RouteTransportDirect) /\ ~(p.Type > 15)
  BY DEF ValidateWire, Nil
<1>4. p.Route \in 0 .. 3
  BY <1>1, <1>3 DEF RouteTransportDirect, Byte
<1>5. p.Type \in 0 .. 15
  BY <1>1, <1>3 DEF Byte
<1>6. p.PathHashSize \in 1 .. 3
  BY DEF ValidateWire, Nil
<1>7. Len(p.Path) % p.PathHashSize = 0
  BY DEF ValidateWire, Nil
<1>8. /\ ~(Len(p.Path) > MaxPathBytes)
      /\ ~(Len(p.Payload) > MaxPayloadBytes)
      /\ ~(HopCount(p) > MaxHopCount)
  BY DEF ValidateWire, Nil
<1>9. Len(p.Path) \in Nat /\ Len(p.Payload) \in Nat
  BY DEF Packet
<1>10. Len(p.Path) <= MaxPathBytes /\ Len(p.Payload) <= MaxPayloadBytes
  BY <1>8, <1>9, EnvelopeLimits
<1>11. HopCount(p) \in Nat
  BY <1>6, <1>9, QuotientBound DEF HopCount
<1>12. HopCount(p) \in 0 .. MaxHopCount
  <2>1. ~(HopCount(p) > MaxHopCount)
    BY <1>8
  <2>2. QED
    BY <1>11, <2>1 DEF MaxHopCount
<1>13. QED
  BY <1>2, <1>4, <1>5, <1>6, <1>7, <1>10, <1>12

(* A path that divides evenly is as long as its hops: the hop count in the *)
(* path_len byte tells the length of the path.                             *)
LEMMA HopsTimesSize ==
  ASSUME NEW p \in Packet, ValidateWire(p) = Nil
  PROVE  /\ HopCount(p) \in 0 .. 63
         /\ HopCount(p) * p.PathHashSize = Len(p.Path)
<1>1. HopCount(p) \in 0 .. MaxHopCount
  BY WireFacts
<1>2. HopCount(p) \in 0 .. 63
  BY <1>1 DEF MaxHopCount
<1>3. /\ p.PathHashSize \in 1 .. 3
      /\ Len(p.Path) \in Nat
      /\ Len(p.Path) % p.PathHashSize = 0
  BY WireFacts DEF Packet
<1>4. HopCount(p) = Len(p.Path) \div p.PathHashSize
  BY <1>3 DEF HopCount
<1>5. QED
  BY <1>2, <1>3, <1>4, EvenDivision

(* The two packed bytes come apart again. *)
LEMMA PackedBytes ==
  ASSUME NEW p \in Packet, ValidateWire(p) = Nil
  PROVE  /\ HeaderByte(p) \in Byte
         /\ HeaderByte(p) % 4 = p.Route
         /\ (HeaderByte(p) \div 4) % 16 = p.Type
         /\ HeaderByte(p) \div 64 = p.Version
         /\ PathLenByte(p) \in Byte
         /\ PathLenByte(p) \div 64 + 1 = p.PathHashSize
         /\ PathLenByte(p) % 64 = HopCount(p)
<1>1. p.Version = 0 /\ p.Route \in 0 .. 3 /\ p.Type \in 0 .. 15
  BY WireFacts
<1>2. HeaderByte(p) = 0 * 64 + (p.Type * 4 + p.Route)
  BY <1>1 DEF HeaderByte
<1>3. p.Type * 4 + p.Route \in 0 .. 63
  BY <1>1, HeaderFields
<1>4. HeaderByte(p) = p.Type * 4 + p.Route
  BY <1>2, <1>3
<1>5. p.PathHashSize - 1 \in 0 .. 3
  <2>1. p.PathHashSize \in 1 .. 3
    BY WireFacts
  <2>2. QED
    BY <2>1
<1>6. HopCount(p) \in 0 .. 63
  BY HopsTimesSize
<1>7. /\ PathLenByte(p) \in Byte
      /\ PathLenByte(p) \div 64 = p.PathHashSize - 1
      /\ PathLenByte(p) % 64 = HopCount(p)
  BY <1>5, <1>6, TwoFieldByte DEF PathLenByte
<1>8. PathLenByte(p) \div 64 + 1 = p.PathHashSize
  BY <1>5, <1>7
<1>9. HeaderByte(p) \in Byte /\ HeaderByte(p) \div 64 = 0
  BY <1>2, <1>3, TwoFieldByte
<1>10. HeaderByte(p) % 4 = p.Route /\ (HeaderByte(p) \div 4) % 16 = p.Type
  BY <1>1, <1>4, HeaderFields
<1>11. QED
  BY <1>1, <1>7, <1>8, <1>9, <1>10

-----------------------------------------------------------------------------
(* The transport codes take four bytes or none. *)
LEMMA CodeBytesFacts ==
  ASSUME NEW p \in Packet
  PROVE  /\ CodeBytes(p) \in Seq(Byte)
         /\ Len(CodeBytes(p)) = IF IsTransport(p.Route) THEN 4 ELSE 0
         /\ IsTransport(p.Route) =>
              /\ Uint16At(CodeBytes(p), 1) = p.TransportCodes[1]
              /\ Uint16At(CodeBytes(p), 3) = p.TransportCodes[2]
<1>1. p.TransportCodes[1] \in Uint16 /\ p.TransportCodes[2] \in Uint16
  BY DEF Packet
<1> DEFINE u == p.TransportCodes[1]
           v == p.TransportCodes[2]
<1>2. /\ u % 256 \in Byte /\ u \div 256 \in Byte /\ (u % 256) + 256 * (u \div 256) = u
      /\ v % 256 \in Byte /\ v \div 256 \in Byte /\ (v % 256) + 256 * (v \div 256) = v
  BY <1>1, CodeFields
<1>3. CASE IsTransport(p.Route)
  <2>1. CodeBytes(p) = <<u % 256, u \div 256, v % 256, v \div 256>>
    BY <1>3 DEF CodeBytes, LittleEndian
  <2>2. QED
    BY <1>2, <1>3, <2>1 DEF Uint16At
<1>4. CASE ~IsTransport(p.Route)
  BY <1>4 DEF CodeBytes
<1>5. QED
  BY <1>3, <1>4

-----------------------------------------------------------------------------
(* Reading a frame back, field by field. *)
LEMMA FrameFields ==
  ASSUME NEW p \in Packet, ValidateWire(p) = Nil
  PROVE  LET raw == Frame(p)
         IN  /\ raw \in Seq(Byte)
             /\ Len(raw) = PathLenAt(raw) + Len(p.Path) + Len(p.Payload)
             /\ RouteOf(raw) = p.Route
             /\ TypeOf(raw) = p.Type
             /\ VersionOf(raw) = p.Version
             /\ PathLenAt(raw) \in {2, 6}
             /\ HashSizeOf(raw) = p.PathHashSize
             /\ PathBytesOf(raw) = Len(p.Path)
             /\ CodesOf(raw) = IF IsTransport(p.Route) THEN p.TransportCodes ELSE <<0, 0>>
             /\ \A i \in 1 .. Len(p.Path) : raw[PathLenAt(raw) + i] = p.Path[i]
             /\ \A i \in 1 .. Len(p.Payload) :
                   raw[PathLenAt(raw) + Len(p.Path) + i] = p.Payload[i]
<1> DEFINE raw == Frame(p)
           h   == <<HeaderByte(p)>>
           c   == CodeBytes(p)
           l   == <<PathLenByte(p)>>
<1>1. HeaderByte(p) \in Byte /\ PathLenByte(p) \in Byte
  BY PackedBytes
<1>2. /\ h \in Seq(Byte) /\ l \in Seq(Byte) /\ c \in Seq(Byte)
      /\ p.Path \in Seq(Byte) /\ p.Payload \in Seq(Byte)
      /\ Len(h) = 1 /\ Len(l) = 1 /\ h[1] = HeaderByte(p) /\ l[1] = PathLenByte(p)
  BY <1>1, CodeBytesFacts DEF Packet
<1>3. Len(c) = IF IsTransport(p.Route) THEN 4 ELSE 0
  BY CodeBytesFacts
<1>4. raw = h \o c \o l \o p.Path \o p.Payload
  BY DEF Frame
<1> HIDE DEF raw, h, c, l
<1>5. /\ raw \in Seq(Byte)
      /\ Len(raw) = Len(h) + Len(c) + Len(l) + Len(p.Path) + Len(p.Payload)
      /\ \A i \in 1 .. Len(h) : raw[i] = h[i]
      /\ \A i \in 1 .. Len(c) : raw[Len(h) + i] = c[i]
      /\ \A i \in 1 .. Len(l) : raw[Len(h) + Len(c) + i] = l[i]
      /\ \A i \in 1 .. Len(p.Path) : raw[Len(h) + Len(c) + Len(l) + i] = p.Path[i]
      /\ \A i \in 1 .. Len(p.Payload) :
            raw[Len(h) + Len(c) + Len(l) + Len(p.Path) + i] = p.Payload[i]
  <2>1. /\ h \in Seq(Byte) /\ l \in Seq(Byte) /\ c \in Seq(Byte)
        /\ p.Path \in Seq(Byte) /\ p.Payload \in Seq(Byte)
    BY <1>2
  <2>2. raw \in Seq(Byte) /\ IsLaidOut(raw, h, c, l, p.Path, p.Payload)
    BY <1>4, <2>1, FiveParts
  <2>3. QED
    BY <2>2 DEF IsLaidOut
<1>6. raw[1] = HeaderByte(p)
  <2>1. \A i \in 1 .. Len(h) : raw[i] = h[i]
    BY <1>5
  <2>2. QED
    BY <1>2, <2>1
<1>7. RouteOf(raw) = p.Route /\ TypeOf(raw) = p.Type /\ VersionOf(raw) = p.Version
  <2>1. /\ HeaderByte(p) % 4 = p.Route
        /\ (HeaderByte(p) \div 4) % 16 = p.Type
        /\ HeaderByte(p) \div 64 = p.Version
    BY PackedBytes
  <2>2. RouteOf(raw) = p.Route
    BY <1>6, <2>1 DEF RouteOf
  <2>3. TypeOf(raw) = p.Type
    BY <1>6, <2>1 DEF TypeOf
  <2>4. VersionOf(raw) = p.Version
    BY <1>6, <2>1 DEF VersionOf
  <2>5. QED
    BY <2>2, <2>3, <2>4
<1>8. /\ PathLenAt(raw) = Len(c) + 2
      /\ PathLenAt(raw) \in {2, 6}
  BY <1>3, <1>7 DEF PathLenAt
<1>9. raw[PathLenAt(raw)] = PathLenByte(p)
  <2>1. \A i \in 1 .. Len(l) : raw[Len(h) + Len(c) + i] = l[i]
    BY <1>5
  <2>2. raw[Len(h) + Len(c) + 1] = PathLenByte(p)
    BY <1>2, <2>1
  <2>3. Len(h) + Len(c) + 1 = PathLenAt(raw)
    BY <1>2, <1>3, <1>8
  <2>4. QED
    BY <2>2, <2>3
<1>10. HashSizeOf(raw) = p.PathHashSize
  <2>1. PathLenByte(p) \div 64 + 1 = p.PathHashSize
    BY PackedBytes
  <2>2. QED
    BY <1>9, <2>1 DEF HashSizeOf
<1>11. PathBytesOf(raw) = Len(p.Path)
  <2>1. PathLenByte(p) % 64 = HopCount(p)
    BY PackedBytes
  <2>2. HopCount(p) * p.PathHashSize = Len(p.Path)
    BY HopsTimesSize
  <2>3. QED
    BY <1>9, <1>10, <2>1, <2>2 DEF PathBytesOf
<1>12. CodesOf(raw) = IF IsTransport(p.Route) THEN p.TransportCodes ELSE <<0, 0>>
  <2>1. CASE IsTransport(p.Route)
    <3>1. Len(c) = 4
      BY <1>3, <2>1
    <3>2. \A i \in 1 .. 4 : raw[1 + i] = c[i]
      <4>1. \A i \in 1 .. Len(c) : raw[Len(h) + i] = c[i]
        BY <1>5
      <4>2. QED
        BY <1>2, <3>1, <4>1
    <3>3. raw[2] = c[1] /\ raw[3] = c[2] /\ raw[4] = c[3] /\ raw[5] = c[4]
      BY <3>2
    <3>4. /\ Uint16At(c, 1) = p.TransportCodes[1]
          /\ Uint16At(c, 3) = p.TransportCodes[2]
      BY <2>1, CodeBytesFacts DEF c
    <3>5. /\ Uint16At(raw, 2) = p.TransportCodes[1]
          /\ Uint16At(raw, 4) = p.TransportCodes[2]
      BY <3>3, <3>4 DEF Uint16At
    <3>6. p.TransportCodes = <<p.TransportCodes[1], p.TransportCodes[2]>>
      BY DEF Packet
    <3>7. QED
      BY <1>7, <2>1, <3>5, <3>6 DEF CodesOf
  <2>2. CASE ~IsTransport(p.Route)
    BY <1>7, <2>2 DEF CodesOf
  <2>3. QED
    BY <2>1, <2>2
<1>13. Len(h) + Len(c) + Len(l) = PathLenAt(raw)
  BY <1>2, <1>3, <1>8
<1>14. /\ Len(raw) = PathLenAt(raw) + Len(p.Path) + Len(p.Payload)
       /\ \A i \in 1 .. Len(p.Path) : raw[PathLenAt(raw) + i] = p.Path[i]
       /\ \A i \in 1 .. Len(p.Payload) :
             raw[PathLenAt(raw) + Len(p.Path) + i] = p.Payload[i]
  BY <1>5, <1>13
<1>15. QED
  BY <1>5, <1>7, <1>8, <1>10, <1>11, <1>12, <1>14 DEF raw

-----------------------------------------------------------------------------
(* What DecodePacket has checked when it returns no error. *)
LEMMA DecodeFacts ==
  ASSUME NEW raw \in Seq(Byte), DecodeError(raw) = Nil
  PROVE  /\ Len(raw) \in Nat
         /\ raw[1] \in Byte
         /\ raw[1] \div 64 = 0
         /\ PathLenAt(raw) \in {2, 6}
         /\ PathLenAt(raw) <= Len(raw)
         /\ raw[PathLenAt(raw)] \in Byte
         /\ HashSizeOf(raw) \in 1 .. 3
         /\ PathBytesOf(raw) \in 0 .. MaxPathBytes
         /\ PayloadFrom(raw) = PathLenAt(raw) + PathBytesOf(raw) + 1
         /\ PayloadFrom(raw) <= Len(raw) + 1
         /\ Len(raw) - PayloadFrom(raw) + 1 <= MaxPayloadBytes
<1>1. Len(raw) \in Nat
  OBVIOUS
<1>2. /\ ~(Len(raw) < 2)
      /\ VersionOf(raw) = CurrentPayloadVer
      /\ ~(PathLenAt(raw) > Len(raw))
      /\ HashSizeOf(raw) # 4
      /\ ~(PathBytesOf(raw) > MaxPathBytes)
      /\ ~(PayloadFrom(raw) - 1 > Len(raw))
      /\ ~(Len(raw) - PayloadFrom(raw) + 1 > MaxPayloadBytes)
  BY DEF DecodeError, Nil
<1>3. raw[1] \in Byte
  BY <1>1, <1>2
<1>4. raw[1] \div 64 = 0
  BY <1>2 DEF VersionOf, CurrentPayloadVer
<1>5. PathLenAt(raw) \in {2, 6}
  BY DEF PathLenAt
<1>6. PathLenAt(raw) <= Len(raw)
  BY <1>1, <1>2, <1>5
<1>7. raw[PathLenAt(raw)] \in Byte
  BY <1>1, <1>5, <1>6
<1>8. HashSizeOf(raw) \in 1 .. 3
  <2>1. raw[PathLenAt(raw)] \div 64 \in 0 .. 3
    BY <1>7, ByteSplit
  <2>2. HashSizeOf(raw) \in 1 .. 4
    BY <2>1 DEF HashSizeOf
  <2>3. HashSizeOf(raw) # 4
    BY <1>2
  <2>4. QED
    BY <2>2, <2>3
<1>9. PathBytesOf(raw) \in Nat
  <2> DEFINE hops == raw[PathLenAt(raw)] % 64
             size == HashSizeOf(raw)
  <2>1. hops \in 0 .. 63 /\ size \in 1 .. 3
    BY <1>7, <1>8, ByteSplit
  <2>2. PathBytesOf(raw) = hops * size
    BY DEF PathBytesOf
  <2> HIDE DEF hops, size
  <2>3. QED
    BY <2>1, <2>2
<1>10. PathBytesOf(raw) \in 0 .. MaxPathBytes
  BY <1>2, <1>9, EnvelopeLimits
<1>11. PayloadFrom(raw) = PathLenAt(raw) + PathBytesOf(raw) + 1
  BY DEF PayloadFrom
<1>12. PayloadFrom(raw) \in Nat
  BY <1>5, <1>9, <1>11
<1>13. PayloadFrom(raw) <= Len(raw) + 1
  BY <1>1, <1>2, <1>12
<1>14. Len(raw) - PayloadFrom(raw) + 1 <= MaxPayloadBytes
  BY <1>1, <1>2, <1>12, EnvelopeLimits
<1>15. QED
  BY <1>1, <1>3, <1>4, <1>5, <1>6, <1>7, <1>8, <1>10, <1>11, <1>13, <1>14

(* The path and the payload of a decoded frame. *)
LEMMA DecodedParts ==
  ASSUME NEW raw \in Seq(Byte), DecodeError(raw) = Nil
  PROVE  LET q == PacketIn(raw)
         IN  /\ q.Path \in Seq(Byte)
             /\ q.Payload \in Seq(Byte)
             /\ Len(q.Path) = PathBytesOf(raw)
             /\ Len(q.Payload) = Len(raw) - PathLenAt(raw) - PathBytesOf(raw)
             /\ \A i \in 1 .. Len(q.Path) : q.Path[i] = raw[PathLenAt(raw) + i]
             /\ \A i \in 1 .. Len(q.Payload) :
                   q.Payload[i] = raw[PathLenAt(raw) + PathBytesOf(raw) + i]
<1> DEFINE at   == PathLenAt(raw)
           size == PathBytesOf(raw)
           q    == PacketIn(raw)
<1>1. /\ Len(raw) \in Nat /\ at \in Nat /\ size \in Nat
      /\ PayloadFrom(raw) = at + size + 1
      /\ at + size <= Len(raw)
  BY DecodeFacts, EnvelopeLimits
<1>2. /\ q.Path = SubSeq(raw, at + 1, PayloadFrom(raw) - 1)
      /\ q.Payload = SubSeq(raw, PayloadFrom(raw), Len(raw))
  BY DEF PacketIn
<1> HIDE DEF at, size, q
<1>3. q.Path = SubSeq(raw, at + 1, at + size)
  BY <1>1, <1>2
<1>4. q.Payload = SubSeq(raw, at + size + 1, Len(raw))
  BY <1>1, <1>2
<1>5. /\ q.Path \in Seq(Byte)
      /\ Len(q.Path) = size
      /\ \A i \in 1 .. size : q.Path[i] = raw[at + i]
  <2>1. raw \in Seq(Byte) /\ at \in Nat /\ size \in Nat /\ at + size <= Len(raw)
    BY <1>1
  <2>2. QED
    BY <1>3, <2>1, Slice
<1>6. /\ q.Payload \in Seq(Byte)
      /\ Len(q.Payload) = Len(raw) - at - size
      /\ \A i \in 1 .. Len(raw) - at - size : q.Payload[i] = raw[at + size + i]
  <2> DEFINE start == at + size
             count == Len(raw) - at - size
  <2>1. start \in Nat /\ count \in Nat /\ start + count = Len(raw)
    BY <1>1
  <2>2. q.Payload = SubSeq(raw, start + 1, start + count)
    BY <1>4, <2>1
  <2> HIDE DEF start, count
  <2>3. /\ q.Payload \in Seq(Byte)
        /\ Len(q.Payload) = count
        /\ \A i \in 1 .. count : q.Payload[i] = raw[start + i]
    BY <2>1, <2>2, Slice
  <2>4. QED
    BY <2>3 DEF start, count
<1>7. QED
  BY <1>5, <1>6 DEF at, size, q

-----------------------------------------------------------------------------
LEMMA DefaultIsPacket ==
  ASSUME NEW p \in Packet
  PROVE  WithDefaultHashSize(p) \in Packet
BY DEF WithDefaultHashSize, Packet, DefaultPathHashSize

LEMMA CodesReplaced ==
  ASSUME NEW r, NEW t, NEW v, NEW c, NEW h, NEW a, NEW b, NEW q, NEW x,
         q = [Route |-> r, Type |-> t, Version |-> v, TransportCodes |-> c,
              PathHashSize |-> h, Path |-> a, Payload |-> b]
  PROVE  [q EXCEPT !.TransportCodes = x] =
           [Route |-> r, Type |-> t, Version |-> v, TransportCodes |-> x,
            PathHashSize |-> h, Path |-> a, Payload |-> b]
OBVIOUS

(* A frame that was encoded passes every check of DecodePacket. *)
LEMMA FrameIsAccepted ==
  ASSUME NEW p \in Packet, ValidateWire(p) = Nil
  PROVE  DecodeError(Frame(p)) = Nil
<1> DEFINE raw == Frame(p)
<1>1. /\ Len(raw) = PathLenAt(raw) + Len(p.Path) + Len(p.Payload)
      /\ PathLenAt(raw) \in {2, 6}
      /\ HashSizeOf(raw) = p.PathHashSize
      /\ PathBytesOf(raw) = Len(p.Path)
      /\ VersionOf(raw) = p.Version
  BY FrameFields
<1>2. /\ p.Version = 0
      /\ p.PathHashSize \in 1 .. 3
      /\ Len(p.Path) <= MaxPathBytes
      /\ Len(p.Payload) <= MaxPayloadBytes
  BY WireFacts
<1>3. Len(p.Path) \in Nat /\ Len(p.Payload) \in Nat
  BY DEF Packet
<1> HIDE DEF raw
<1>4. PayloadFrom(raw) = PathLenAt(raw) + Len(p.Path) + 1
  BY <1>1 DEF PayloadFrom
<1>5. /\ ~(Len(raw) < 2)
      /\ ~(PathLenAt(raw) - 1 > Len(raw))
      /\ ~(PathLenAt(raw) > Len(raw))
      /\ ~(PayloadFrom(raw) - 1 > Len(raw))
      /\ ~(Len(raw) - PayloadFrom(raw) + 1 > MaxPayloadBytes)
  <2> DEFINE at == PathLenAt(raw)
             m  == Len(p.Path)
             n  == Len(p.Payload)
  <2>1. /\ at \in Nat /\ m \in Nat /\ n \in Nat
        /\ at >= 2 /\ n <= MaxPayloadBytes
        /\ Len(raw) = at + m + n
        /\ PayloadFrom(raw) = at + m + 1
    BY <1>1, <1>2, <1>3, <1>4
  <2> HIDE DEF at, m, n
  <2>2. /\ ~(Len(raw) < 2)
        /\ ~(at - 1 > Len(raw))
        /\ ~(at > Len(raw))
        /\ ~(PayloadFrom(raw) - 1 > Len(raw))
        /\ ~(Len(raw) - PayloadFrom(raw) + 1 > MaxPayloadBytes)
    BY <2>1, EnvelopeLimits
  <2>3. QED
    BY <2>2 DEF at
<1>6. /\ VersionOf(raw) = CurrentPayloadVer
      /\ HashSizeOf(raw) # 4
      /\ ~(PathBytesOf(raw) > MaxPathBytes)
  BY <1>1, <1>2, <1>3, EnvelopeLimits DEF CurrentPayloadVer
<1>7. QED
  BY <1>5, <1>6 DEF DecodeError, raw

(* DecodePacket gives back the packet that was encoded: every field, for   *)
(* every route, hash size, path and payload that EncodePacket accepts      *)
(* (EncodePacket, packet.go:189, and DecodePacket, packet.go:242).         *)
THEOREM RoundTrip ==
  ASSUME NEW p \in Packet, EncodePacket(p).err = Nil
  PROVE  DecodePacket(EncodePacket(p).frame) = [err |-> Nil, packet |-> Normalised(p)]
<1> DEFINE q   == WithDefaultHashSize(p)
           raw == Frame(q)
           d   == PacketIn(raw)
<1>1. q \in Packet
  BY DefaultIsPacket
<1>2. ValidateWire(q) = Nil /\ EncodePacket(p).frame = raw
  BY DEF EncodePacket
<1> HIDE DEF q
<1>3. DecodeError(raw) = Nil
  BY <1>1, <1>2, FrameIsAccepted
<1>4. /\ raw \in Seq(Byte)
      /\ Len(raw) = PathLenAt(raw) + Len(q.Path) + Len(q.Payload)
      /\ RouteOf(raw) = q.Route
      /\ TypeOf(raw) = q.Type
      /\ VersionOf(raw) = q.Version
      /\ PathLenAt(raw) \in {2, 6}
      /\ HashSizeOf(raw) = q.PathHashSize
      /\ PathBytesOf(raw) = Len(q.Path)
      /\ CodesOf(raw) = IF IsTransport(q.Route) THEN q.TransportCodes ELSE <<0, 0>>
      /\ \A i \in 1 .. Len(q.Path) : raw[PathLenAt(raw) + i] = q.Path[i]
      /\ \A i \in 1 .. Len(q.Payload) :
            raw[PathLenAt(raw) + Len(q.Path) + i] = q.Payload[i]
  BY <1>1, <1>2, FrameFields
<1>5. q.Path \in Seq(Byte) /\ q.Payload \in Seq(Byte)
  BY <1>1 DEF Packet
<1>6. Len(q.Path) \in Nat /\ Len(q.Payload) \in Nat
  BY <1>5
<1> HIDE DEF raw
<1>7. raw \in Seq(Byte)
  BY <1>4
<1>8. /\ d.Path \in Seq(Byte)
      /\ d.Payload \in Seq(Byte)
      /\ Len(d.Path) = PathBytesOf(raw)
      /\ Len(d.Payload) = Len(raw) - PathLenAt(raw) - PathBytesOf(raw)
      /\ \A i \in 1 .. Len(d.Path) : d.Path[i] = raw[PathLenAt(raw) + i]
      /\ \A i \in 1 .. Len(d.Payload) :
            d.Payload[i] = raw[PathLenAt(raw) + PathBytesOf(raw) + i]
  BY <1>3, <1>7, DecodedParts
<1>9. /\ d.Route = q.Route /\ d.Type = q.Type /\ d.Version = q.Version
      /\ d.PathHashSize = q.PathHashSize
      /\ d.TransportCodes = IF IsTransport(q.Route) THEN q.TransportCodes ELSE <<0, 0>>
  BY <1>4 DEF PacketIn
<1>10. d = [Route |-> d.Route, Type |-> d.Type, Version |-> d.Version,
            TransportCodes |-> d.TransportCodes, PathHashSize |-> d.PathHashSize,
            Path |-> d.Path, Payload |-> d.Payload]
  BY DEF PacketIn
<1> HIDE DEF d
<1>11. d.Path = q.Path
  <2>1. d.Path \in Seq(Byte)
    BY <1>8
  <2>2. Len(d.Path) = Len(q.Path)
    BY <1>4, <1>8
  <2>3. \A i \in 1 .. Len(d.Path) : d.Path[i] = q.Path[i]
    BY <1>4, <1>8, <2>2
  <2>4. QED
    BY <1>5, <2>1, <2>2, <2>3, SeqEqual
<1>12. d.Payload = q.Payload
  <2>1. d.Payload \in Seq(Byte)
    BY <1>8
  <2>2. Len(d.Payload) = Len(q.Payload)
    BY <1>4, <1>6, <1>8
  <2>3. \A i \in 1 .. Len(d.Payload) : d.Payload[i] = q.Payload[i]
    BY <1>4, <1>8, <2>2
  <2>4. QED
    BY <1>5, <2>1, <2>2, <2>3, SeqEqual
<1>13. d = Normalised(p)
  <2>1. q = [Route |-> q.Route, Type |-> q.Type, Version |-> q.Version,
             TransportCodes |-> q.TransportCodes, PathHashSize |-> q.PathHashSize,
             Path |-> q.Path, Payload |-> q.Payload]
    BY <1>1 DEF Packet
  <2>2. Normalised(p) =
          IF IsTransport(q.Route) THEN q ELSE [q EXCEPT !.TransportCodes = <<0, 0>>]
    BY DEF Normalised, q
  <2>3. CASE IsTransport(q.Route)
    <3>1. d.TransportCodes = q.TransportCodes
      BY <1>9, <2>3
    <3>2. d = q
      BY <1>9, <1>10, <1>11, <1>12, <2>1, <3>1
    <3>3. QED
      BY <2>2, <2>3, <3>2
  <2>4. CASE ~IsTransport(q.Route)
    <3>1. d.TransportCodes = <<0, 0>>
      BY <1>9, <2>4
    <3>2. [q EXCEPT !.TransportCodes = <<0, 0>>] =
            [Route |-> q.Route, Type |-> q.Type, Version |-> q.Version,
             TransportCodes |-> <<0, 0>>, PathHashSize |-> q.PathHashSize,
             Path |-> q.Path, Payload |-> q.Payload]
      BY <2>1, CodesReplaced
    <3>3. QED
      BY <1>9, <1>10, <1>11, <1>12, <2>2, <2>4, <3>1, <3>2
  <2>5. QED
    BY <2>3, <2>4
<1>14. DecodePacket(raw) = [err |-> Nil, packet |-> d]
  BY <1>3 DEF DecodePacket, d
<1>15. QED
  BY <1>2, <1>13, <1>14

-----------------------------------------------------------------------------
(* A packet that DecodePacket returns is one that ValidateWire accepts:    *)
(* the encoder can never refuse to pass on what the decoder let through    *)
(* (DecodePacket, packet.go:242, and ValidateWire, validate.go:11).        *)
THEOREM DecodedIsWire ==
  ASSUME NEW raw \in Seq(Byte), DecodeError(raw) = Nil
  PROVE  /\ PacketIn(raw) \in Packet
         /\ ValidateWire(PacketIn(raw)) = Nil
         /\ HopCount(PacketIn(raw)) = raw[PathLenAt(raw)] % 64
<1> DEFINE q    == PacketIn(raw)
           b    == raw[PathLenAt(raw)]
           hops == b % 64
           size == HashSizeOf(raw)
<1>1. /\ raw[1] \in Byte /\ raw[1] \div 64 = 0
      /\ b \in Byte
      /\ size \in 1 .. 3
      /\ PathBytesOf(raw) \in 0 .. MaxPathBytes
  BY DecodeFacts
<1>2. hops \in 0 .. 63
  BY <1>1, ByteSplit
<1>3. RouteOf(raw) \in 0 .. 3 /\ TypeOf(raw) \in 0 .. 15
  BY <1>1, HeaderSplit DEF RouteOf, TypeOf
<1>4. VersionOf(raw) = 0
  BY <1>1 DEF VersionOf
<1>5. PathBytesOf(raw) = hops * size
  BY DEF PathBytesOf
<1>6. CodesOf(raw) \in Uint16 \X Uint16
  <2>1. CASE IsTransport(RouteOf(raw))
    <3>1. PathLenAt(raw) = 6
      BY <2>1 DEF PathLenAt
    <3>2. Len(raw) \in Nat /\ 6 <= Len(raw)
      BY <3>1, DecodeFacts
    <3>3. raw[2] \in Byte /\ raw[3] \in Byte /\ raw[4] \in Byte /\ raw[5] \in Byte
      BY <3>2
    <3>4. raw[2] + 256 * raw[3] \in Uint16 /\ raw[4] + 256 * raw[5] \in Uint16
      BY <3>3, JoinedBytes
    <3>5. QED
      BY <2>1, <3>4 DEF CodesOf, Uint16At
  <2>2. CASE ~IsTransport(RouteOf(raw))
    <3>1. 0 \in Uint16
      BY DEF Uint16
    <3>2. CodesOf(raw) = <<0, 0>>
      BY <2>2 DEF CodesOf
    <3>3. QED
      BY <3>1, <3>2
  <2>3. QED
    BY <2>1, <2>2
<1>7. /\ q.Path \in Seq(Byte)
      /\ q.Payload \in Seq(Byte)
      /\ Len(q.Path) = PathBytesOf(raw)
      /\ Len(q.Payload) = Len(raw) - PathLenAt(raw) - PathBytesOf(raw)
  BY DecodedParts
<1>8. /\ q.Route = RouteOf(raw) /\ q.Type = TypeOf(raw) /\ q.Version = VersionOf(raw)
      /\ q.PathHashSize = size /\ q.TransportCodes = CodesOf(raw)
  BY DEF PacketIn
<1>9. q = [Route |-> q.Route, Type |-> q.Type, Version |-> q.Version,
           TransportCodes |-> q.TransportCodes, PathHashSize |-> q.PathHashSize,
           Path |-> q.Path, Payload |-> q.Payload]
  BY DEF PacketIn
<1> HIDE DEF q, hops, size, b
<1>10. q \in Packet
  <2>1. q.Route \in Byte /\ q.Type \in Byte /\ q.Version \in Byte
    BY <1>3, <1>4, <1>8 DEF Byte
  <2>2. q.PathHashSize \in Int /\ q.TransportCodes \in Uint16 \X Uint16
    BY <1>1, <1>6, <1>8
  <2>3. q.Path \in Seq(Byte) /\ q.Payload \in Seq(Byte)
    BY <1>7
  <2>4. QED
    BY <1>9, <2>1, <2>2, <2>3 DEF Packet
<1>11. /\ Len(q.Path) % q.PathHashSize = 0
       /\ Len(q.Path) \div q.PathHashSize = hops
  <2>1. (hops * size) % size = 0 /\ (hops * size) \div size = hops
    BY <1>1, <1>2, ExactMultiple
  <2>2. QED
    BY <1>5, <1>7, <1>8, <2>1
<1>12. HopCount(q) = hops
  <2>1. ~(q.PathHashSize <= 0)
    BY <1>1, <1>8
  <2>2. QED
    BY <1>11, <2>1 DEF HopCount
<1>13. /\ Len(q.Path) <= MaxPathBytes
       /\ Len(q.Payload) <= MaxPayloadBytes
  <2>1. Len(q.Path) <= MaxPathBytes
    BY <1>1, <1>7, EnvelopeLimits
  <2> DEFINE at == PathLenAt(raw)
             m  == PathBytesOf(raw)
  <2>2. /\ Len(raw) \in Nat /\ at \in Nat /\ m \in Nat
        /\ PayloadFrom(raw) = at + m + 1
        /\ Len(raw) - PayloadFrom(raw) + 1 <= MaxPayloadBytes
    BY DecodeFacts, EnvelopeLimits
  <2>3. Len(q.Payload) = Len(raw) - at - m
    BY <1>7
  <2> HIDE DEF at, m
  <2>4. Len(q.Payload) <= MaxPayloadBytes
    BY <2>2, <2>3, EnvelopeLimits
  <2>5. QED
    BY <2>1, <2>4
<1>14. ValidateWire(q) = Nil
  <2>1. /\ ~(q.Version # CurrentPayloadVer)
        /\ ~(q.Route > RouteTransportDirect)
        /\ ~(q.Type > 15)
        /\ ~(q.PathHashSize \notin 1 .. 3)
    BY <1>1, <1>3, <1>4, <1>8 DEF CurrentPayloadVer, RouteTransportDirect
  <2>2. ~(Len(q.Path) % q.PathHashSize # 0)
    BY <1>11
  <2>3. Len(q.Path) \in Nat /\ Len(q.Payload) \in Nat
    BY <1>7
  <2>4. ~(Len(q.Path) > MaxPathBytes) /\ ~(Len(q.Payload) > MaxPayloadBytes)
    BY <1>13, <2>3, EnvelopeLimits
  <2>5. ~(HopCount(q) > MaxHopCount)
    BY <1>2, <1>12 DEF MaxHopCount
  <2>6. QED
    BY <2>1, <2>2, <2>4, <2>5 DEF ValidateWire
<1>15. QED
  BY <1>10, <1>12, <1>14 DEF q, hops, b

(* Two sequences of the same length that agree on five parts are equal. *)
Agree(s, t, c, m, n) ==
  /\ Len(s) = c + 2 + m + n
  /\ Len(t) = c + 2 + m + n
  /\ s[1] = t[1]
  /\ \A i \in 1 .. c : s[1 + i] = t[1 + i]
  /\ s[c + 2] = t[c + 2]
  /\ \A i \in 1 .. m : s[c + 2 + i] = t[c + 2 + i]
  /\ \A i \in 1 .. n : s[c + 2 + m + i] = t[c + 2 + m + i]

LEMMA SameParts ==
  ASSUME NEW S, NEW s \in Seq(S), NEW t \in Seq(S),
         NEW c \in Nat, NEW m \in Nat, NEW n \in Nat,
         Agree(s, t, c, m, n)
  PROVE  s = t
<1> USE DEF Agree
<1>1. ASSUME NEW i \in 1 .. Len(s) PROVE s[i] = t[i]
  <2>1. i \in Nat
    OBVIOUS
  <2>2. \/ i = 1
        \/ i - 1 \in 1 .. c
        \/ i = c + 2
        \/ i - c - 2 \in 1 .. m
        \/ i - c - 2 - m \in 1 .. n
    OBVIOUS
  <2>3. CASE i - 1 \in 1 .. c
    <3>1. s[1 + (i - 1)] = t[1 + (i - 1)]
      BY <2>3
    <3>2. 1 + (i - 1) = i
      BY <2>1
    <3>3. QED
      BY <3>1, <3>2
  <2>4. CASE i - c - 2 \in 1 .. m
    <3>1. s[c + 2 + (i - c - 2)] = t[c + 2 + (i - c - 2)]
      BY <2>4
    <3>2. c + 2 + (i - c - 2) = i
      BY <2>1
    <3>3. QED
      BY <3>1, <3>2
  <2>5. CASE i - c - 2 - m \in 1 .. n
    <3>1. s[c + 2 + m + (i - c - 2 - m)] = t[c + 2 + m + (i - c - 2 - m)]
      BY <2>5
    <3>2. c + 2 + m + (i - c - 2 - m) = i
      BY <2>1
    <3>3. QED
      BY <3>1, <3>2
  <2>6. QED
    BY <2>2, <2>3, <2>4, <2>5
<1>2. QED
  BY <1>1, SeqEqual

(* The same five parts of a frame that was encoded. *)
LEMMA FrameParts ==
  ASSUME NEW p \in Packet, ValidateWire(p) = Nil, NEW f, f = Frame(p)
  PROVE  /\ f \in Seq(Byte)
         /\ Len(f) = Len(CodeBytes(p)) + 2 + Len(p.Path) + Len(p.Payload)
         /\ f[1] = HeaderByte(p)
         /\ \A i \in 1 .. Len(CodeBytes(p)) : f[1 + i] = CodeBytes(p)[i]
         /\ f[Len(CodeBytes(p)) + 2] = PathLenByte(p)
         /\ \A i \in 1 .. Len(p.Path) : f[Len(CodeBytes(p)) + 2 + i] = p.Path[i]
         /\ \A i \in 1 .. Len(p.Payload) :
               f[Len(CodeBytes(p)) + 2 + Len(p.Path) + i] = p.Payload[i]
<1> DEFINE h == <<HeaderByte(p)>>
           c == CodeBytes(p)
           l == <<PathLenByte(p)>>
<1>1. HeaderByte(p) \in Byte /\ PathLenByte(p) \in Byte
  BY PackedBytes
<1>2. /\ h \in Seq(Byte) /\ l \in Seq(Byte)
      /\ Len(h) = 1 /\ Len(l) = 1 /\ h[1] = HeaderByte(p) /\ l[1] = PathLenByte(p)
  BY <1>1
<1>3. c \in Seq(Byte) /\ p.Path \in Seq(Byte) /\ p.Payload \in Seq(Byte)
  BY CodeBytesFacts DEF Packet
<1>4. f = h \o c \o l \o p.Path \o p.Payload
  BY DEF Frame
<1>5. /\ Len(c) \in Nat /\ Len(p.Path) \in Nat /\ Len(p.Payload) \in Nat
  BY <1>3
<1> HIDE DEF h, c, l
<1>6. f \in Seq(Byte) /\ IsLaidOut(f, h, c, l, p.Path, p.Payload)
  <2>1. h \in Seq(Byte) /\ l \in Seq(Byte)
    BY <1>2
  <2>2. QED
    BY <1>3, <1>4, <2>1, FiveParts
<1>7. /\ Len(f) = 1 + Len(c) + 1 + Len(p.Path) + Len(p.Payload)
      /\ \A i \in 1 .. 1 : f[i] = h[i]
      /\ \A i \in 1 .. Len(c) : f[1 + i] = c[i]
      /\ \A i \in 1 .. 1 : f[1 + Len(c) + i] = l[i]
      /\ \A i \in 1 .. Len(p.Path) : f[1 + Len(c) + 1 + i] = p.Path[i]
      /\ \A i \in 1 .. Len(p.Payload) : f[1 + Len(c) + 1 + Len(p.Path) + i] = p.Payload[i]
  <2>1. Len(h) = 1 /\ Len(l) = 1
    BY <1>2
  <2>2. QED
    BY <1>6, <2>1 DEF IsLaidOut
<1>8. 1 + Len(c) + 1 = Len(c) + 2
  BY <1>5
<1>9. f[1] = HeaderByte(p) /\ f[Len(c) + 2] = PathLenByte(p)
  <2>1. \A i \in 1 .. 1 : f[i] = h[i]
    BY <1>7
  <2>2. \A i \in 1 .. 1 : f[1 + Len(c) + i] = l[i]
    BY <1>7
  <2>3. f[1] = h[1] /\ f[1 + Len(c) + 1] = l[1]
    BY <2>1, <2>2
  <2>4. QED
    BY <1>2, <1>8, <2>3
<1>10. Len(f) = Len(c) + 2 + Len(p.Path) + Len(p.Payload)
  BY <1>7, <1>8
<1>11. QED
  BY <1>6, <1>7, <1>8, <1>9, <1>10 DEF c

(* Encoding a decoded packet gives the frame back, byte for byte: a frame  *)
(* has one reading and a packet one frame, and what a relay passes on is   *)
(* what it received except for its own hop (DecodePacket, packet.go:242,   *)
(* and EncodePacket, packet.go:189).                                       *)
THEOREM Canonical ==
  ASSUME NEW raw \in Seq(Byte), DecodePacket(raw).err = Nil
  PROVE  EncodePacket(DecodePacket(raw).packet) = [err |-> Nil, frame |-> raw]
<1> DEFINE q  == PacketIn(raw)
           f  == Frame(q)
           c  == CodeBytes(q)
           at == PathLenAt(raw)
           m  == PathBytesOf(raw)
<1>1. DecodeError(raw) = Nil /\ DecodePacket(raw).packet = q
  BY DEF DecodePacket
<1>2. /\ q \in Packet
      /\ ValidateWire(q) = Nil
      /\ HopCount(q) = raw[at] % 64
  BY <1>1, DecodedIsWire
<1>3. /\ q.Route = RouteOf(raw) /\ q.Type = TypeOf(raw) /\ q.Version = VersionOf(raw)
      /\ q.PathHashSize = HashSizeOf(raw) /\ q.TransportCodes = CodesOf(raw)
  BY DEF PacketIn
<1>4. /\ q.Path \in Seq(Byte)
      /\ q.Payload \in Seq(Byte)
      /\ Len(q.Path) = m
      /\ Len(q.Payload) = Len(raw) - at - m
      /\ \A i \in 1 .. Len(q.Path) : q.Path[i] = raw[at + i]
      /\ \A i \in 1 .. Len(q.Payload) : q.Payload[i] = raw[at + m + i]
  BY <1>1, DecodedParts
<1>5. /\ Len(raw) \in Nat
      /\ raw[1] \in Byte /\ raw[1] \div 64 = 0
      /\ at \in {2, 6} /\ at <= Len(raw)
      /\ raw[at] \in Byte
      /\ m \in Nat
  BY <1>1, DecodeFacts, EnvelopeLimits
<1> HIDE DEF q, f
<1>6. /\ f \in Seq(Byte)
      /\ Len(f) = Len(c) + 2 + Len(q.Path) + Len(q.Payload)
      /\ f[1] = HeaderByte(q)
      /\ \A i \in 1 .. Len(c) : f[1 + i] = c[i]
      /\ f[Len(c) + 2] = PathLenByte(q)
      /\ \A i \in 1 .. Len(q.Path) : f[Len(c) + 2 + i] = q.Path[i]
      /\ \A i \in 1 .. Len(q.Payload) : f[Len(c) + 2 + Len(q.Path) + i] = q.Payload[i]
  BY <1>2, FrameParts DEF f
<1>7. Len(c) = IF IsTransport(q.Route) THEN 4 ELSE 0
  BY <1>2, CodeBytesFacts
<1>8. at = Len(c) + 2
  BY <1>3, <1>7 DEF PathLenAt
<1>9. HeaderByte(q) = raw[1]
  <2>1. /\ raw[1] % 4 \in 0 .. 3
        /\ (raw[1] \div 4) % 16 \in 0 .. 15
        /\ ((raw[1] \div 4) % 16) * 4 + (raw[1] % 4) = raw[1]
    BY <1>5, HeaderSplit
  <2>2. q.Route = raw[1] % 4 /\ q.Type = (raw[1] \div 4) % 16 /\ q.Version = 0
    BY <1>3, <1>5 DEF RouteOf, TypeOf, VersionOf
  <2>3. q.Route \in 0 .. 3 /\ q.Type \in 0 .. 15 /\ q.Type * 4 + q.Route = raw[1]
    <3> DEFINE r == raw[1] % 4
               t == (raw[1] \div 4) % 16
    <3>1. r \in 0 .. 3 /\ t \in 0 .. 15 /\ t * 4 + r = raw[1]
      BY <2>1
    <3>2. q.Route = r /\ q.Type = t
      BY <2>2
    <3> HIDE DEF r, t
    <3>3. QED
      BY <3>1, <3>2
  <2>4. HeaderByte(q) = 0 * 64 + q.Type * 4 + q.Route
    BY <2>2 DEF HeaderByte
  <2>5. QED
    BY <2>3, <2>4
<1>10. PathLenByte(q) = raw[at]
  <2>1. (raw[at] \div 64) * 64 + (raw[at] % 64) = raw[at]
    BY <1>5, ByteJoin
  <2>2. raw[at] \div 64 \in 0 .. 3
    BY <1>5, ByteSplit
  <2>3. q.PathHashSize = raw[at] \div 64 + 1
    BY <1>3 DEF HashSizeOf
  <2>4. q.PathHashSize - 1 = raw[at] \div 64
    BY <2>2, <2>3
  <2>5. PathLenByte(q) = (q.PathHashSize - 1) * 64 + HopCount(q)
    BY DEF PathLenByte
  <2>6. HopCount(q) = raw[at] % 64
    BY <1>2
  <2>7. PathLenByte(q) = (raw[at] \div 64) * 64 + (raw[at] % 64)
    BY <2>4, <2>5, <2>6
  <2>8. QED
    BY <2>1, <2>7
<1>11. \A i \in 1 .. Len(c) : c[i] = raw[1 + i]
  <2>1. CASE IsTransport(q.Route)
    <3>1. at = 6 /\ 6 <= Len(raw)
      BY <1>5, <1>7, <1>8, <2>1
    <3>2. raw[2] \in Byte /\ raw[3] \in Byte /\ raw[4] \in Byte /\ raw[5] \in Byte
      BY <1>5, <3>1
    <3>3. q.TransportCodes = <<raw[2] + 256 * raw[3], raw[4] + 256 * raw[5]>>
      BY <1>3, <2>1 DEF CodesOf, Uint16At
    <3>4. q.TransportCodes[1] = raw[2] + 256 * raw[3]
      BY <3>3
    <3>5. q.TransportCodes[2] = raw[4] + 256 * raw[5]
      BY <3>3
    <3>6. /\ (raw[2] + 256 * raw[3]) % 256 = raw[2]
          /\ (raw[2] + 256 * raw[3]) \div 256 = raw[3]
          /\ (raw[4] + 256 * raw[5]) % 256 = raw[4]
          /\ (raw[4] + 256 * raw[5]) \div 256 = raw[5]
      BY <3>2, JoinedBytes
    <3>7. c = <<raw[2], raw[3], raw[4], raw[5]>>
      BY <2>1, <3>4, <3>5, <3>6 DEF CodeBytes, LittleEndian
    <3>8. QED
      BY <3>7
  <2>2. CASE ~IsTransport(q.Route)
    BY <1>7, <2>2
  <2>3. QED
    BY <2>1, <2>2
<1> HIDE DEF c, at, m
<1>12. f = raw
  <2> DEFINE k == Len(c)
             n == Len(q.Payload)
  <2>1. k \in Nat /\ n \in Nat
    BY <1>4, <1>7
  <2>2. Len(f) = k + 2 + m + n
    BY <1>4, <1>6
  <2>3. n = Len(raw) - at - m /\ at = k + 2
    BY <1>4, <1>8
  <2>4. f[1] = raw[1] /\ f[k + 2] = raw[k + 2]
    BY <1>6, <1>8, <1>9, <1>10
  <2>5. \A i \in 1 .. k : f[1 + i] = raw[1 + i]
    BY <1>6, <1>11
  <2>6. /\ \A i \in 1 .. m : f[k + 2 + i] = raw[k + 2 + i]
        /\ \A i \in 1 .. n : f[k + 2 + m + i] = raw[k + 2 + m + i]
    BY <1>4, <1>6, <1>8
  <2>7. f \in Seq(Byte)
    BY <1>6
  <2> HIDE DEF k, n
  <2>8. Len(raw) = k + 2 + m + n
    BY <1>5, <2>1, <2>3
  <2>9. m \in Nat
    BY <1>5
  <2>10. Agree(f, raw, k, m, n)
    BY <2>2, <2>4, <2>5, <2>6, <2>8 DEF Agree
  <2>11. QED
    BY <2>1, <2>7, <2>9, <2>10, SameParts
<1>13. WithDefaultHashSize(q) = q
  <2>1. q.PathHashSize # 0
    BY <1>2, WireFacts
  <2>2. QED
    BY <2>1 DEF WithDefaultHashSize
<1>14. EncodePacket(q) = [err |-> Nil, frame |-> f]
  BY <1>2, <1>13 DEF EncodePacket, f
<1>15. QED
  BY <1>1, <1>12, <1>14
-----------------------------------------------------------------------------
(* A path that divides into hops, its hops, and those of a longer path.    *)
IsPathOf(p) ==
  /\ p.Path \in Seq(Byte)
  /\ p.PathHashSize \in 1 .. 3
  /\ Len(p.Path) % p.PathHashSize = 0

LEMMA WireIsPath ==
  ASSUME NEW p \in Packet, ValidateWire(p) = Nil
  PROVE  IsPathOf(p)
BY WireFacts DEF IsPathOf, Packet

LEMMA HopsOfWhole ==
  ASSUME NEW p, IsPathOf(p)
  PROVE  /\ HopCount(p) \in Nat
         /\ HopCount(p) * p.PathHashSize = Len(p.Path)
<1>1. Len(p.Path) \in Nat /\ p.PathHashSize \in 1 .. 3 /\ Len(p.Path) % p.PathHashSize = 0
  BY DEF IsPathOf
<1>2. HopCount(p) = Len(p.Path) \div p.PathHashSize
  BY <1>1 DEF HopCount
<1>3. QED
  BY <1>1, <1>2, EvenDivision, QuotientBound

(* Arithmetic of one more hop. *)
LEMMA OneMoreMultiple ==
  ASSUME NEW x \in Nat, NEW s \in 1 .. 3, x % s = 0
  PROVE  /\ (x + s) % s = 0
         /\ (x + s) \div s = (x \div s) + 1
<1>1. s = 1 \/ s = 2 \/ s = 3
  OBVIOUS
<1>2. CASE s = 2
  BY <1>2
<1>3. CASE s = 3
  BY <1>3
<1>4. QED
  BY <1>1, <1>2, <1>3

LEMMA PlaceOfHop ==
  ASSUME NEW s \in 1 .. 3, NEW c \in Nat, NEW i \in 1 .. c
  PROVE  /\ (i - 1) * s \in Nat
         /\ (i - 1) * s + s = i * s
         /\ (i - 1) * s + s <= c * s
<1>1. s = 1 \/ s = 2 \/ s = 3
  OBVIOUS
<1>2. CASE s = 1
  BY <1>2
<1>3. CASE s = 2
  BY <1>3
<1>4. CASE s = 3
  BY <1>4
<1>5. QED
  BY <1>1, <1>2, <1>3, <1>4

LEMMA HopsOfPath ==
  ASSUME NEW p, IsPathOf(p)
  PROVE  /\ Hops(p) \in Seq(Seq(Byte))
         /\ Len(Hops(p)) = HopCount(p)
         /\ HopCount(p) \in Nat
         /\ \A i \in 1 .. HopCount(p) :
              LET at == (i - 1) * p.PathHashSize
              IN  /\ at \in Nat
                  /\ at + p.PathHashSize <= Len(p.Path)
                  /\ Hops(p)[i] = SubSeq(p.Path, at + 1, at + p.PathHashSize)
<1> DEFINE s == p.PathHashSize
           c == HopCount(p)
           slice(i) == SubSeq(p.Path, (i - 1) * s + 1, i * s)
<1>1. /\ s \in 1 .. 3
      /\ Len(p.Path) % s = 0
      /\ p.Path \in Seq(Byte) /\ Len(p.Path) \in Nat
  BY DEF IsPathOf
<1>2. c \in Nat /\ c * s = Len(p.Path)
  BY <1>1, HopsOfWhole
<1>3. Hops(p) = [i \in 1 .. c |-> slice(i)]
  BY <1>1 DEF Hops
<1> HIDE DEF s, c
<1>4. ASSUME NEW i \in 1 .. c
      PROVE  /\ (i - 1) * s \in Nat
             /\ (i - 1) * s + s <= Len(p.Path)
             /\ slice(i) = SubSeq(p.Path, (i - 1) * s + 1, (i - 1) * s + s)
             /\ slice(i) \in Seq(Byte)
  <2> DEFINE at == (i - 1) * s
  <2>1. at \in Nat /\ at + s = i * s /\ at + s <= c * s
    BY <1>1, <1>2, PlaceOfHop
  <2>2. at + s <= Len(p.Path)
    BY <1>2, <2>1
  <2>3. slice(i) = SubSeq(p.Path, at + 1, at + s)
    BY <2>1
  <2> HIDE DEF at
  <2>4. SubSeq(p.Path, at + 1, at + s) \in Seq(Byte)
    <3>1. s \in Nat
      BY <1>1
    <3>2. QED
      BY <1>1, <2>1, <2>2, <3>1, Slice
  <2>5. QED
    BY <2>1, <2>2, <2>3, <2>4 DEF at
<1>5. \A i \in 1 .. c : slice(i) \in Seq(Byte)
  BY <1>4
<1> HIDE DEF slice
<1>6. c \in Nat
  BY <1>2
<1>7. Hops(p) \in Seq(Seq(Byte)) /\ Len(Hops(p)) = c
  BY <1>3, <1>5, <1>6
<1>8. \A i \in 1 .. c : Hops(p)[i] = slice(i)
  BY <1>3
<1>9. QED
  BY <1>4, <1>6, <1>7, <1>8 DEF s, c

(* Hops looks at the path and the hash size only. *)
LEMMA HopsOfSamePath ==
  ASSUME NEW p, NEW q, p.Path = q.Path, p.PathHashSize = q.PathHashSize
  PROVE  Hops(p) = Hops(q) /\ HopCount(p) = HopCount(q)
BY DEF Hops, HopCount

LEMMA HopsOfLongerPath ==
  ASSUME NEW p, IsPathOf(p), NEW h \in Seq(Byte), Len(h) = p.PathHashSize,
         NEW q, q.PathHashSize = p.PathHashSize, q.Path = p.Path \o h
  PROVE  /\ IsPathOf(q)
         /\ HopCount(q) = HopCount(p) + 1
         /\ Hops(q) = Append(Hops(p), h)
<1> DEFINE s == p.PathHashSize
           c == HopCount(p)
           long == q.Path
<1>1. s \in 1 .. 3 /\ p.Path \in Seq(Byte) /\ Len(p.Path) \in Nat /\ Len(p.Path) % s = 0
  BY DEF IsPathOf
<1>2. h \in Seq(Byte) /\ Len(h) = s
  OBVIOUS
<1>3. /\ q.PathHashSize = s
      /\ q.Path = p.Path \o h
      /\ HopCount(q) = c + 1
      /\ IsPathOf(q)
  <2>1. q.Path \in Seq(Byte) /\ Len(q.Path) = Len(p.Path) + s
    BY <1>1, <1>2, TwoParts
  <2>2. /\ (Len(p.Path) + s) % s = 0
        /\ (Len(p.Path) + s) \div s = (Len(p.Path) \div s) + 1
    BY <1>1, OneMoreMultiple
  <2>3. ~ (s <= 0)
    BY <1>1
  <2>4. IsPathOf(q)
    BY <1>1, <2>1, <2>2 DEF IsPathOf
  <2>5. HopCount(p) = Len(p.Path) \div s /\ HopCount(q) = Len(q.Path) \div s
    BY <2>3 DEF HopCount
  <2>6. QED
    BY <2>1, <2>2, <2>4, <2>5
<1>4. c * s = Len(p.Path)
  BY HopsOfWhole
<1>5. /\ Hops(p) \in Seq(Seq(Byte)) /\ Len(Hops(p)) = c /\ c \in Nat
      /\ \A i \in 1 .. c : LET at == (i - 1) * s
                           IN  /\ at \in Nat
                               /\ at + s <= Len(p.Path)
                               /\ Hops(p)[i] = SubSeq(p.Path, at + 1, at + s)
  BY HopsOfPath
<1>6. /\ Hops(q) \in Seq(Seq(Byte)) /\ Len(Hops(q)) = HopCount(q)
      /\ \A i \in 1 .. HopCount(q) :
           LET at == (i - 1) * q.PathHashSize
           IN  /\ at \in Nat
               /\ at + q.PathHashSize <= Len(long)
               /\ Hops(q)[i] = SubSeq(long, at + 1, at + q.PathHashSize)
  BY <1>3, HopsOfPath
<1> HIDE DEF s, c
<1>7. /\ long \in Seq(Byte)
      /\ Len(long) = Len(p.Path) + s
      /\ \A i \in 1 .. Len(p.Path) : long[i] = p.Path[i]
      /\ \A i \in 1 .. s : long[Len(p.Path) + i] = h[i]
  BY <1>3, <1>1, <1>2, TwoParts
<1> HIDE DEF long
<1>8. ASSUME NEW i \in 1 .. c
      PROVE  Hops(q)[i] = Hops(p)[i]
  <2> DEFINE at == (i - 1) * s
  <2>1. at \in Nat /\ at + s <= Len(p.Path) /\ Hops(p)[i] = SubSeq(p.Path, at + 1, at + s)
    BY <1>5
  <2>2. i \in 1 .. HopCount(q)
    BY <1>3, <1>5
  <2>3. Hops(q)[i] = SubSeq(long, at + 1, at + s)
    BY <1>3, <1>6, <2>2
  <2> HIDE DEF at
  <2> DEFINE a == SubSeq(p.Path, at + 1, at + s)
             b == SubSeq(long, at + 1, at + s)
  <2>4. s \in Nat /\ at \in Nat /\ at + s <= Len(long)
    BY <1>1, <1>7, <2>1
  <2>5. long \in Seq(Byte)
    BY <1>7
  <2>6. a \in Seq(Byte) /\ Len(a) = s /\ \A j \in 1 .. s : a[j] = p.Path[at + j]
    BY <1>1, <2>1, <2>4, Slice
  <2>7. b \in Seq(Byte) /\ Len(b) = s /\ \A j \in 1 .. s : b[j] = long[at + j]
    BY <2>4, <2>5, Slice
  <2>8. \A j \in 1 .. s : at + j \in 1 .. Len(p.Path)
    BY <1>1, <2>1, <2>4
  <2> HIDE DEF a, b
  <2>9. \A j \in 1 .. Len(a) : a[j] = b[j]
    BY <1>7, <2>6, <2>7, <2>8
  <2>10. a = b
    BY <2>6, <2>7, <2>9, SeqEqual
  <2>11. QED
    BY <2>1, <2>3, <2>10 DEF a, b
<1>9. ASSUME NEW last, last = c + 1
       PROVE  Hops(q)[last] = h
  <2> DEFINE at == (last - 1) * s
             b  == SubSeq(long, at + 1, at + s)
  <2>1. last \in 1 .. HopCount(q) /\ q.PathHashSize = s
    BY <1>3, <1>5, <1>9
  <2>2. Hops(q)[last] = b
    BY <1>6, <2>1, Zenon
  <2>3. last - 1 = c
    BY <1>5, <1>9
  <2>4. at = Len(p.Path)
    BY <1>4, <2>3 DEF c, s
  <2> HIDE DEF at
  <2>5. at \in Nat /\ s \in Nat /\ at + s <= Len(long)
    BY <1>1, <1>7, <2>4
  <2>6. b \in Seq(Byte) /\ Len(b) = s /\ \A j \in 1 .. s : b[j] = long[at + j]
    BY <1>7, <2>5, Slice
  <2> HIDE DEF b
  <2>7. \A j \in 1 .. Len(b) : b[j] = h[j]
    BY <1>7, <2>4, <2>6
  <2>8. b = h
    BY <1>2, <2>6, <2>7, SeqEqual
  <2>9. QED
    BY <2>2, <2>8
<1> DEFINE all == Append(Hops(p), h)
<1>10. /\ all \in Seq(Seq(Byte)) /\ Len(all) = c + 1
       /\ \A i \in 1 .. c : all[i] = Hops(p)[i]
       /\ all[c + 1] = h
  BY <1>2, <1>5, AppendProperties
<1> HIDE DEF all
<1>11. \A i \in 1 .. Len(Hops(q)) : Hops(q)[i] = all[i]
  <2>1. \A i \in 1 .. Len(Hops(q)) : i \in 1 .. c \/ i = c + 1
    BY <1>3, <1>5, <1>6
  <2>2. QED
    BY <1>8, <1>9, <1>10, <2>1
<1>12. Hops(q) = all
  BY <1>3, <1>6, <1>10, <1>11, SeqEqual
<1>13. QED
  BY <1>3, <1>12 DEF all, c
-----------------------------------------------------------------------------

(* What is written into a plaintext and read out of it again. *)
LEMMA Uint32Written ==
  ASSUME NEW n \in Word
  PROVE  \E b0 \in Byte, b1 \in Byte, b2 \in Byte, b3 \in Byte :
           /\ Uint32Bytes(n) = <<b0, b1, b2, b3>>
           /\ b0 + 256 * b1 + 65536 * b2 + 16777216 * b3 = n
<1>1. n \in Nat /\ n \div 16777216 < 256
  BY SMT DEF Word
<1>2. n \in Int
  BY <1>1
<1>3. PICK b0 \in Digit, b1 \in Digit, b2 \in Digit, q \in Int :
        /\ n = b0 + 256 * b1 + 65536 * b2 + 16777216 * q
        /\ n % 256 = b0
        /\ (n \div 256) % 256 = b1
        /\ (n \div 65536) % 256 = b2
        /\ n \div 16777216 = q
  BY <1>2, FourDigits
<1>4. q \in 0 .. 255 /\ q % 256 = q
  BY <1>1, <1>3, SMT DEF Digit
<1>5. b0 \in Byte /\ b1 \in Byte /\ b2 \in Byte /\ q \in Byte
  BY <1>3, <1>4 DEF Digit, Byte
<1>6. Uint32Bytes(n) = <<b0, b1, b2, q>>
  BY <1>3, <1>4, SMT DEF Uint32Bytes
<1>7. QED
  BY <1>3, <1>5, <1>6, SMT

LEMMA FlagsWritten ==
  ASSUME NEW txtType \in Byte, NEW attempt \in Nat
  PROVE  /\ Flags(txtType, attempt) \in Byte
         /\ Flags(txtType, attempt) \div 4 = txtType % 64
         /\ Flags(txtType, attempt) % 4 = attempt % 4
<1> DEFINE t == txtType % 64
           a == attempt % 4
<1>1. txtType \in Nat /\ txtType =< 255
  BY DEF Byte
<1>2. (txtType * 4) % 256 = 4 * t /\ t \in 0 .. 63 /\ a \in 0 .. 3
  BY <1>1
<1>3. Flags(txtType, attempt) = 4 * t + a
  BY <1>2 DEF Flags
<1> HIDE DEF t, a
<1>4. 4 * t + a \in 0 .. 255 /\ (4 * t + a) \div 4 = t /\ (4 * t + a) % 4 = a
  BY <1>2
<1>5. QED
  BY <1>3, <1>4 DEF t, a, Byte

LEMMA ZerosFacts ==
  ASSUME NEW n \in Nat
  PROVE  /\ Zeros(n) \in Seq(Byte)
         /\ Len(Zeros(n)) = n
         /\ \A i \in 1 .. n : Zeros(n)[i] = 0
BY DEF Zeros, Byte

(* The last character that is no NUL is the same before and behind it.     *)
IsLast(text, n) ==
  /\ n = 0 \/ text[n] # 0
  /\ \A i \in n + 1 .. Len(text) : text[i] = 0

LEMMA LastExists ==
  ASSUME NEW text \in Seq(Byte)
  PROVE  \E n \in 0 .. Len(text) : IsLast(text, n)
<1> DEFINE T == {n \in 0 .. Len(text) : n = 0 \/ text[n] # 0}
<1>1. Len(text) \in Nat
  OBVIOUS
<1>2. T \subseteq 0 .. Len(text) /\ 0 \in T
  BY <1>1
<1>3. PICK n \in T : \A y \in T : n >= y
  BY <1>1, <1>2, HasGreatest
<1>4. n \in 0 .. Len(text) /\ (n = 0 \/ text[n] # 0)
  OBVIOUS
<1>5. ASSUME NEW i \in n + 1 .. Len(text) PROVE text[i] = 0
  <2>1. SUFFICES ASSUME text[i] # 0 PROVE FALSE
    OBVIOUS
  <2>2. i \in T
    BY <1>1, <1>4, <2>1
  <2>3. QED
    BY <1>1, <1>3, <1>4, <2>2
<1>6. QED
  BY <1>4, <1>5 DEF IsLast

LEMMA TrimmedAt ==
  ASSUME NEW text \in Seq(Byte), NEW n \in 0 .. Len(text), IsLast(text, n)
  PROVE  TrimNuls(text) = SubSeq(text, 1, n)
<1> DEFINE last == CHOOSE m \in 0 .. Len(text) : IsLast(text, m)
<1>1. last \in 0 .. Len(text) /\ IsLast(text, last)
  BY LastExists
<1>2. TrimNuls(text) = SubSeq(text, 1, last)
  BY DEF TrimNuls, IsLast
<1> HIDE DEF last
<1>3. ~ (n < last)
  BY <1>1 DEF IsLast
<1>4. ~ (last < n)
  BY <1>1 DEF IsLast
<1>5. n = last
  BY <1>1, <1>3, <1>4
<1>6. QED
  BY <1>2, <1>5

LEMMA TrimPadded ==
  ASSUME NEW text \in Seq(Byte), NEW k \in Nat
  PROVE  TrimNuls(text \o Zeros(k)) = TrimNuls(text)
<1> DEFINE z    == Zeros(k)
           long == text \o z
<1>1. PICK n \in 0 .. Len(text) : IsLast(text, n)
  BY LastExists
<1>2. Len(text) \in Nat /\ n \in Nat
  OBVIOUS
<1>3. /\ long \in Seq(Byte)
      /\ Len(long) = Len(text) + k
      /\ \A i \in 1 .. Len(text) : long[i] = text[i]
      /\ \A i \in 1 .. k : long[Len(text) + i] = 0
  <2>1. z \in Seq(Byte) /\ Len(z) = k /\ \A i \in 1 .. k : z[i] = 0
    BY ZerosFacts
  <2> HIDE DEF z
  <2>2. /\ long \in Seq(Byte) /\ Len(long) = Len(text) + Len(z)
        /\ \A i \in 1 .. Len(text) : long[i] = text[i]
        /\ \A i \in 1 .. Len(z) : long[Len(text) + i] = z[i]
    <3>1. z \in Seq(Byte)
      BY <2>1
    <3>2. QED
      BY <3>1, TwoParts
  <2>3. QED
    BY <2>1, <2>2
<1> HIDE DEF long
<1>4. n = 0 \/ long[n] # 0
  BY <1>1, <1>3 DEF IsLast
<1>5. ASSUME NEW i \in n + 1 .. Len(long) PROVE long[i] = 0
  <2>1. CASE i <= Len(text)
    BY <1>1, <1>2, <1>3, <2>1 DEF IsLast
  <2>2. CASE i > Len(text)
    <3> DEFINE j == i - Len(text)
    <3>1. j \in 1 .. k /\ Len(text) + j = i
      BY <1>2, <1>3, <2>2
    <3>2. QED
      BY <1>3, <3>1
  <2>3. QED
    BY <1>2, <2>1, <2>2
<1>6. n \in 0 .. Len(long)
  BY <1>2, <1>3
<1>7. TrimNuls(long) = SubSeq(long, 1, n)
  BY <1>3, <1>4, <1>5, <1>6, TrimmedAt DEF IsLast
<1>8. TrimNuls(text) = SubSeq(text, 1, n)
  BY <1>1, TrimmedAt
<1>9. SubSeq(long, 1, n) = SubSeq(text, 1, n)
  <2> DEFINE a == SubSeq(long, 1, n)
             b == SubSeq(text, 1, n)
  <2>1. a \in Seq(Byte) /\ Len(a) = n /\ \A i \in 1 .. n : a[i] = long[i]
    BY <1>3, <1>6, BeginningFacts
  <2>2. b \in Seq(Byte) /\ Len(b) = n /\ \A i \in 1 .. n : b[i] = text[i]
    BY BeginningFacts
  <2> HIDE DEF a, b
  <2>3. \A i \in 1 .. Len(a) : a[i] = b[i]
    BY <1>2, <1>3, <2>1, <2>2
  <2>4. a = b
    BY <2>1, <2>2, <2>3, SeqEqual
  <2>5. QED
    BY <2>4 DEF a, b
<1>10. QED
  BY <1>7, <1>8, <1>9 DEF long

-----------------------------------------------------------------------------
(* A sealed payload, padded to whole blocks, and what is read out of it.   *)
LEMMA PaddedFacts ==
  ASSUME NEW S, Byte \subseteq S, NEW plain \in Seq(S)
  PROVE  \E z \in Seq(Byte) :
           /\ Len(z) <= 15
           /\ z = Zeros(Len(z))
           /\ Padded(plain) = plain \o z
           /\ Padded(plain) \in Seq(S)
           /\ Len(Padded(plain)) = Len(plain) + Len(z)
<1> DEFINE k == (BlockSize - (Len(plain) % BlockSize)) % BlockSize
           z == Zeros(k)
<1>1. Len(plain) \in Nat
  OBVIOUS
<1>2. k \in Nat /\ k <= 15
  BY <1>1 DEF BlockSize
<1>3. Padded(plain) = plain \o z
  BY DEF Padded
<1> HIDE DEF k
<1>4. z \in Seq(Byte) /\ Len(z) = k
  BY <1>2, ZerosFacts
<1>5. z = Zeros(Len(z))
  BY <1>4
<1> HIDE DEF z
<1>6. z \in Seq(S)
  BY <1>4
<1>7. plain \o z \in Seq(S) /\ Len(plain \o z) = Len(plain) + Len(z)
  BY <1>6, TwoParts
<1>8. QED
  BY <1>2, <1>3, <1>4, <1>5, <1>7

LEMMA TextIsRead ==
  ASSUME NEW secret, NEW dest, NEW src, NEW text \in Seq(Byte), NEW ts \in Word,
         NEW txtType \in Byte, NEW attempt \in Nat
  PROVE  LET sealed == DirectTextPayload(secret, dest, src, text, ts, txtType, attempt)
         IN  /\ DirectText(sealed) =
                  [DestHash |-> dest, SrcHash |-> src, Timestamp |-> ts,
                   TxtType |-> txtType % 64, Attempt |-> attempt % 4,
                   Text |-> TrimNuls(text)]
             /\ Len(sealed.plain) \in Nat
<1> DEFINE f      == Flags(txtType, attempt)
           sealed == DirectTextPayload(secret, dest, src, text, ts, txtType, attempt)
           all    == sealed.plain
<1>1. f \in Byte /\ f \div 4 = txtType % 64 /\ f % 4 = attempt % 4
  BY FlagsWritten
<1>2. PICK b0 \in Byte, b1 \in Byte, b2 \in Byte, b3 \in Byte :
        /\ Uint32Bytes(ts) = <<b0, b1, b2, b3>>
        /\ b0 + 256 * b1 + 65536 * b2 + 16777216 * b3 = ts
  BY Uint32Written
<1> DEFINE u    == <<b0, b1, b2, b3>>
           head == u \o <<f>>
           plain == head \o text
<1>3. sealed.dest = dest /\ sealed.src = src /\ all = Padded(plain)
  BY <1>2 DEF DirectTextPayload, DirectTextPlaintext, Seal
<1> HIDE DEF f, sealed
<1>4. /\ head \in Seq(Byte) /\ Len(head) = 5
      /\ head[1] = b0 /\ head[2] = b1 /\ head[3] = b2 /\ head[4] = b3 /\ head[5] = f
  <2>1. u \in Seq(Byte) /\ Len(u) = 4 /\ u[1] = b0 /\ u[2] = b1 /\ u[3] = b2 /\ u[4] = b3
    OBVIOUS
  <2> DEFINE g == <<f>>
  <2>2. g \in Seq(Byte) /\ Len(g) = 1 /\ g[1] = f
    BY <1>1
  <2>3. head = u \o g
    OBVIOUS
  <2> HIDE DEF u, g, head
  <2>4. u \in Seq(Byte) /\ g \in Seq(Byte)
    BY <2>1, <2>2
  <2>5. /\ u \o g \in Seq(Byte) /\ Len(u \o g) = Len(u) + Len(g)
        /\ \A i \in 1 .. Len(u) : (u \o g)[i] = u[i]
        /\ \A i \in 1 .. Len(g) : (u \o g)[Len(u) + i] = g[i]
    BY <2>4, TwoParts
  <2>6. head[4 + 1] = f
    BY <2>1, <2>2, <2>3, <2>5
  <2>7. QED
    BY <2>1, <2>2, <2>3, <2>5, <2>6
<1> HIDE DEF head, all
<1>5. plain \in Seq(Byte)
  BY <1>4, TwoParts
<1> HIDE DEF plain
<1>6. PICK z \in Seq(Byte) : z = Zeros(Len(z)) /\ Padded(plain) = plain \o z
  BY <1>5, PaddedFacts
<1> DEFINE rest == text \o z
<1>7. all = head \o rest
  <2>1. plain \o z = head \o rest
    BY <1>4, ConcatAssociative DEF plain
  <2>2. QED
    BY <1>3, <1>6, <2>1
<1>8. rest \in Seq(Byte)
  BY TwoParts
<1>9. Len(z) \in Nat
  OBVIOUS
<1>10. TrimNuls(rest) = TrimNuls(text)
  BY <1>6, <1>9, TrimPadded
<1> HIDE DEF rest
<1>11. Len(all) = 5 + Len(rest) /\ \A i \in 1 .. 5 : all[i] = head[i]
  <2>1. head \in Seq(Byte)
    BY <1>4
  <2>2. /\ Len(head \o rest) = Len(head) + Len(rest)
        /\ \A i \in 1 .. Len(head) : (head \o rest)[i] = head[i]
    BY <1>8, <2>1, TwoParts
  <2>3. QED
    BY <1>4, <1>7, <2>2
<1>12. SubSeq(all, 6, Len(all)) = rest
  <2>1. SubSeq(head \o rest, 5 + 1, 5 + Len(rest)) = rest
    BY <1>4, <1>8, SecondPart
  <2>2. 5 + 1 = 6
    OBVIOUS
  <2>3. QED
    BY <1>7, <1>11, <2>1, <2>2
<1>13. Uint32At(all, 1) = ts
  <2>1. all[1] = b0 /\ all[1 + 1] = b1 /\ all[1 + 2] = b2 /\ all[1 + 3] = b3
    BY <1>4, <1>11
  <2>2. QED
    BY <1>2, <2>1, SMT DEF Uint32At
<1>14. all[5] = f
  BY <1>4, <1>11
<1>15. DirectText(sealed) =
         [DestHash  |-> sealed.dest, SrcHash |-> sealed.src,
          Timestamp |-> Uint32At(all, 1), TxtType |-> all[5] \div 4,
          Attempt   |-> all[5] % 4, Text |-> TrimNuls(SubSeq(all, 6, Len(all)))]
  BY Zenon DEF DirectText, all
<1>16. DirectText(sealed) =
         [DestHash |-> dest, SrcHash |-> src, Timestamp |-> ts,
          TxtType |-> f \div 4, Attempt |-> f % 4, Text |-> TrimNuls(text)]
  BY <1>3, <1>10, <1>12, <1>13, <1>14, <1>15, Zenon
<1>17. Len(sealed.plain) \in Nat
  BY <1>8, <1>11 DEF all
<1>18. QED
  BY <1>1, <1>16, <1>17, Zenon DEF sealed

(* What follows the path in the plaintext of PathPlaintext. *)
AfterPath(extraType, extra) ==
  IF extra # << >> THEN <<extraType>> \o extra ELSE <<255, 0, 0, 0, 0>>

LEMMA AfterPathFacts ==
  ASSUME NEW S, Byte \subseteq S, NEW extraType \in Byte, NEW extra \in Seq(S)
  PROVE  LET t == AfterPath(extraType, extra)
         IN  /\ t \in Seq(S)
             /\ Len(t) >= 1
             /\ Len(extra) <= 6 => Len(t) <= 7
             /\ t[1] = IF extra # << >> THEN extraType ELSE 255
<1> DEFINE t == AfterPath(extraType, extra)
           a == <<extraType>>
           e == <<255, 0, 0, 0, 0>>
<1>1. Len(extra) \in Nat /\ extraType \in S
  OBVIOUS
<1>2. a \in Seq(S) /\ Len(a) = 1 /\ a[1] = extraType
  BY <1>1
<1>3. CASE extra # << >>
  <2>1. t = a \o extra
    BY <1>3 DEF AfterPath
  <2> HIDE DEF a, t
  <2>2. a \in Seq(S)
    BY <1>2
  <2>3. /\ a \o extra \in Seq(S)
        /\ Len(a \o extra) = Len(a) + Len(extra)
        /\ \A i \in 1 .. Len(a) : (a \o extra)[i] = a[i]
    BY <2>2, TwoParts
  <2>4. t \in Seq(S) /\ Len(t) = 1 + Len(extra) /\ t[1] = extraType
    BY <1>2, <2>1, <2>3
  <2>5. QED
    BY <1>1, <1>3, <2>4 DEF t
<1>4. CASE extra = << >>
  <2>1. t = e
    BY <1>4 DEF AfterPath
  <2>2. 255 \in S /\ 0 \in S
    BY DEF Byte
  <2>3. e \in Seq(S) /\ Len(e) = 5 /\ e[1] = 255
    BY <2>2
  <2> HIDE DEF e, t
  <2>4. t \in Seq(S) /\ Len(t) = 5 /\ t[1] = 255
    BY <2>1, <2>3
  <2>5. 5 >= 1 /\ 5 <= 7
    OBVIOUS
  <2>6. QED
    BY <1>4, <2>4, <2>5, Zenon DEF t
<1>5. QED
  BY <1>3, <1>4

ReadsBack(sealed, p, extraType, extra) ==
  LET r == ReturnedPath(sealed)
  IN  /\ r.Path = p.Path
      /\ r.ExtraType = IF extra # << >> THEN extraType ELSE 255
      /\ extra # << >> => \E z \in Seq(Byte) : r.Extra = extra \o z
      /\ Len(sealed.plain) \in Nat
      /\ Len(sealed.plain) <= Len(p.Path) + 23

LEMMA PathIsRead ==
  ASSUME NEW S, Byte \subseteq S, NEW secret, NEW dest, NEW src,
         NEW p, IsPathOf(p), HopCount(p) <= MaxHopCount,
         NEW extraType \in Byte, NEW extra \in Seq(S), Len(extra) <= 6
  PROVE  ReadsBack(Seal(secret, dest, src,
                        PathPlaintext(p.Path, p.PathHashSize, extraType, extra)),
                   p, extraType, extra)
<1> DEFINE path   == p.Path
           size   == p.PathHashSize
           c      == HopCount(p)
           b      == (size - 1) * 64 + c
           t      == AfterPath(extraType, extra)
           sealed == Seal(secret, dest, src, PathPlaintext(path, size, extraType, extra))
           all    == sealed.plain
           first  == <<b>>
           head   == first \o path
           plain  == head \o t
           r      == ReturnedPath(sealed)
<1>1. /\ path \in Seq(Byte) /\ size \in 1 .. 3 /\ Len(path) \in Nat
      /\ c \in 0 .. 63 /\ c * size = Len(path) /\ c = Len(path) \div size
  <2>1. path \in Seq(Byte) /\ size \in 1 .. 3 /\ Len(path) \in Nat
    BY DEF IsPathOf
  <2>2. c \in Nat /\ c * size = Len(path) /\ c <= 63
    BY HopsOfWhole DEF MaxHopCount
  <2>3. c = Len(path) \div size
    BY <2>1 DEF HopCount
  <2> HIDE DEF path, size, c
  <2>4. c \in Nat /\ c <= 63
    BY <2>2
  <2>5. c \in 0 .. 63
    BY <2>4
  <2>6. QED
    BY <2>1, <2>2, <2>3, <2>5, Zenon
<1>2. b \in Byte /\ b \div 64 = size - 1 /\ b % 64 = c
  <2>1. size - 1 \in 0 .. 3
    BY <1>1
  <2>2. QED
    BY <1>1, <2>1, TwoFieldByte
<1>3. sealed.dest = dest /\ sealed.src = src /\ all = Padded(plain)
  <2>1. PathPlaintext(path, size, extraType, extra) = plain
    BY <1>1 DEF PathPlaintext, AfterPath
  <2>2. QED
    BY <2>1 DEF Seal
<1>4. t \in Seq(S) /\ Len(t) >= 1 /\ Len(t) <= 7
      /\ t[1] = IF extra # << >> THEN extraType ELSE 255
  BY AfterPathFacts
<1>5. first \in Seq(Byte) /\ Len(first) = 1 /\ first[1] = b
  BY <1>2
<1>6. path \in Seq(S) /\ first \in Seq(S)
  BY <1>1, <1>5
<1>7. Len(t) \in Nat /\ Len(extra) \in Nat
  BY <1>4
<1> HIDE DEF path, size, c, b, t, sealed, all, first
<1>8. t \in Seq(S)
  BY <1>4
<1>9. /\ head \in Seq(S) /\ Len(head) = Len(first) + Len(path)
      /\ \A i \in 1 .. Len(first) : head[i] = first[i]
  BY <1>6, TwoParts
<1>10. Len(head) = 1 + Len(path) /\ head[1] = b
  BY <1>5, <1>9
<1> HIDE DEF head
<1>11. head \in Seq(S)
  BY <1>9
<1>12. plain \in Seq(S) /\ Len(plain) = Len(head) + Len(t)
  BY <1>8, <1>11, TwoParts
<1> HIDE DEF plain
<1>13. plain \in Seq(S)
  BY <1>12
<1>14. PICK z \in Seq(Byte) :
         /\ Len(z) <= 15 /\ Padded(plain) = plain \o z
         /\ Len(Padded(plain)) = Len(plain) + Len(z)
  BY <1>13, PaddedFacts
<1>15. z \in Seq(S) /\ Len(z) \in Nat
  OBVIOUS
<1> DEFINE rest == t \o z
           tail == path \o rest
<1>16. /\ rest \in Seq(S) /\ Len(rest) = Len(t) + Len(z)
       /\ \A i \in 1 .. Len(t) : rest[i] = t[i]
  BY <1>8, <1>15, TwoParts, Zenon
<1>17. rest[1] = t[1] /\ Len(rest) \in Nat /\ Len(rest) >= 1
  BY <1>4, <1>7, <1>15, <1>16
<1>18. all = head \o rest
  <2>1. plain \o z = head \o rest
    BY <1>8, <1>11, <1>15, ConcatAssociative DEF plain
  <2>2. QED
    BY <1>3, <1>14, <2>1
<1> HIDE DEF rest
<1>19. rest \in Seq(S)
  BY <1>16
<1>20. all = first \o tail
  <2>1. head \o rest = first \o tail
    BY <1>6, <1>19, ConcatAssociative DEF head
  <2>2. QED
    BY <1>18, <2>1
<1>21. /\ Len(head \o rest) = Len(head) + Len(rest)
       /\ \A i \in 1 .. Len(head) : (head \o rest)[i] = head[i]
       /\ \A i \in 1 .. Len(rest) : (head \o rest)[Len(head) + i] = rest[i]
  BY <1>11, <1>19, TwoParts
<1>22. /\ Len(all) = Len(path) + 1 + Len(rest)
       /\ all[1] = b
       /\ all[Len(path) + 2] = t[1]
  <2>1. 1 \in 1 .. Len(head) /\ 1 \in 1 .. Len(rest)
    BY <1>1, <1>10, <1>17
  <2>2. all[1] = b /\ all[Len(head) + 1] = t[1]
    BY <1>10, <1>17, <1>18, <1>21, <2>1
  <2>3. Len(head) + 1 = Len(path) + 2
    BY <1>1, <1>10
  <2>4. QED
    BY <1>1, <1>10, <1>17, <1>18, <1>21, <2>2, <2>3
<1>23. ReturnedPathBytes(all) = Len(path)
  <2>1. (all[1] % 64) * ((all[1] \div 64) + 1) = Len(path)
    <3>1. (size - 1) + 1 = size
      BY <1>1
    <3>2. QED
      BY <1>1, <1>2, <1>22, <3>1
  <2>2. ~ (1 + Len(path) > Len(all))
    BY <1>1, <1>17, <1>22
  <2>3. QED
    BY <2>1, <2>2 DEF ReturnedPathBytes
<1>24. SubSeq(all, 2, Len(path) + 1) = path
  <2>1. SubSeq(first \o tail, Len(first) + 1, Len(first) + Len(path)) = path
    BY <1>6, <1>19, MiddlePart
  <2>2. Len(first) + 1 = 2 /\ Len(first) + Len(path) = Len(path) + 1
    BY <1>1, <1>5
  <2>3. QED
    BY <1>20, <2>1, <2>2
<1> DEFINE off == 2 + Len(path)
<1>25. off = Len(path) + 2 /\ off - 1 = Len(path) + 1 /\ off <= Len(all)
  BY <1>1, <1>17, <1>22
<1>26. ASSUME extra # << >>
       PROVE  SubSeq(all, off + 1, Len(all)) = extra \o z
  <2> DEFINE a  == <<extraType>>
             e  == extra \o z
             h2 == head \o a
  <2>1. a \in Seq(S) /\ Len(a) = 1
    OBVIOUS
  <2>2. t = a \o extra
    BY <1>26 DEF AfterPath, t
  <2> HIDE DEF a
  <2>3. a \in Seq(S)
    BY <2>1
  <2>4. rest = a \o e
    <3>1. (a \o extra) \o z = a \o e
      BY <1>15, <2>3, ConcatAssociative
    <3>2. QED
      BY <2>2, <3>1 DEF rest
  <2>5. e \in Seq(S)
    BY <1>15, TwoParts
  <2> HIDE DEF e
  <2>6. h2 \in Seq(S) /\ Len(h2) = Len(head) + Len(a)
    BY <1>11, <2>3, TwoParts
  <2>7. all = h2 \o e
    <3>1. \A x, y, w \in Seq(S) : (x \o y) \o w = x \o (y \o w)
      BY ConcatAssociative
    <3>2. head \o (a \o e) = h2 \o e
      BY <1>11, <2>3, <2>5, <3>1, Zenon
    <3>3. QED
      BY <1>18, <2>4, <3>2
  <2> HIDE DEF h2
  <2>8. h2 \in Seq(S) /\ Len(e) \in Nat
    BY <2>5, <2>6
  <2>9. SubSeq(h2 \o e, Len(h2) + 1, Len(h2) + Len(e)) = e
    BY <2>5, <2>8, SecondPart
  <2>10. Len(a \o e) = Len(a) + Len(e)
    BY <2>3, <2>5, TwoParts
  <2>11. Len(h2) = off
    BY <1>1, <1>10, <2>1, <2>6
  <2>12. Len(h2) + Len(e) = Len(all)
    BY <1>1, <1>10, <1>22, <2>1, <2>4, <2>6, <2>8, <2>10
  <2>13. QED
    BY <2>7, <2>9, <2>11, <2>12 DEF e
<1>27. /\ r.Path = SubSeq(all, 2, off - 1)
       /\ r.ExtraType = IF off <= Len(all) THEN all[off] ELSE 0
       /\ r.Extra = SubSeq(all, off + 1, Len(all))
  BY <1>23 DEF ReturnedPath, all
<1> HIDE DEF r
<1>28. Len(all) <= Len(path) + 23 /\ Len(all) \in Nat
  BY <1>1, <1>4, <1>7, <1>14, <1>15, <1>16, <1>22
<1>29. r.Path = path
  BY <1>24, <1>25, <1>27
<1>30. r.ExtraType = IF extra # << >> THEN extraType ELSE 255
  BY <1>4, <1>22, <1>25, <1>27
<1>31. extra # << >> => r.Extra = extra \o z
  BY <1>26, <1>27
<1>32. QED
  BY <1>28, <1>29, <1>30, <1>31, Zenon DEF ReadsBack, r, all, sealed, path, size

(* The checksum in a returned path, and no checksum in a path alone.       *)
IsCrc(crc) == \E a, b, c, d : crc = <<a, b, c, d>>

BringsCrc(extra, crc, S) ==
  /\ Byte \subseteq S
  /\ extra \in Seq(S) /\ Len(extra) = 6 /\ extra # << >>
  /\ \A z \in Seq(Byte) : Len(extra \o z) >= 4 /\ SubSeq(extra \o z, 1, 4) = crc

LEMMA AckExtraFacts ==
  ASSUME NEW crc, IsCrc(crc), NEW random \in Byte
  PROVE  \E S : BringsCrc(AckExtra(crc, random), crc, S)
<1>0. PICK a, b, c, d : crc = <<a, b, c, d>>
  BY DEF IsCrc
<1> DEFINE end   == <<0, random>>
           extra == AckExtra(crc, random)
           S     == Byte \union {a, b, c, d}
<1>1. crc \in Seq(S) /\ Len(crc) = 4
  BY <1>0
<1>2. end \in Seq(S) /\ Len(end) = 2
  BY DEF Byte
<1>3. extra = crc \o end
  BY DEF AckExtra
<1>4. Byte \subseteq S
  OBVIOUS
<1> HIDE DEF end, S
<1>5. crc \in Seq(S) /\ end \in Seq(S)
  BY <1>1, <1>2
<1>6. crc \o end \in Seq(S) /\ Len(crc \o end) = Len(crc) + Len(end)
  BY <1>5, TwoParts
<1> HIDE DEF extra
<1>7. extra \in Seq(S) /\ Len(extra) = 6
  BY <1>1, <1>2, <1>3, <1>6
<1>8. extra # << >>
  <2>1. Len(<< >>) = 0 /\ Len(extra) = 6
    BY <1>7
  <2>2. QED
    BY <2>1
<1>9. ASSUME NEW z \in Seq(Byte)
      PROVE  Len(extra \o z) >= 4 /\ SubSeq(extra \o z, 1, 4) = crc
  <2>1. z \in Seq(S) /\ extra \in Seq(S)
    BY <1>4, <1>7
  <2> DEFINE rest == end \o z
             long == extra \o z
  <2>2. rest \in Seq(S)
    BY <1>5, <2>1, TwoParts
  <2>3. long \in Seq(S) /\ Len(long) = 6 + Len(z)
    <3>1. extra \o z \in Seq(S) /\ Len(extra \o z) = Len(extra) + Len(z)
      BY <2>1, TwoParts
    <3>2. QED
      BY <1>7, <3>1
  <2>4. long = crc \o rest
    <3>1. (crc \o end) \o z = crc \o (end \o z)
      BY <1>5, <2>1, ConcatAssociative
    <3>2. QED
      BY <1>3, <3>1
  <2> HIDE DEF rest, long
  <2>5. \A i \in 1 .. Len(crc) : (crc \o rest)[i] = crc[i]
    BY <1>5, <2>2, TwoParts
  <2>6. 4 \in 0 .. Len(long) /\ Len(z) \in Nat
    BY <2>3
  <2> DEFINE t == SubSeq(long, 1, 4)
  <2>7. t \in Seq(S) /\ Len(t) = 4 /\ \A i \in 1 .. 4 : t[i] = long[i]
    BY <2>3, <2>6, BeginningFacts
  <2> HIDE DEF t
  <2>8. \A i \in 1 .. Len(t) : t[i] = crc[i]
    BY <1>1, <2>4, <2>5, <2>7
  <2>9. t = crc
    BY <1>1, <2>7, <2>8, SeqEqual
  <2>10. Len(long) >= 4
    BY <2>3, <2>6
  <2>11. QED
    BY <2>9, <2>10 DEF t, long
<1>10. BringsCrc(extra, crc, S)
  BY <1>4, <1>7, <1>8, <1>9 DEF BringsCrc
<1>11. QED
  BY <1>10, Zenon DEF extra

Carries(payload, p, extraType, extra) ==
  \E secret, dest, src :
    payload = Seal(secret, dest, src,
                   PathPlaintext(p.Path, p.PathHashSize, extraType, extra))

PathOf(payload) == ReturnedPath(payload).Path

LEMMA ReturnedWithAck ==
  ASSUME NEW crc, IsCrc(crc), NEW random \in Byte,
         NEW p, IsPathOf(p), HopCount(p) <= MaxHopCount,
         NEW payload, Carries(payload, p, PayloadAck, AckExtra(crc, random))
  PROVE  /\ PathOf(payload) = p.Path
         /\ ConfirmedBy(ReturnedPath(payload)) = {crc}
         /\ Len(payload.plain) \in Nat
         /\ Len(payload.plain) <= Len(p.Path) + 23
<1> DEFINE extra  == AckExtra(crc, random)
<1>1. PICK S : BringsCrc(extra, crc, S)
  BY AckExtraFacts
<1>2. PICK secret, dest, src :
         payload = Seal(secret, dest, src,
                        PathPlaintext(p.Path, p.PathHashSize, PayloadAck, extra))
  BY DEF Carries
<1> DEFINE sealed == Seal(secret, dest, src,
                          PathPlaintext(p.Path, p.PathHashSize, PayloadAck, extra))
           r      == ReturnedPath(sealed)
<1>3. payload = sealed
  BY <1>2
<1> HIDE DEF extra
<1>4. Byte \subseteq S /\ PayloadAck \in Byte
  BY <1>1 DEF BringsCrc, PayloadAck, Byte
<1>5. /\ extra \in Seq(S) /\ Len(extra) <= 6 /\ extra # << >>
      /\ \A z \in Seq(Byte) : Len(extra \o z) >= 4 /\ SubSeq(extra \o z, 1, 4) = crc
  BY <1>1 DEF BringsCrc
<1>6. ReadsBack(sealed, p, PayloadAck, extra)
  <2>1. extra \in Seq(S) /\ Len(extra) <= 6
    BY <1>5
  <2>2. QED
    BY <1>4, <2>1, PathIsRead
<1>7. /\ r.Path = p.Path
      /\ r.ExtraType = IF extra # << >> THEN PayloadAck ELSE 255
      /\ extra # << >> => \E z \in Seq(Byte) : r.Extra = extra \o z
      /\ Len(sealed.plain) \in Nat
      /\ Len(sealed.plain) <= Len(p.Path) + 23
  BY <1>6, Zenon DEF ReadsBack
<1> HIDE DEF r, sealed
<1>8. r.ExtraType = PayloadAck
  BY <1>5, <1>7
<1>9. PICK z \in Seq(Byte) : r.Extra = extra \o z
  BY <1>5, <1>7
<1>10. Len(r.Extra) >= 4 /\ SubSeq(r.Extra, 1, 4) = crc
  BY <1>5, <1>9
<1>11. ConfirmedBy(r) = {crc}
  BY <1>8, <1>10 DEF ConfirmedBy
<1>12. QED
  BY <1>3, <1>7, <1>11, Zenon DEF r, PathOf

LEMMA ReturnedAlone ==
  ASSUME NEW p, IsPathOf(p), HopCount(p) <= MaxHopCount,
         NEW payload, Carries(payload, p, 0, << >>)
  PROVE  /\ PathOf(payload) = p.Path
         /\ ConfirmedBy(ReturnedPath(payload)) = {}
         /\ Len(payload.plain) \in Nat
         /\ Len(payload.plain) <= Len(p.Path) + 23
<1>1. PICK secret, dest, src :
        payload = Seal(secret, dest, src,
                       PathPlaintext(p.Path, p.PathHashSize, 0, << >>))
  BY DEF Carries
<1> DEFINE extra  == << >>
           sealed == Seal(secret, dest, src,
                          PathPlaintext(p.Path, p.PathHashSize, 0, extra))
           r      == ReturnedPath(sealed)
<1>2. extra \in Seq(Byte) /\ Len(extra) <= 6 /\ ~ (extra # << >>)
  OBVIOUS
<1>3. Byte \subseteq Byte /\ 0 \in Byte
  BY DEF Byte
<1> HIDE DEF extra
<1>4. ReadsBack(sealed, p, 0, extra)
  BY <1>2, <1>3, PathIsRead
<1>5. /\ r.Path = p.Path
      /\ r.ExtraType = IF extra # << >> THEN 0 ELSE 255
      /\ Len(sealed.plain) \in Nat
      /\ Len(sealed.plain) <= Len(p.Path) + 23
  BY <1>4, Zenon DEF ReadsBack
<1> HIDE DEF r, sealed
<1>6. r.ExtraType = 255
  BY <1>2, <1>5
<1>7. ConfirmedBy(r) = {}
  BY <1>6 DEF ConfirmedBy, PayloadAck
<1>8. payload = sealed
  BY <1>1 DEF sealed, extra
<1> HIDE DEF sealed
<1>9. QED
  BY <1>5, <1>7, <1>8, Zenon DEF r, PathOf
-----------------------------------------------------------------------------
(* Parts of sequences: from a place on, and up to a place. *)
LEMMA FromFacts ==
  ASSUME NEW S, NEW s \in Seq(S), NEW k \in Nat, k <= Len(s)
  PROVE  /\ From(s, k + 1) \in Seq(S)
         /\ Len(From(s, k + 1)) = Len(s) - k
         /\ \A i \in 1 .. Len(s) - k : From(s, k + 1)[i] = s[k + i]
<1> DEFINE size == Len(s) - k
<1>1. size \in Nat /\ k + size = Len(s)
  OBVIOUS
<1> HIDE DEF size
<1>2. LET t == SubSeq(s, k + 1, k + size)
      IN  /\ t \in Seq(S)
          /\ Len(t) = size
          /\ \A i \in 1 .. size : t[i] = s[k + i]
  <2>1. s \in Seq(S) /\ k \in Nat /\ size \in Nat /\ k + size <= Len(s)
    BY <1>1
  <2>2. QED
    BY <2>1, Slice, Zenon
<1>3. SubSeq(s, k + 1, k + size) = From(s, k + 1)
  BY <1>1 DEF From
<1>4. QED
  BY <1>2, <1>3 DEF size

LEMMA FromBehind ==
  ASSUME NEW S, NEW a \in Seq(S), NEW b \in Seq(S)
  PROVE  From(a \o b, Len(a) + 1) = b
<1>1. Len(a \o b) = Len(a) + Len(b)
  BY TwoParts
<1>2. QED
  BY <1>1, SecondPart DEF From

(* Beginning and rest make the whole. *)
LEMMA CutAndJoined ==
  ASSUME NEW S, NEW s \in Seq(S), NEW k \in 0 .. Len(s)
  PROVE  SubSeq(s, 1, k) \o From(s, k + 1) = s
<1> DEFINE a == SubSeq(s, 1, k)
           b == From(s, k + 1)
           t == a \o b
<1>1. a \in Seq(S) /\ Len(a) = k /\ \A i \in 1 .. k : a[i] = s[i]
  BY BeginningFacts
<1>2. k \in Nat /\ k <= Len(s) /\ Len(s) \in Nat
  OBVIOUS
<1>3. b \in Seq(S) /\ Len(b) = Len(s) - k /\ \A i \in 1 .. Len(s) - k : b[i] = s[k + i]
  BY <1>2, FromFacts
<1> HIDE DEF a, b
<1>4. /\ t \in Seq(S)
      /\ Len(t) = Len(a) + Len(b)
      /\ \A i \in 1 .. Len(a) : t[i] = a[i]
      /\ \A i \in 1 .. Len(b) : t[Len(a) + i] = b[i]
  BY <1>1, <1>3, TwoParts
<1> HIDE DEF t
<1>5. Len(t) = Len(s)
  BY <1>1, <1>2, <1>3, <1>4
<1>6. ASSUME NEW i \in 1 .. Len(t) PROVE t[i] = s[i]
  <2>1. CASE i <= k
    BY <1>1, <1>2, <1>4, <2>1
  <2>2. CASE i > k
    <3> DEFINE j == i - k
    <3>1. j \in 1 .. Len(s) - k /\ k + j = i
      BY <1>2, <1>5, <2>2
    <3>2. t[k + j] = b[j] /\ b[j] = s[k + j]
      BY <1>1, <1>3, <1>4, <3>1
    <3>3. QED
      BY <3>1, <3>2
  <2>3. QED
    BY <1>2, <2>1, <2>2
<1>7. t = s
  BY <1>4, <1>5, <1>6, SeqEqual
<1>8. QED
  BY <1>7 DEF t, a, b

LEMMA BeginningIsPrefix ==
  ASSUME NEW S, NEW all \in Seq(S), NEW k \in 0 .. Len(all)
  PROVE  IsPrefix(SubSeq(all, 1, k), all)
<1>1. Len(SubSeq(all, 1, k)) = k
  BY BeginningFacts
<1>2. SubSeq(SubSeq(all, 1, k), 1, k) = SubSeq(all, 1, k)
  <2>1. k \in 0 .. k
    OBVIOUS
  <2>2. QED
    BY <2>1, BeginningOfBeginning
<1>3. QED
  BY <1>1, <1>2 DEF IsPrefix

LEMMA FirstPart ==
  ASSUME NEW S, NEW a \in Seq(S), NEW b \in Seq(S)
  PROVE  SubSeq(a \o b, 1, Len(a)) = a
<1> DEFINE s == a \o b
<1>1. /\ s \in Seq(S) /\ Len(s) = Len(a) + Len(b)
      /\ \A i \in 1 .. Len(a) : s[i] = a[i]
  BY TwoParts
<1>2. Len(a) \in Nat /\ Len(b) \in Nat
  OBVIOUS
<1>3. Len(a) \in 0 .. Len(s)
  BY <1>1, <1>2
<1> HIDE DEF s
<1> DEFINE t == SubSeq(s, 1, Len(a))
<1>4. t \in Seq(S) /\ Len(t) = Len(a) /\ \A i \in 1 .. Len(a) : t[i] = s[i]
  BY <1>1, <1>3, BeginningFacts
<1> HIDE DEF t
<1>5. t = a
  BY <1>1, <1>4, SeqEqual
<1>6. QED
  BY <1>5 DEF t, s

LEMMA PrefixOfConcat ==
  ASSUME NEW S, NEW a \in Seq(S), NEW b \in Seq(S)
  PROVE  IsPrefix(a, a \o b)
<1>1. Len(a) \in 0 .. Len(a \o b) /\ a \o b \in Seq(S)
  BY TwoParts
<1>2. SubSeq(a \o b, 1, Len(a)) = a
  BY FirstPart
<1>3. IsPrefix(SubSeq(a \o b, 1, Len(a)), a \o b)
  BY <1>1, BeginningIsPrefix
<1>4. QED
  BY <1>2, <1>3

(* What follows a place, when the end is missing. *)
LEMMA RestOfBeginning ==
  ASSUME NEW S, NEW all \in Seq(S), NEW n \in 0 .. Len(all), NEW k \in 0 .. n
  PROVE  From(SubSeq(all, 1, n), k + 1) = SubSeq(From(all, k + 1), 1, n - k)
<1> DEFINE part == SubSeq(all, 1, n)
           rest == From(all, k + 1)
           a    == From(part, k + 1)
           b    == SubSeq(rest, 1, n - k)
<1>1. part \in Seq(S) /\ Len(part) = n /\ \A i \in 1 .. n : part[i] = all[i]
  BY BeginningFacts
<1>2. k \in Nat /\ n \in Nat /\ k <= n /\ n <= Len(all) /\ k <= Len(all) /\ Len(all) \in Nat
  OBVIOUS
<1>3. /\ rest \in Seq(S) /\ Len(rest) = Len(all) - k
      /\ \A i \in 1 .. Len(all) - k : rest[i] = all[k + i]
  BY <1>2, FromFacts
<1> HIDE DEF part, rest
<1>4. a \in Seq(S) /\ Len(a) = n - k /\ \A i \in 1 .. n - k : a[i] = part[k + i]
  <2>1. part \in Seq(S) /\ k <= Len(part) /\ Len(part) = n
    BY <1>1, <1>2
  <2> HIDE DEF a
  <2>2. /\ From(part, k + 1) \in Seq(S) /\ Len(From(part, k + 1)) = Len(part) - k
        /\ \A i \in 1 .. Len(part) - k : From(part, k + 1)[i] = part[k + i]
    BY <1>2, <2>1, FromFacts
  <2>3. QED
    BY <2>1, <2>2 DEF a
<1>5. n - k \in 0 .. Len(rest)
  BY <1>2, <1>3
<1>6. b \in Seq(S) /\ Len(b) = n - k /\ \A i \in 1 .. n - k : b[i] = rest[i]
  BY <1>3, <1>5, BeginningFacts
<1> HIDE DEF a, b
<1>7. ASSUME NEW i \in 1 .. Len(a) PROVE a[i] = b[i]
  <2>1. i \in 1 .. n - k /\ k + i \in 1 .. n /\ i \in 1 .. Len(all) - k
    BY <1>2, <1>4
  <2>2. QED
    BY <1>1, <1>3, <1>4, <1>6, <2>1
<1>8. a = b
  BY <1>4, <1>6, <1>7, SeqEqual
<1>9. QED
  BY <1>8 DEF a, b, part, rest

(* What is left of the rest, when the end is missing or not. *)
LEMMA RestIsLeft ==
  ASSUME NEW S, NEW all \in Seq(S), NEW n \in 0 .. Len(all), NEW k \in 0 .. n,
         NEW whole \in BOOLEAN, whole => n = Len(all)
  PROVE  LET rest == From(SubSeq(all, 1, n), k + 1)
         IN  IF whole THEN rest = From(all, k + 1) ELSE IsPrefix(rest, From(all, k + 1))
<1> DEFINE rest == From(all, k + 1)
           r == SubSeq(rest, 1, n - k)
<1>1. From(SubSeq(all, 1, n), k + 1) = r
  BY RestOfBeginning
<1>2. k \in Nat /\ n \in Nat /\ k <= n /\ n <= Len(all) /\ k <= Len(all) /\ Len(all) \in Nat
  OBVIOUS
<1>3. rest \in Seq(S) /\ Len(rest) = Len(all) - k
  BY <1>2, FromFacts
<1> HIDE DEF rest
<1>4. n - k \in 0 .. Len(rest)
  BY <1>2, <1>3
<1>5. IsPrefix(r, rest)
  BY <1>3, <1>4, BeginningIsPrefix
<1>6. whole => n - k = Len(rest)
  BY <1>2, <1>3
<1>7. whole => r = rest
  BY <1>3, <1>6, SubSeqFull
<1>8. QED
  BY <1>1, <1>5, <1>7 DEF rest

-----------------------------------------------------------------------------
(* Numbers and bytes at the beginning of a payload, and behind others. *)
LEMMA ByteThen ==
  ASSUME NEW b \in Byte, NEW rest \in Seq(Byte)
  PROVE  LET s == <<b>> \o rest
         IN  /\ s \in Seq(Byte)
             /\ Len(s) = 1 + Len(rest)
             /\ s[1] = b
             /\ \A i \in 1 .. Len(rest) : s[1 + i] = rest[i]
             /\ From(s, 2) = rest
<1> DEFINE a == <<b>>
           s == a \o rest
<1>1. a \in Seq(Byte) /\ Len(a) = 1 /\ a[1] = b
  OBVIOUS
<1> HIDE DEF a
<1>2. /\ s \in Seq(Byte)
      /\ Len(s) = Len(a) + Len(rest)
      /\ \A i \in 1 .. Len(a) : s[i] = a[i]
      /\ \A i \in 1 .. Len(rest) : s[Len(a) + i] = rest[i]
  BY <1>1, TwoParts
<1>3. From(s, Len(a) + 1) = rest
  BY <1>1, FromBehind
<1> HIDE DEF s
<1>4. Len(a) + 1 = 2 /\ 1 \in 1 .. Len(a)
  BY <1>1
<1>5. QED
  BY <1>1, <1>2, <1>3, <1>4 DEF s, a

LEMMA WordThen ==
  ASSUME NEW n \in Word, NEW rest \in Seq(Byte)
  PROVE  LET s == Uint32Bytes(n) \o rest
         IN  /\ Uint32Bytes(n) \in Seq(Byte)
             /\ Len(Uint32Bytes(n)) = 4
             /\ s \in Seq(Byte)
             /\ Len(s) = 4 + Len(rest)
             /\ Uint32At(s, 1) = n
             /\ \A i \in 1 .. Len(rest) : s[4 + i] = rest[i]
             /\ From(s, 5) = rest
<1>1. PICK b0 \in Byte, b1 \in Byte, b2 \in Byte, b3 \in Byte :
        /\ Uint32Bytes(n) = <<b0, b1, b2, b3>>
        /\ b0 + 256 * b1 + 65536 * b2 + 16777216 * b3 = n
  BY Uint32Written
<1> DEFINE u == <<b0, b1, b2, b3>>
           s == u \o rest
<1>2. u \in Seq(Byte) /\ Len(u) = 4 /\ u[1] = b0 /\ u[2] = b1 /\ u[3] = b2 /\ u[4] = b3
  OBVIOUS
<1>3. u = Uint32Bytes(n)
  BY <1>1
<1> HIDE DEF u
<1>4. /\ s \in Seq(Byte)
      /\ Len(s) = Len(u) + Len(rest)
      /\ \A i \in 1 .. Len(u) : s[i] = u[i]
      /\ \A i \in 1 .. Len(rest) : s[Len(u) + i] = rest[i]
  <2>1. u \in Seq(Byte)
    BY <1>2
  <2>2. QED
    BY <2>1, TwoParts
<1>5. From(s, Len(u) + 1) = rest
  BY <1>2, FromBehind
<1> HIDE DEF s
<1>6. Len(u) + 1 = 5
  BY <1>2
<1>7. s[1] = b0 /\ s[1 + 1] = b1 /\ s[1 + 2] = b2 /\ s[1 + 3] = b3
  BY <1>2, <1>4
<1>8. Uint32At(s, 1) = n
  BY <1>1, <1>7, SMT DEF Uint32At
<1>9. QED
  BY <1>2, <1>3, <1>4, <1>5, <1>6, <1>8 DEF s

LEMMA WordAlone ==
  ASSUME NEW n \in Word
  PROVE  /\ Uint32Bytes(n) \in Seq(Byte)
         /\ Len(Uint32Bytes(n)) = 4
         /\ Uint32At(Uint32Bytes(n), 1) = n
<1>1. PICK b0 \in Byte, b1 \in Byte, b2 \in Byte, b3 \in Byte :
        /\ Uint32Bytes(n) = <<b0, b1, b2, b3>>
        /\ b0 + 256 * b1 + 65536 * b2 + 16777216 * b3 = n
  BY Uint32Written
<1> DEFINE u == <<b0, b1, b2, b3>>
<1>2. u \in Seq(Byte) /\ Len(u) = 4
      /\ u[1] = b0 /\ u[1 + 1] = b1 /\ u[1 + 2] = b2 /\ u[1 + 3] = b3
  OBVIOUS
<1> HIDE DEF u
<1>3. Uint32At(u, 1) = n
  BY <1>1, <1>2, SMT DEF Uint32At
<1>4. QED
  BY <1>1, <1>2, <1>3 DEF u

LEMMA WordOfBeginning ==
  ASSUME NEW all \in Seq(Byte), NEW n \in 0 .. Len(all), NEW i \in Nat \ {0}, i + 3 <= n
  PROVE  Uint32At(SubSeq(all, 1, n), i) = Uint32At(all, i)
<1> DEFINE part == SubSeq(all, 1, n)
<1>1. \A j \in 1 .. n : part[j] = all[j]
  BY BeginningFacts
<1>2. i \in 1 .. n /\ i + 1 \in 1 .. n /\ i + 2 \in 1 .. n /\ i + 3 \in 1 .. n
  OBVIOUS
<1> HIDE DEF part
<1>3. Uint32At(part, i) = Uint32At(all, i)
  BY <1>1, <1>2 DEF Uint32At
<1>4. QED
  BY <1>3 DEF part

-----------------------------------------------------------------------------
(* Plaintexts that are filled with zeros. *)
LEMMA PaddedSize ==
  ASSUME NEW plain \in Seq(Byte), Len(plain) > 0
  PROVE  Len(Padded(plain)) >= CipherKeySize
<1> DEFINE n == Len(plain)
           k == (BlockSize - (n % BlockSize)) % BlockSize
<1>1. n \in Nat /\ k \in Nat /\ n > 0 /\ n + k >= 16
  BY DEF BlockSize
<1>2. Padded(plain) = plain \o Zeros(k)
  BY DEF Padded
<1> HIDE DEF k
<1>3. Zeros(k) \in Seq(Byte) /\ Len(Zeros(k)) = k
  BY <1>1, ZerosFacts
<1>4. Len(plain \o Zeros(k)) = n + k
  BY <1>3, TwoParts
<1>5. QED
  BY <1>1, <1>2, <1>4 DEF CipherKeySize

IsFill(z) == z \in Seq(Byte) /\ Len(z) <= 15 /\ z = Zeros(Len(z))

LEMMA PaddedWith ==
  ASSUME NEW plain \in Seq(Byte)
  PROVE  \E z : IsFill(z) /\ Padded(plain) = plain \o z
<1>1. PICK z \in Seq(Byte) :
        Len(z) <= 15 /\ z = Zeros(Len(z)) /\ Padded(plain) = plain \o z
  BY PaddedFacts
<1>2. QED
  BY <1>1 DEF IsFill

-----------------------------------------------------------------------------
(* Hashes of one, two or three bytes one after another, as in a path, or   *)
(* of one, two, four or eight, as in a TRACE.                              *)
Widths == {1, 2, 3, 4, 8}

LEMMA WidthOfFlags ==
  ASSUME NEW flags \in Byte
  PROVE  2 ^ (flags % 4) \in Widths
<1>1. flags % 4 \in {0, 1, 2, 3}
  BY DEF Byte
<1>2. 2 ^ 0 = 1 /\ 2 ^ 1 = 2 /\ 2 ^ 2 = 4 /\ 2 ^ 3 = 8
  BY SMT
<1>3. QED
  BY <1>1, <1>2, Zenon DEF Widths

LEMMA Multiples ==
  ASSUME NEW w \in Widths, NEW n \in Nat
  PROVE  /\ n * w \in Nat
         /\ (n * w) \div w = n
         /\ \A i \in 1 .. n : /\ (i - 1) * w \in Nat
                              /\ (i - 1) * w + w = i * w
                              /\ i * w <= n * w
<1>1. w = 1 \/ w = 2 \/ w = 3 \/ w = 4 \/ w = 8
  BY DEF Widths
<1>2. CASE w = 1
  BY <1>2
<1>3. CASE w = 2
  BY <1>3
<1>4. CASE w = 3
  BY <1>4
<1>5. CASE w = 4
  BY <1>5
<1>6. CASE w = 8
  BY <1>6
<1>7. QED
  BY <1>1, <1>2, <1>3, <1>4, <1>5, <1>6

LEMMA MultiplesWithin ==
  ASSUME NEW w \in Widths, NEW n \in Nat, NEW k \in 0 .. n * w
  PROVE  k \div w \in 0 .. n /\ \A i \in 1 .. k \div w : i * w <= k
<1>1. w = 1 \/ w = 2 \/ w = 3 \/ w = 4 \/ w = 8
  BY DEF Widths
<1>2. CASE w = 1
  BY <1>2
<1>3. CASE w = 2
  BY <1>3
<1>4. CASE w = 3
  BY <1>4
<1>5. CASE w = 4
  BY <1>5
<1>6. CASE w = 8
  BY <1>6
<1>7. QED
  BY <1>1, <1>2, <1>3, <1>4, <1>5, <1>6

(* Which byte of which hash stands at a place of the route. *)
HopAt(w, j)  == (j - 1) \div w + 1
ByteAt(w, j) == ((j - 1) % w) + 1

LEMMA PlaceInRoute ==
  ASSUME NEW w \in Widths, NEW n \in Nat
  PROVE  /\ \A j \in 1 .. n * w : HopAt(w, j) \in 1 .. n /\ ByteAt(w, j) \in 1 .. w
         /\ \A i \in 1 .. n, k \in 1 .. w :
              /\ (i - 1) * w + k \in 1 .. i * w
              /\ HopAt(w, (i - 1) * w + k) = i /\ ByteAt(w, (i - 1) * w + k) = k
<1>1. w = 1 \/ w = 2 \/ w = 3 \/ w = 4 \/ w = 8
  BY DEF Widths
<1>2. CASE w = 1
  BY <1>2 DEF HopAt, ByteAt
<1>3. CASE w = 2
  BY <1>3 DEF HopAt, ByteAt
<1>4. CASE w = 3
  BY <1>4 DEF HopAt, ByteAt
<1>5. CASE w = 4
  BY <1>5 DEF HopAt, ByteAt
<1>6. CASE w = 8
  BY <1>6 DEF HopAt, ByteAt
<1>7. QED
  BY <1>1, <1>2, <1>3, <1>4, <1>5, <1>6

(* The first i hashes one after another. *)
Flat(hops, w, i) == [j \in 1 .. i * w |-> hops[HopAt(w, j)][ByteAt(w, j)]]

AreHops(hops, w) ==
  /\ w \in Widths
  /\ hops \in Seq(Seq(Byte))
  /\ \A i \in DOMAIN hops : Len(hops[i]) = w

LEMMA HopFacts ==
  ASSUME NEW hops, NEW w, AreHops(hops, w)
  PROVE  /\ Len(hops) \in Nat
         /\ \A i \in 1 .. Len(hops) :
              hops[i] \in Seq(Byte) /\ Len(hops[i]) = w
                /\ \A k \in 1 .. w : hops[i][k] \in Byte
<1>1. hops \in Seq(Seq(Byte)) /\ w \in Nat
  BY DEF AreHops, Widths
<1>2. \A i \in 1 .. Len(hops) : hops[i] \in Seq(Byte) /\ Len(hops[i]) = w
  BY <1>1 DEF AreHops
<1>3. ASSUME NEW i \in 1 .. Len(hops), NEW k \in 1 .. w
      PROVE  hops[i][k] \in Byte
  <2> DEFINE h == hops[i]
  <2>1. h \in Seq(Byte) /\ Len(h) = w
    BY <1>2
  <2> HIDE DEF h
  <2>2. h[k] \in Byte
    BY <2>1
  <2>3. QED
    BY <2>2 DEF h
<1>4. QED
  BY <1>1, <1>2, <1>3

LEMMA FlatFacts ==
  ASSUME NEW hops, NEW w, AreHops(hops, w), NEW n \in 0 .. Len(hops)
  PROVE  /\ Flat(hops, w, n) \in Seq(Byte)
         /\ Len(Flat(hops, w, n)) = n * w
         /\ \A j \in 1 .. n * w : Flat(hops, w, n)[j] = hops[HopAt(w, j)][ByteAt(w, j)]
         /\ \A i \in 1 .. n : \A k \in 1 .. w : Flat(hops, w, n)[(i - 1) * w + k] = hops[i][k]
<1> DEFINE size  == n * w
           at(j) == hops[HopAt(w, j)][ByteAt(w, j)]
           flat  == [j \in 1 .. size |-> at(j)]
<1>1. w \in Widths /\ n \in Nat /\ 1 .. n \subseteq 1 .. Len(hops)
  BY HopFacts DEF AreHops
<1>2. size \in Nat /\ \A i \in 1 .. n : i * w <= size /\ i * w \in Nat
  <2>1. \A i \in 1 .. n : (i - 1) * w \in Nat /\ (i - 1) * w + w = i * w /\ i * w <= n * w
    BY <1>1, Multiples
  <2>2. n * w \in Nat
    BY <1>1, Multiples
  <2>3. w \in Nat
    BY <1>1 DEF Widths
  <2>4. QED
    BY <2>1, <2>2, <2>3
<1>3. \A j \in 1 .. size : at(j) \in Byte
  <2>1. ASSUME NEW j \in 1 .. size PROVE at(j) \in Byte
    <3>1. HopAt(w, j) \in 1 .. n /\ ByteAt(w, j) \in 1 .. w
      BY <1>1, PlaceInRoute
    <3>2. HopAt(w, j) \in 1 .. Len(hops)
      BY <1>1, <3>1
    <3>3. QED
      BY <3>1, <3>2, HopFacts
  <2>2. QED
    BY <2>1
<1> HIDE DEF at
<1>4. flat = Flat(hops, w, n)
  BY DEF Flat, at
<1> HIDE DEF size
<1>5. /\ flat \in Seq(Byte) /\ Len(flat) = size
      /\ \A j \in 1 .. size : flat[j] = at(j)
  BY <1>2, <1>3
<1> HIDE DEF flat
<1>6. ASSUME NEW i \in 1 .. n, NEW k \in 1 .. w
      PROVE  flat[(i - 1) * w + k] = hops[i][k]
  <2> DEFINE j == (i - 1) * w + k
  <2>1. j \in 1 .. i * w /\ HopAt(w, j) = i /\ ByteAt(w, j) = k
    BY <1>1, PlaceInRoute
  <2> HIDE DEF j
  <2>2. j \in 1 .. size
    <3> DEFINE end == i * w
    <3>1. j \in 1 .. end /\ end <= size /\ end \in Nat
      BY <1>2, <2>1
    <3> HIDE DEF end
    <3>2. QED
      BY <1>2, <3>1
  <2>3. flat[j] = hops[i][k]
    BY <1>5, <2>1, <2>2 DEF at
  <2>4. QED
    BY <2>3 DEF j
<1>7. QED
  BY <1>4, <1>5, <1>6 DEF size, at


LEMMA HopInFlat ==
  ASSUME NEW hops, NEW w, AreHops(hops, w), NEW n \in 0 .. Len(hops),
         NEW i \in 1 .. n, NEW k \in 1 .. w
  PROVE  Flat(hops, w, n)[(i - 1) * w + k] = hops[i][k]
<1> DEFINE P(x) == \A y \in 1 .. w : Flat(hops, w, n)[(x - 1) * w + y] = hops[x][y]
<1>1. \A x \in 1 .. n : P(x)
  BY FlatFacts
<1> HIDE DEF P
<1>2. P(i)
  BY <1>1
<1>3. QED
  BY <1>2, Zenon DEF P

LEMMA OneHopMore ==
  ASSUME NEW hops, NEW w, AreHops(hops, w), NEW i \in 1 .. Len(hops)
  PROVE  Flat(hops, w, i) = IF i = 1 THEN hops[i] ELSE Flat(hops, w, i - 1) \o hops[i]
<1> DEFINE n == i - 1
           a == Flat(hops, w, n)
           b == Flat(hops, w, i)
           h == hops[i]
           s == a \o h
<1>1. /\ n \in 0 .. Len(hops) /\ i \in 0 .. Len(hops) /\ i = n + 1
      /\ n \in Nat /\ i \in Nat /\ w \in Widths /\ w \in Nat
  BY HopFacts DEF AreHops, Widths
<1>2. n * w \in Nat /\ n * w + w = i * w
  <2>1. i \in 1 .. i
    BY <1>1
  <2>2. (i - 1) * w \in Nat /\ (i - 1) * w + w = i * w
    BY <1>1, <2>1, Multiples
  <2>3. QED
    BY <2>2
<1> HIDE DEF n
<1>3. a \in Seq(Byte) /\ Len(a) = n * w
      /\ \A j \in 1 .. n * w : a[j] = hops[HopAt(w, j)][ByteAt(w, j)]
  BY <1>1, FlatFacts
<1>4. /\ b \in Seq(Byte) /\ Len(b) = i * w
      /\ \A j \in 1 .. i * w : b[j] = hops[HopAt(w, j)][ByteAt(w, j)]
      /\ \A k \in 1 .. w : b[n * w + k] = h[k]
  <2>1. /\ b \in Seq(Byte) /\ Len(b) = i * w
        /\ \A j \in 1 .. i * w : b[j] = hops[HopAt(w, j)][ByteAt(w, j)]
    BY <1>1, FlatFacts
  <2>2. i \in 1 .. i
    BY <1>1
  <2>3. \A k \in 1 .. w : b[(i - 1) * w + k] = hops[i][k]
    <3>1. i \in 0 .. Len(hops)
      BY <1>1
    <3>2. ASSUME NEW k \in 1 .. w PROVE b[(i - 1) * w + k] = hops[i][k]
      BY <2>2, <3>1, HopInFlat
    <3>3. QED
      BY <3>2, Zenon
  <2>4. QED
    BY <2>1, <2>3 DEF n
<1>5. h \in Seq(Byte) /\ Len(h) = w
  BY HopFacts
<1> HIDE DEF a, b, h
<1>6. /\ s \in Seq(Byte) /\ Len(s) = Len(a) + Len(h)
      /\ \A j \in 1 .. Len(a) : s[j] = a[j]
      /\ \A j \in 1 .. Len(h) : s[Len(a) + j] = h[j]
  <2>1. a \in Seq(Byte) /\ h \in Seq(Byte)
    BY <1>3, <1>5
  <2>2. QED
    BY <2>1, TwoParts
<1> HIDE DEF s
<1>7. b = s
  <2> DEFINE size == n * w
             end  == i * w
  <2>1. size \in Nat /\ end = size + w /\ Len(a) = size /\ Len(b) = end
    BY <1>2, <1>3, <1>4
  <2>2. \A j \in 1 .. size : a[j] = hops[HopAt(w, j)][ByteAt(w, j)]
    BY <1>3
  <2>3. \A j \in 1 .. end : b[j] = hops[HopAt(w, j)][ByteAt(w, j)]
    BY <1>4
  <2>4. \A k \in 1 .. w : b[size + k] = h[k]
    BY <1>4
  <2> HIDE DEF size, end
  <2>5. Len(s) = Len(b)
    BY <1>5, <1>6, <2>1
  <2>6. ASSUME NEW j \in 1 .. Len(b) PROVE b[j] = s[j]
    <3>1. CASE j \in 1 .. size
      <4>1. j \in 1 .. end
        BY <2>1, <2>6
      <4>2. b[j] = a[j]
        BY <2>2, <2>3, <3>1, <4>1, Zenon
      <4>3. s[j] = a[j]
        BY <1>6, <2>1, <3>1
      <4>4. QED
        BY <4>2, <4>3
    <3>2. CASE j \notin 1 .. size
      <4>1. j - size \in 1 .. w /\ size + (j - size) = j
        BY <1>1, <2>1, <2>6, <3>2
      <4>2. b[size + (j - size)] = h[j - size]
        BY <2>4, <4>1
      <4>3. s[size + (j - size)] = h[j - size]
        BY <1>5, <1>6, <2>1, <4>1
      <4>4. QED
        BY <4>1, <4>2, <4>3
    <3>3. QED
      BY <3>1, <3>2
  <2>7. b \in Seq(Byte) /\ s \in Seq(Byte)
    BY <1>4, <1>6
  <2>8. QED
    BY <2>5, <2>6, <2>7, SeqEqual
<1>8. CASE i = 1
  <2>1. n = 0
    BY <1>1, <1>8
  <2>2. n * w = 0
    BY <1>1, <2>1
  <2>3. Len(a) = 0
    BY <1>3, <2>2
  <2>4. \A j \in 1 .. Len(h) : s[j] = h[j]
    BY <1>5, <1>6, <2>3
  <2>5. Len(s) = Len(h)
    BY <1>1, <1>5, <1>6, <2>3
  <2>6. s \in Seq(Byte) /\ h \in Seq(Byte)
    BY <1>5, <1>6
  <2>7. s = h
    BY <2>4, <2>5, <2>6, SeqEqual
  <2>8. QED
    BY <1>7, <1>8, <2>7 DEF b, h
<1>9. CASE i # 1
  BY <1>7, <1>9, Zenon DEF a, b, h, s, n
<1>10. QED
  BY <1>8, <1>9

(* FlattenSeq is a recursive function, which this one satisfies. *)
LEMMA RouteIsFlat ==
  ASSUME NEW hops, NEW w, AreHops(hops, w)
  PROVE  FlattenSeq(hops) = Flat(hops, w, Len(hops))
<1> DEFINE n == Len(hops)
           T == 1 .. n
           E(f) == [i \in T |-> IF i = 1 THEN hops[i] ELSE f[i - 1] \o hops[i]]
           g == [i \in T |-> Flat(hops, w, i)]
           F == CHOOSE f : f = E(f)
<1>1. n \in Nat /\ hops \in Seq(Seq(Byte))
  BY HopFacts DEF AreHops
<1>2. CASE n = 0
  <2>1. FlattenSeq(hops) = hops
    BY <1>2, Zenon DEF FlattenSeq
  <2>2. hops = << >>
    BY <1>1, <1>2
  <2> DEFINE a == Flat(hops, w, n)
  <2>3. a \in Seq(Byte) /\ Len(a) = n * w
    <3>1. n \in 0 .. Len(hops)
      BY <1>1
    <3>2. QED
      BY <3>1, FlatFacts, Zenon
  <2>4. n * w = 0
    <3>1. w \in Nat
      BY DEF AreHops, Widths
    <3>2. QED
      BY <1>2, <3>1
  <2> HIDE DEF a
  <2>5. a = << >>
    BY <2>3, <2>4
  <2>6. QED
    BY <2>1, <2>2, <2>5 DEF a
<1>3. CASE n > 0
  <2>1. FlattenSeq(hops) = F[n]
    <3>1. ~ (n = 0)
      BY <1>1, <1>3
    <3>2. QED
      BY <3>1, Zenon DEF FlattenSeq
  <2>2. g = E(g)
    <3>1. ASSUME NEW i \in T
          PROVE  Flat(hops, w, i) = IF i = 1 THEN hops[i] ELSE g[i - 1] \o hops[i]
      <4>1. Flat(hops, w, i) = IF i = 1 THEN hops[i] ELSE Flat(hops, w, i - 1) \o hops[i]
        BY OneHopMore
      <4>2. i # 1 => i - 1 \in T
        BY <1>1
      <4>3. i # 1 => g[i - 1] = Flat(hops, w, i - 1)
        BY <4>2
      <4>4. QED
        BY <4>1, <4>3, Zenon
    <3>2. QED
      BY <3>1, Zenon
  <2>3. F = E(F)
    BY <2>2, Zenon
  <2> HIDE DEF F
  <2>4. \A i \in T : F[i] = IF i = 1 THEN hops[i] ELSE F[i - 1] \o hops[i]
    BY <2>3, Zenon
  <2> DEFINE D == {i \in T : F[i] # Flat(hops, w, i)}
  <2>5. D = {}
    <3>1. SUFFICES ASSUME D # {} PROVE FALSE
      OBVIOUS
    <3>2. D \subseteq Nat
      BY <1>1
    <3>3. PICK i \in D : \A j \in D : i =< j
      BY <3>1, <3>2, HasLeast
    <3>4. i \in T /\ F[i] # Flat(hops, w, i)
      OBVIOUS
    <3>5. Flat(hops, w, i) = IF i = 1 THEN hops[i] ELSE Flat(hops, w, i - 1) \o hops[i]
      BY <3>4, OneHopMore
    <3>6. i # 1 => i - 1 \in T /\ ~ (i =< i - 1)
      BY <1>1, <3>4
    <3>7. i # 1 => i - 1 \notin D
      BY <3>3, <3>6
    <3>8. i # 1 => F[i - 1] = Flat(hops, w, i - 1)
      BY <3>6, <3>7
    <3>9. QED
      BY <2>4, <3>4, <3>5, <3>8, Zenon
  <2>6. n \in T
    BY <1>1, <1>3
  <2>7. F[n] = Flat(hops, w, n)
    BY <2>5, <2>6
  <2>8. QED
    BY <2>1, <2>7
<1>4. QED
  BY <1>1, <1>2, <1>3

(* The hashes that are whole in a beginning of the route. *)
LEMMA HashesLeft ==
  ASSUME NEW hops, NEW w, AreHops(hops, w),
         NEW k \in 0 .. Len(FlattenSeq(hops))
  PROVE  LET part == SubSeq(FlattenSeq(hops), 1, k)
         IN  /\ [i \in 1 .. Len(part) \div w |-> SubSeq(part, (i - 1) * w + 1, i * w)]
                  = SubSeq(hops, 1, k \div w)
             /\ k \div w \in 0 .. Len(hops)
             /\ k = Len(FlattenSeq(hops)) => k \div w = Len(hops)
<1> DEFINE n     == Len(hops)
           route == Flat(hops, w, n)
           part  == SubSeq(route, 1, k)
           q     == k \div w
           a     == [i \in 1 .. q |-> SubSeq(part, (i - 1) * w + 1, i * w)]
           b     == SubSeq(hops, 1, q)
<1>1. FlattenSeq(hops) = route
  BY RouteIsFlat
<1>2. n \in Nat /\ hops \in Seq(Seq(Byte)) /\ w \in Widths /\ w \in Nat /\ n \in 0 .. Len(hops)
  BY HopFacts DEF AreHops, Widths
<1>3. /\ route \in Seq(Byte) /\ Len(route) = n * w
      /\ \A i \in 1 .. n : \A j \in 1 .. w : route[(i - 1) * w + j] = hops[i][j]
  <2>1. n \in 0 .. Len(hops)
    BY <1>2
  <2>2. route \in Seq(Byte) /\ Len(route) = n * w
    BY <2>1, FlatFacts
  <2>3. \A i \in 1 .. n : \A j \in 1 .. w : route[(i - 1) * w + j] = hops[i][j]
    <3>1. ASSUME NEW i \in 1 .. n, NEW j \in 1 .. w
          PROVE  route[(i - 1) * w + j] = hops[i][j]
      BY <2>1, HopInFlat
    <3>2. QED
      BY <3>1, Zenon
  <2>4. QED
    BY <2>2, <2>3
<1>4. k \in 0 .. n * w
  BY <1>1, <1>3
<1> HIDE DEF route
<1>5. part \in Seq(Byte) /\ Len(part) = k /\ \A j \in 1 .. k : part[j] = route[j]
  <2>1. k \in 0 .. Len(route)
    BY <1>3, <1>4
  <2>2. QED
    BY <1>3, <2>1, BeginningFacts
<1>6. q \in 0 .. n /\ \A i \in 1 .. q : i * w <= k
  BY <1>2, <1>4, MultiplesWithin
<1>7. k = n * w => q = n
  BY <1>2, Multiples
<1>8. \A i \in 1 .. n : (i - 1) * w \in Nat /\ (i - 1) * w + w = i * w
  BY <1>2, Multiples
<1>9. b \in Seq(Seq(Byte)) /\ Len(b) = q /\ \A i \in 1 .. q : b[i] = hops[i]
  BY <1>2, <1>6, BeginningFacts
<1> HIDE DEF part, q
<1>10. ASSUME NEW i \in 1 .. q
       PROVE  SubSeq(part, (i - 1) * w + 1, i * w) = hops[i]
  <2> DEFINE at  == (i - 1) * w
             end == i * w
             h   == hops[i]
             t   == SubSeq(part, at + 1, at + w)
  <2>1. i \in 1 .. n
    BY <1>2, <1>6
  <2>2. at \in Nat /\ at + w = end /\ end <= k
    BY <1>6, <1>8, <2>1
  <2>3. \A j \in 1 .. w : route[at + j] = h[j]
    BY <1>3, <2>1
  <2>4. h \in Seq(Byte) /\ Len(h) = w
    BY <2>1, HopFacts
  <2> HIDE DEF at, end, h
  <2>5. t \in Seq(Byte) /\ Len(t) = w /\ \A j \in 1 .. w : t[j] = part[at + j]
    <3>1. part \in Seq(Byte) /\ at + w <= Len(part)
      BY <1>5, <2>2
    <3>2. \A s \in Seq(Byte), o, z \in Nat :
            o + z <= Len(s) =>
              /\ SubSeq(s, o + 1, o + z) \in Seq(Byte)
              /\ Len(SubSeq(s, o + 1, o + z)) = z
              /\ \A j \in 1 .. z : SubSeq(s, o + 1, o + z)[j] = s[o + j]
      BY Slice, Zenon
    <3>3. at \in Nat /\ w \in Nat
      BY <1>2, <2>2
    <3>4. QED
      BY <3>1, <3>2, <3>3, Zenon DEF t
  <2> HIDE DEF t
  <2>6. ASSUME NEW j \in 1 .. Len(t) PROVE t[j] = h[j]
    <3>1. j \in 1 .. w /\ at + j \in 1 .. k
      BY <1>2, <1>4, <2>2, <2>5
    <3>2. QED
      BY <1>5, <2>3, <2>5, <3>1
  <2>7. t = h
    BY <2>4, <2>5, <2>6, SeqEqual
  <2>8. QED
    BY <2>2, <2>7 DEF t, at, end, h
<1>11. a = b
  <2>1. b = [i \in 1 .. q |-> b[i]]
    BY <1>9
  <2> HIDE DEF b
  <2>2. \A i \in 1 .. q : SubSeq(part, (i - 1) * w + 1, i * w) = b[i]
    BY <1>9, <1>10
  <2>3. a = [i \in 1 .. q |-> b[i]]
    BY <2>2, Zenon
  <2>4. QED
    BY <2>1, <2>3
<1>12. [i \in 1 .. Len(part) \div w |-> SubSeq(part, (i - 1) * w + 1, i * w)] = b
  BY <1>5, <1>11, Zenon DEF q
<1>13. QED
  BY <1>1, <1>3, <1>6, <1>7, <1>12, Zenon DEF part, q

LEMMA RouteIsBytes ==
  ASSUME NEW hops, NEW w, AreHops(hops, w)
  PROVE  FlattenSeq(hops) \in Seq(Byte) /\ Len(FlattenSeq(hops)) \in Nat
<1> DEFINE route == Flat(hops, w, Len(hops))
<1>1. Len(hops) \in 0 .. Len(hops)
  BY HopFacts
<1>2. route \in Seq(Byte)
  BY <1>1, FlatFacts
<1>3. FlattenSeq(hops) = route
  BY RouteIsFlat
<1>4. QED
  BY <1>2, <1>3

(* The head of a TRACE, and an SNR as a signed byte. *)
LEMMA TraceHead ==
  ASSUME NEW tag \in Word, NEW code \in Word, NEW flags \in Byte, NEW route \in Seq(Byte)
  PROVE  LET all == Uint32Bytes(tag) \o Uint32Bytes(code) \o <<flags>> \o route
         IN  /\ all \in Seq(Byte) /\ Len(all) = 9 + Len(route)
             /\ Uint32At(all, 1) = tag /\ Uint32At(all, 5) = code /\ all[9] = flags
             /\ From(all, 10) = route
<1> DEFINE u   == Uint32Bytes(tag)
           v   == Uint32Bytes(code)
           f   == <<flags>>
           t2  == f \o route
           t1  == v \o t2
           all == u \o t1
<1>1. /\ u \in Seq(Byte) /\ v \in Seq(Byte) /\ f \in Seq(Byte)
      /\ Len(u) = 4 /\ Len(v) = 4 /\ Len(f) = 1
  BY WordAlone
<1>2. Len(route) \in Nat
  OBVIOUS
<1>3. t2 \in Seq(Byte) /\ Len(t2) = 1 + Len(route) /\ t2[1] = flags
  BY ByteThen
<1> HIDE DEF f, t2
<1>4. /\ t1 \in Seq(Byte) /\ Len(t1) = 4 + Len(t2) /\ Uint32At(t1, 1) = code
      /\ \A i \in 1 .. Len(t2) : t1[4 + i] = t2[i]
  <2>1. t2 \in Seq(Byte)
    BY <1>3
  <2>2. QED
    BY <2>1, WordThen
<1> HIDE DEF v, t1
<1>5. /\ all \in Seq(Byte) /\ Len(all) = 4 + Len(t1) /\ Uint32At(all, 1) = tag
      /\ \A i \in 1 .. Len(t1) : all[4 + i] = t1[i]
  <2>1. t1 \in Seq(Byte)
    BY <1>4
  <2>2. QED
    BY <2>1, WordThen
<1> HIDE DEF u, all
<1>6. Uint32At(all, 5) = code
  <2>1. 1 \in 1 .. Len(t1) /\ 2 \in 1 .. Len(t1) /\ 3 \in 1 .. Len(t1) /\ 4 \in 1 .. Len(t1)
    BY <1>2, <1>3, <1>4
  <2>2. /\ all[4 + 1] = t1[1] /\ all[4 + 2] = t1[2]
        /\ all[4 + 3] = t1[3] /\ all[4 + 4] = t1[4]
    BY <1>5, <2>1
  <2>3. /\ all[5] = t1[1] /\ all[5 + 1] = t1[1 + 1]
        /\ all[5 + 2] = t1[1 + 2] /\ all[5 + 3] = t1[1 + 3]
    BY <2>2
  <2>4. Uint32At(all, 5) = Uint32At(t1, 1)
    BY <2>3 DEF Uint32At
  <2>5. QED
    BY <1>4, <2>4
<1>7. all[9] = flags
  <2>1. 5 \in 1 .. Len(t1) /\ 1 \in 1 .. Len(t2) /\ 4 + 5 = 9 /\ 4 + 1 = 5
    BY <1>2, <1>3, <1>4
  <2>2. all[4 + 5] = t1[5] /\ t1[4 + 1] = t2[1]
    BY <1>4, <1>5, <2>1
  <2>3. QED
    BY <1>3, <2>1, <2>2
<1>8. u \o v \o f \o route = all
  <2> DEFINE g == u \o v
  <2>1. \A a, c, d \in Seq(Byte) : (a \o c) \o d = a \o (c \o d)
    BY ConcatAssociative
  <2>2. u \in Seq(Byte) /\ v \in Seq(Byte) /\ f \in Seq(Byte) /\ t2 \in Seq(Byte)
    BY <1>1, <1>3
  <2>3. g \in Seq(Byte)
    BY <2>2, TwoParts
  <2>4. g \o f \o route = g \o t2
    BY <2>1, <2>2, <2>3, Zenon DEF t2
  <2>5. g \o t2 = u \o (v \o t2)
    BY <2>1, <2>2, Zenon
  <2>6. QED
    BY <2>4, <2>5, Zenon DEF all, t1
<1>9. From(all, 10) = route
  <2> DEFINE c == u \o v
             g == c \o f
  <2>1. u \in Seq(Byte) /\ v \in Seq(Byte) /\ f \in Seq(Byte)
    <3>1. f \in Seq(Byte)
      BY <1>1
    <3>2. QED
      BY <1>1, <3>1
  <2>2. c \in Seq(Byte) /\ Len(c) = Len(u) + Len(v)
    <3>1. u \in Seq(Byte)
      BY <2>1
    <3>2. v \in Seq(Byte)
      BY <2>1
    <3>3. QED
      BY <3>1, <3>2, TwoParts
  <2> HIDE DEF c
  <2>3. g \in Seq(Byte) /\ Len(g) = Len(c) + Len(f)
    <3>1. c \in Seq(Byte)
      BY <2>2
    <3>2. f \in Seq(Byte)
      BY <2>1
    <3>3. QED
      BY <3>1, <3>2, TwoParts
  <2>4. g \in Seq(Byte) /\ Len(g) = 9
    BY <1>1, <2>2, <2>3
  <2>5. g \o route = all
    BY <1>8 DEF c
  <2> HIDE DEF g
  <2>6. From(g \o route, Len(g) + 1) = route
    BY <2>4, FromBehind
  <2>7. Len(g) + 1 = 10
    BY <2>4
  <2>8. QED
    BY <2>5, <2>6, <2>7
<1>10. Len(all) = 9 + Len(route)
  BY <1>2, <1>3, <1>4, <1>5
<1>11. QED
  BY <1>5, <1>6, <1>7, <1>8, <1>9, <1>10 DEF u, v, f

LEMMA SnrIsRead ==
  ASSUME NEW snr \in -128 .. 127
  PROVE  snr % 256 \in Byte /\ Signed8(snr % 256) = snr
<1>1. CASE snr >= 0
  <2>1. snr % 256 = snr
    BY <1>1
  <2>2. QED
    BY <1>1, <2>1 DEF Signed8, Byte
<1>2. CASE snr < 0
  <2>1. snr % 256 = snr + 256
    BY <1>2
  <2>2. QED
    BY <1>2, <2>1 DEF Signed8, Byte
<1>3. QED
  BY <1>1, <1>2

=============================================================================
