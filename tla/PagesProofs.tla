---------------------------- MODULE PagesProofs ----------------------------
(***************************************************************************)
(* Theorems about Pages, for every plan: a TRACE shows what relays have    *)
(* measured.                                                               *)
(***************************************************************************)
EXTENDS Pages, PacketProofs

-----------------------------------------------------------------------------
(* Arguments. *)
LEMMA OnlyChoice ==
  ASSUME NEW c
  PROVE  (CHOOSE y \in {c} : TRUE) = c
OBVIOUS

LEMMA PacketArgument ==
  ASSUME NEW env, NEW p
  PROVE  /\ Fits(env, "Hex", [packet |-> p])
         /\ Argument("Hex", [packet |-> p]) = [packet |-> p]
<1> DEFINE v == [packet |-> p]
<1>1. DOMAIN v = {"packet"}
  OBVIOUS
<1>2. DOMAIN Null = {"null"} /\ DOMAIN Text(<< >>) = {"text"}
  BY DEF Null, Text
<1>3. v # Null /\ v # Text(<< >>)
  BY <1>1, <1>2
<1>4. IsHex(v)
  BY <1>1 DEF IsHex, HexStrings
<1> HIDE DEF v
<1>5. Fits(env, "Hex", v)
  BY <1>4 DEF Fits
<1>6. Argument("Hex", v) = v
  BY <1>3 DEF Argument
<1>7. QED
  BY <1>5, <1>6 DEF v

LEMMA PayloadArgument ==
  ASSUME NEW env, NEW p
  PROVE  /\ Fits(env, "Hex", [payload |-> p])
         /\ Argument("Hex", [payload |-> p]) = [payload |-> p]
         /\ PayloadIn([payload |-> p]) = p
<1> DEFINE v == [payload |-> p]
<1>1. DOMAIN v = {"payload"}
  OBVIOUS
<1>2. DOMAIN Null = {"null"} /\ DOMAIN Text(<< >>) = {"text"}
  BY DEF Null, Text
<1>3. v # Null /\ v # Text(<< >>)
  BY <1>1, <1>2
<1>4. IsHex(v)
  BY <1>1 DEF IsHex, HexStrings
<1>5. PayloadIn(v) = p
  BY DEF PayloadIn, Is
<1> HIDE DEF v
<1>6. Fits(env, "Hex", v)
  BY <1>4 DEF Fits
<1>7. Argument("Hex", v) = v
  BY <1>3 DEF Argument
<1>8. QED
  BY <1>5, <1>6, <1>7 DEF v

LEMMA BytesArgument ==
  ASSUME NEW b
  PROVE  Argument("Hex", Bytes(b)) = Bytes(b) /\ Bytes(b).bytes = b
<1> DEFINE v == Bytes(b)
<1>1. DOMAIN v = {"bytes"} /\ v.bytes = b
  BY DEF Bytes
<1>2. DOMAIN Null = {"null"} /\ DOMAIN Text(<< >>) = {"text"}
  BY DEF Null, Text
<1> HIDE DEF v
<1>3. v # Null /\ v # Text(<< >>)
  BY <1>1, <1>2
<1>4. Argument("Hex", v) = v
  BY <1>3 DEF Argument
<1>5. QED
  BY <1>1, <1>4 DEF v

LEMMA NumberArgument ==
  ASSUME NEW n
  PROVE  Argument("Int", Number(n)) = n
<1> DEFINE v == Number(n)
<1>1. DOMAIN v = {"number"} /\ v.number = n
  BY DEF Number
<1>2. DOMAIN Null = {"null"}
  BY DEF Null
<1> HIDE DEF v
<1>3. v # Null
  BY <1>1, <1>2
<1>4. Argument("Int", v) = n
  BY <1>1, <1>3 DEF Argument
<1>5. QED
  BY <1>4 DEF v

LEMMA NumberFits ==
  ASSUME NEW env, NEW n, Fits(env, "Int", Number(n))
  PROVE  Holds(env, n)
<1> DEFINE v == Number(n)
<1>1. DOMAIN v = {"number"} /\ v.number = n
  BY DEF Number
<1>2. DOMAIN Null = {"null"}
  BY DEF Null
<1>3. Fits(env, "Int", v)
  OBVIOUS
<1> HIDE DEF v
<1>4. v # Null
  BY <1>1, <1>2
<1>5. QED
  BY <1>1, <1>3, <1>4 DEF Fits

(* EncodePacket. *)
LEMMA EncodedIs ==
  ASSUME NEW packet
  PROVE  LET p   == WithDefaultHashSize(packet)
             err == ValidateWire([p EXCEPT !.Payload = Zeros(LengthOf(p.Payload))])
         IN  Encoded(packet) = IF err # Nil THEN Failed(err)
                               ELSE [hex |-> [packet |-> Normalised(p)]]
<1> DEFINE e(p) == LET err == ValidateWire([p EXCEPT !.Payload = Zeros(LengthOf(p.Payload))])
                   IN  IF err # Nil THEN Failed(err) ELSE [hex |-> [packet |-> Normalised(p)]]
           a == WithDefaultHashSize(packet)
<1>1. Encoded(packet) = CHOOSE y \in {e(z) : z \in {a}} : TRUE
  BY DEF Encoded, Of
<1> HIDE DEF a
<1>2. Encoded(packet) = e(a)
  <2> HIDE DEF e
  <2>1. {e(z) : z \in {a}} = {e(a)}
    OBVIOUS
  <2>2. QED
    BY <1>1, <2>1, OnlyChoice
<1>3. QED
  BY <1>2 DEF a

LEMMA ResultOrError ==
  ASSUME NEW why, NEW p
  PROVE  IsError(Failed(why)) /\ ~IsError([hex |-> [packet |-> p]])
BY DEF IsError, Failed

LEMMA EncodedAsItIs ==
  ASSUME NEW hashes, NEW type, NEW size, NEW path, NEW payload,
         size # 0, ~IsTransport(hashes),
         ~IsError(Encoded(PacketOf(hashes, type, size, path, payload)))
  PROVE  LET p == PacketOf(hashes, type, size, path, payload)
         IN  /\ Encoded(p) = [hex |-> [packet |-> p]]
             /\ ValidateWire([p EXCEPT !.Payload = Zeros(LengthOf(payload))]) = Nil
<1> DEFINE p   == PacketOf(hashes, type, size, path, payload)
           err == ValidateWire([p EXCEPT !.Payload = Zeros(LengthOf(p.Payload))])
<1>1. /\ p.PathHashSize = size /\ p.Route = hashes /\ p.Payload = payload
      /\ [p EXCEPT !.TransportCodes = <<0, 0>>] = p
  BY DEF PacketOf
<1>2. WithDefaultHashSize(p) = p
  BY <1>1, Zenon DEF WithDefaultHashSize
<1>3. Normalised(p) = p
  BY <1>1, <1>2, Zenon DEF Normalised
<1>4. Encoded(p) = IF err # Nil THEN Failed(err) ELSE [hex |-> [packet |-> p]]
  BY <1>2, <1>3, EncodedIs, Zenon
<1>5. err = Nil
  BY <1>4, ResultOrError, Zenon
<1>6. QED
  BY <1>1, <1>4, <1>5, Zenon

-----------------------------------------------------------------------------
(* A TRACE as a page writes and reads it. *)
TraceOf(tag, flags, hashes, path) ==
  PacketOf(RouteDirect, PayloadTrace, 1, path,
           TracePayload(Uint32(tag), Uint32(0), ByteOf(flags), hashes))

LEMMA TraceIsKept ==
  ASSUME NEW tag, NEW flags, NEW hashes, NEW path,
         ~IsError(Encoded(TraceOf(tag, flags, hashes, path)))
  PROVE  Encoded(TraceOf(tag, flags, hashes, path)) =
           [hex |-> [packet |-> TraceOf(tag, flags, hashes, path)]]
<1> DEFINE payload == TracePayload(Uint32(tag), Uint32(0), ByteOf(flags), hashes)
<1>1. TraceOf(tag, flags, hashes, path) = PacketOf(RouteDirect, PayloadTrace, 1, path, payload)
  BY DEF TraceOf
<1> HIDE DEF payload
<1>2. ~IsTransport(RouteDirect) /\ 1 # 0
  BY DEF IsTransport, RouteDirect, RouteTransportFlood, RouteTransportDirect
<1>3. ~IsError(Encoded(PacketOf(RouteDirect, PayloadTrace, 1, path, payload)))
  BY <1>1
<1>4. QED
  BY <1>1, <1>2, <1>3, EncodedAsItIs

TraceArguments(tag, flags, hashes) ==
  <<Number(tag), Number(0), Number(flags), Bytes(hashes)>>

LEMMA TraceIsWritten ==
  ASSUME NEW env, env.intLimit \in Nat, NEW tag, NEW flags, NEW hashes,
         ~IsError(encodeTrace(env, TraceArguments(tag, flags, hashes)))
  PROVE  /\ tag \in Int /\ flags \in Int
         /\ encodeTrace(env, TraceArguments(tag, flags, hashes)) =
              [hex |-> [packet |-> TraceOf(tag, flags, hashes, << >>)]]
<1> DEFINE kinds == <<"Int", "Int", "Int", "Hex">>
           raw   == TraceArguments(tag, flags, hashes)
           a     == [i \in DOMAIN raw |-> Argument(kinds[i], raw[i])]
           e(z)  == TracePacket(z[1], z[2], z[3], z[4].bytes)
           bad   == \E i \in DOMAIN raw : ~Fits(env, kinds[i], raw[i])
<1>1. /\ Len(raw) = Len(kinds) /\ DOMAIN raw = 1 .. 4
      /\ raw[1] = Number(tag) /\ raw[2] = Number(0) /\ raw[3] = Number(flags)
      /\ raw[4] = Bytes(hashes)
      /\ kinds[1] = "Int" /\ kinds[2] = "Int" /\ kinds[3] = "Int" /\ kinds[4] = "Hex"
  BY DEF TraceArguments
<1>2. encodeTrace(env, raw) =
        IF Len(raw) # Len(kinds) THEN Failed("ArgCount")
        ELSE IF bad THEN Failed("ArgType")
        ELSE CHOOSE y \in {e(z) : z \in {a}} : TRUE
  BY DEF encodeTrace, WithArgs, Of
<1>3. a[1] = tag /\ a[2] = 0 /\ a[3] = flags /\ a[4].bytes = hashes
  <2> HIDE DEF raw, kinds
  <2>1. /\ a[1] = Argument("Int", Number(tag)) /\ a[2] = Argument("Int", Number(0))
        /\ a[3] = Argument("Int", Number(flags)) /\ a[4] = Argument("Hex", Bytes(hashes))
    BY <1>1
  <2>2. a[1] = tag /\ a[2] = 0 /\ a[3] = flags
    BY <2>1, NumberArgument
  <2>3. a[4] = Bytes(hashes) /\ Bytes(hashes).bytes = hashes
    BY <2>1, BytesArgument
  <2>4. QED
    BY <2>2, <2>3
<1> HIDE DEF a, raw, kinds
<1>4. {e(z) : z \in {a}} = {e(a)}
  <2> HIDE DEF e
  <2>1. QED
    OBVIOUS
<1>5. ~bad /\ encodeTrace(env, raw) = e(a)
  <2> HIDE DEF e, bad
  <2>1. Len(raw) = Len(kinds)
    BY <1>1
  <2>2. ~bad
    BY <1>2, <2>1, ResultOrError, Zenon DEF raw
  <2>3. QED
    BY <1>2, <1>4, <2>1, <2>2, OnlyChoice, Zenon
<1>6. e(a) = Encoded(TraceOf(tag, flags, hashes, << >>))
  BY <1>3, Zenon DEF TracePacket, TraceOf
<1>7. e(a) = [hex |-> [packet |-> TraceOf(tag, flags, hashes, << >>)]]
  <2>1. ~IsError(Encoded(TraceOf(tag, flags, hashes, << >>)))
    BY <1>5, <1>6, Zenon DEF raw
  <2>2. QED
    BY <1>6, <2>1, TraceIsKept
<1>8. tag \in Int /\ flags \in Int
  <2>1. Fits(env, "Int", Number(tag)) /\ Fits(env, "Int", Number(flags))
    BY <1>1, <1>5
  <2>2. Holds(env, tag) /\ Holds(env, flags)
    BY <2>1, NumberFits
  <2>3. QED
    BY <2>2 DEF Holds
<1>9. QED
  BY <1>5, <1>7, <1>8 DEF raw

LEMMA TraceIsShown ==
  ASSUME NEW env, NEW p, p.Type = PayloadTrace, Len(p.Payload.head) >= 9
  PROVE  LET bytes == p.Payload.head
         IN  decodeTrace(env, <<[packet |-> p]>>) =
               [tag |-> Int32Or64(env, Uint32At(bytes, 1)),
                authCode |-> Int32Or64(env, Uint32At(bytes, 5)),
                flags |-> bytes[9], hashWidth |-> 2 ^ (bytes[9] % 4),
                routeHashes |-> RouteHashes(bytes[9], From(bytes, 10)),
                snrs |-> TraceSNRs(p.Path), hopCount |-> Len(p.Path)]
<1> DEFINE kinds == <<"Hex">>
           raw   == <<[packet |-> p]>>
           a     == [i \in DOMAIN raw |-> Argument(kinds[i], raw[i])]
           bytes == p.Payload.head
           fields(q, v) ==
             [tag |-> Int32Or64(env, v.tag), authCode |-> Int32Or64(env, v.authCode),
              flags |-> q.Payload.head[9], hashWidth |-> 2 ^ (q.Payload.head[9] % 4),
              routeHashes |-> v.routeHashes, snrs |-> TraceSNRs(q.Path),
              hopCount |-> Len(q.Path)]
           showing(q, d) == IF d.err # Nil THEN Failed(d.err) ELSE fields(q, d.value)
           e(z)  == LET r == Received(z[1])
                    IN  IF r.err # Nil THEN Failed(r.err)
                        ELSE IF r.packet.Type # PayloadTrace THEN Failed("NoTrace")
                        ELSE showing(r.packet, DecodeTracePayload(r.packet.Payload))
           bad   == \E i \in DOMAIN raw : ~Fits(env, kinds[i], raw[i])
<1>1. /\ Len(raw) = Len(kinds) /\ DOMAIN raw = {1}
      /\ raw[1] = [packet |-> p] /\ kinds[1] = "Hex"
  OBVIOUS
<1>2. decodeTrace(env, raw) =
        IF Len(raw) # Len(kinds) THEN Failed("ArgCount")
        ELSE IF bad THEN Failed("ArgType")
        ELSE CHOOSE y \in {e(z) : z \in {a}} : TRUE
  BY DEF decodeTrace, WithArgs, Of, Shows
<1>3. ~bad
  <2> HIDE DEF raw, kinds
  <2>1. QED
    BY <1>1, PacketArgument
<1>4. a[1] = [packet |-> p]
  <2> HIDE DEF raw, kinds
  <2>1. QED
    BY <1>1, PacketArgument
<1> HIDE DEF a, raw, kinds
<1>5. {e(z) : z \in {a}} = {e(a)}
  <2> HIDE DEF e
  <2>1. QED
    OBVIOUS
<1>6. decodeTrace(env, raw) = e(a)
  <2> HIDE DEF e, bad
  <2>1. QED
    BY <1>1, <1>2, <1>3, <1>5, OnlyChoice, Zenon
<1>7. Received(a[1]).err = Nil /\ Received(a[1]).packet = p
  BY <1>4 DEF Received, Is
<1>8. ~ (Len(bytes) < 9)
  OBVIOUS
<1> DEFINE v == [tag |-> Uint32At(bytes, 1), authCode |-> Uint32At(bytes, 5),
                 routeHashes |-> RouteHashes(bytes[9], From(bytes, 10))]
           d == DecodeTracePayload(p.Payload)
<1>9. d = Result("Trace", v)
  BY <1>8, Zenon DEF DecodeTracePayload
<1>10. d.err = Nil /\ d.value = v
  BY <1>9 DEF Result
<1>11. e(a) = fields(p, v)
  <2>1. e(a) = showing(p, d)
    <3> HIDE DEF showing
    <3>1. QED
      BY <1>7, Zenon
  <2>2. showing(p, d) = fields(p, d.value)
    <3> HIDE DEF fields, d
    <3>1. QED
      BY <1>10, Zenon
  <2>3. QED
    BY <1>10, <2>1, <2>2, Zenon
<1>12. fields(p, v) =
         [tag |-> Int32Or64(env, Uint32At(bytes, 1)),
          authCode |-> Int32Or64(env, Uint32At(bytes, 5)),
          flags |-> bytes[9], hashWidth |-> 2 ^ (bytes[9] % 4),
          routeHashes |-> RouteHashes(bytes[9], From(bytes, 10)),
          snrs |-> TraceSNRs(p.Path), hopCount |-> Len(p.Path)]
  OBVIOUS
<1>13. QED
  BY <1>6, <1>11, <1>12, Zenon DEF raw

(* A number that is narrowed to a uint32, and widened to an int again.     *)
LEMMA NarrowedIsWord ==
  ASSUME NEW n \in Int
  PROVE  Uint32(n) \in Word /\ Uint32(n) \in 0 .. UintModulus - 1
<1> DEFINE m == UintModulus
           r == n % m
<1>1. m \in Nat /\ m # 0 /\ m - 1 \in Nat /\ (m - 1) \div 16777216 < 256
  BY OperationsAssumption DEF Word
<1> HIDE DEF m
<1>2. r \in 0 .. m - 1
  BY <1>1
<1> HIDE DEF r
<1>3. r \in Nat /\ r <= m - 1
  BY <1>1, <1>2
<1>4. r \div 16777216 < 256
  BY <1>1, <1>3
<1>5. r \in Word
  BY <1>3, <1>4 DEF Word
<1>6. QED
  BY <1>2, <1>5 DEF Uint32, r, m

LEMMA WidenedIsCongruent ==
  ASSUME NEW env, env.intLimit \in Nat, NEW n \in Int
  PROVE  (Int32Or64(env, Uint32(n)) - n) % UintModulus = 0
<1> DEFINE m == UintModulus
           q == n \div m
           r == n % m
           x == Int32Or64(env, r)
<1>1. m \in Nat /\ m > 0
  BY OperationsAssumption
<1> HIDE DEF m
<1>2. q \in Int /\ r \in Int /\ n = m * q + r
  BY <1>1
<1> HIDE DEF q, r
<1>3. x = r \/ x = r - m
  BY DEF Int32Or64, m
<1> HIDE DEF x
<1>4. x - n = m * (-q) \/ x - n = m * (-q - 1)
  BY <1>1, <1>2, <1>3
<1>5. \A k \in Int : (m * k) % m = 0
  BY <1>1
<1>6. (x - n) % m = 0
  BY <1>2, <1>4, <1>5
<1>7. QED
  BY <1>6 DEF Uint32, x, r, m

(* The hashes of relays, one after another. *)
Node == [1 .. 8 -> Byte]

HashesOf(nodes, w) == [i \in DOMAIN nodes |-> SubSeq(nodes[i], 1, w)]

LEMMA ASeqOfEight ==
  ASSUME NEW x \in [1 .. 8 -> Byte]
  PROVE  x \in Seq(Byte) /\ Len(x) = 8
<1>1. 8 \in Nat
  OBVIOUS
<1>2. x \in Seq(Byte)
  BY <1>1, SeqDef, Zenon
<1>3. DOMAIN x = 1 .. 8
  OBVIOUS
<1>4. QED
  BY <1>1, <1>2, <1>3, LenProperties

LEMMA NodeHashes ==
  ASSUME NEW nodes \in Seq(Node), NEW w \in Widths
  PROVE  /\ AreHops(HashesOf(nodes, w), w)
         /\ Len(HashesOf(nodes, w)) = Len(nodes)
<1> DEFINE h == HashesOf(nodes, w)
<1>1. w \in 0 .. 8 /\ w \in Nat
  BY DEF Widths
<1>2. ASSUME NEW i \in 1 .. Len(nodes)
      PROVE  SubSeq(nodes[i], 1, w) \in Seq(Byte) /\ Len(SubSeq(nodes[i], 1, w)) = w
  <2> DEFINE x == nodes[i]
  <2>1. x \in [1 .. 8 -> Byte]
    BY DEF Node
  <2> HIDE DEF x
  <2>2. x \in Seq(Byte) /\ Len(x) = 8
    BY <2>1, ASeqOfEight
  <2>3. w \in 0 .. Len(x)
    BY <1>1, <2>2
  <2>4. SubSeq(x, 1, w) \in Seq(Byte) /\ Len(SubSeq(x, 1, w)) = w
    BY <2>2, <2>3, BeginningFacts
  <2>5. QED
    BY <2>4 DEF x
<1>3. DOMAIN nodes = 1 .. Len(nodes) /\ Len(nodes) \in Nat
  OBVIOUS
<1>4. h = [i \in 1 .. Len(nodes) |-> SubSeq(nodes[i], 1, w)]
  BY <1>3 DEF HashesOf
<1> HIDE DEF h
<1>5. h \in Seq(Seq(Byte)) /\ Len(h) = Len(nodes)
  BY <1>2, <1>3, <1>4
<1>6. \A i \in DOMAIN h : Len(h[i]) = w
  BY <1>2, <1>3, <1>4
<1>7. AreHops(h, w)
  BY <1>5, <1>6 DEF AreHops
<1>8. QED
  BY <1>5, <1>7 DEF h

LEMMA FlagsOfByte ==
  ASSUME NEW flags \in Int
  PROVE  ByteOf(flags) \in Byte /\ ByteOf(flags) % 4 = flags % 4
BY DEF ByteOf, Byte

IsShown(r, tag, flags, nodes, path) ==
  /\ r.routeHashes = HashesOf(nodes, 2 ^ (flags % 4))
  /\ r.snrs = TraceSNRs(path)
  /\ r.hopCount = Len(path)
  /\ (r.tag - tag) % UintModulus = 0

LEMMA TraceReads ==
  ASSUME NEW env, env.intLimit \in Nat, NEW tag \in Int, NEW flags \in Int,
         NEW nodes \in Seq(Node), NEW path
  PROVE  LET p == TraceOf(tag, flags, Hashes(nodes, 2 ^ (flags % 4)), path)
         IN  IsShown(decodeTrace(env, <<[packet |-> p]>>), tag, flags, nodes, path)
<1> DEFINE f     == ByteOf(flags)
           w     == 2 ^ (flags % 4)
           hops  == HashesOf(nodes, w)
           hashes == Hashes(nodes, w)
           p     == TraceOf(tag, flags, hashes, path)
           r     == decodeTrace(env, <<[packet |-> p]>>)
           bytes == p.Payload.head
<1>1. f \in Byte /\ w = 2 ^ (f % 4) /\ w \in Widths
  <2>1. f \in Byte /\ f % 4 = flags % 4
    BY FlagsOfByte
  <2> HIDE DEF f
  <2>2. QED
    BY <2>1, WidthOfFlags
<1>2. AreHops(hops, w) /\ Len(hops) = Len(nodes)
  BY <1>1, NodeHashes
<1>3. hashes = FlattenSeq(hops)
  BY DEF Hashes, HashesOf
<1>4. hashes \in Seq(Byte) /\ Len(hashes) \in Nat
  BY <1>2, <1>3, RouteIsBytes
<1>5. /\ bytes = Uint32Bytes(Uint32(tag)) \o Uint32Bytes(Uint32(0)) \o <<f>> \o hashes
      /\ p.Path = path /\ p.Type = PayloadTrace
  BY DEF TraceOf, PacketOf, TracePayload, Clear
<1>6. Uint32(tag) \in Word /\ Uint32(0) \in Word
  BY NarrowedIsWord
<1> HIDE DEF f, hashes, hops, w, bytes
<1>7. /\ Len(bytes) = 9 + Len(hashes) /\ Uint32At(bytes, 1) = Uint32(tag) /\ bytes[9] = f
      /\ From(bytes, 10) = hashes
  <2> DEFINE t == Uint32(tag)
             c == Uint32(0)
  <2>1. t \in Word /\ c \in Word
    BY <1>6
  <2>2. bytes = Uint32Bytes(t) \o Uint32Bytes(c) \o <<f>> \o hashes
    BY <1>5
  <2> HIDE DEF t, c
  <2>3. LET a == Uint32Bytes(t) \o Uint32Bytes(c) \o <<f>> \o hashes
        IN  /\ a \in Seq(Byte) /\ Len(a) = 9 + Len(hashes)
            /\ Uint32At(a, 1) = t /\ Uint32At(a, 5) = c /\ a[9] = f
            /\ From(a, 10) = hashes
    BY <1>1, <1>4, <2>1, TraceHead, Zenon
  <2>4. QED
    BY <2>2, <2>3, Zenon DEF t
<1>8. Len(bytes) >= 9
  BY <1>4, <1>7
<1> HIDE DEF p
<1>9. r = [tag |-> Int32Or64(env, Uint32At(bytes, 1)),
           authCode |-> Int32Or64(env, Uint32At(bytes, 5)),
           flags |-> bytes[9], hashWidth |-> 2 ^ (bytes[9] % 4),
           routeHashes |-> RouteHashes(bytes[9], From(bytes, 10)),
           snrs |-> TraceSNRs(p.Path), hopCount |-> Len(p.Path)]
  BY <1>5, <1>8, TraceIsShown DEF bytes
<1>10. /\ r.tag = Int32Or64(env, Uint32(tag)) /\ r.snrs = TraceSNRs(path)
       /\ r.hopCount = Len(path) /\ r.routeHashes = RouteHashes(f, hashes)
  <2> HIDE DEF r
  <2>1. QED
    BY <1>5, <1>7, <1>9
<1>11. RouteHashes(f, hashes) = hops
  <2>1. Len(hashes) \in 0 .. Len(hashes) /\ SubSeq(hashes, 1, Len(hashes)) = hashes
    BY <1>4, WholeIsBeginning
  <2>2. /\ [i \in 1 .. Len(hashes) \div w |-> SubSeq(hashes, (i - 1) * w + 1, i * w)]
             = SubSeq(hops, 1, Len(hashes) \div w)
        /\ Len(hashes) \div w = Len(hops)
    <3>1. Len(hashes) \in 0 .. Len(FlattenSeq(hops))
      BY <1>3, <2>1
    <3>2. QED
      <4> DEFINE k == Len(hashes)
      <4>1. k \in 0 .. Len(FlattenSeq(hops)) /\ SubSeq(FlattenSeq(hops), 1, k) = hashes
        BY <1>3, <2>1, <3>1
      <4>2. k = Len(FlattenSeq(hops))
        BY <1>3
      <4> HIDE DEF k
      <4>3. LET part == SubSeq(FlattenSeq(hops), 1, k)
            IN  /\ [i \in 1 .. Len(part) \div w |-> SubSeq(part, (i - 1) * w + 1, i * w)]
                     = SubSeq(hops, 1, k \div w)
                /\ k = Len(FlattenSeq(hops)) => k \div w = Len(hops)
        BY <1>2, <4>1, HashesLeft, Zenon
      <4>4. QED
        BY <4>1, <4>2, <4>3, Zenon DEF k
  <2>3. SubSeq(hops, 1, Len(hops)) = hops
    <3>1. hops \in Seq(Seq(Byte))
      BY <1>2 DEF AreHops
    <3>2. QED
      BY <3>1, WholeIsBeginning
  <2>4. QED
    BY <1>1, <2>2, <2>3 DEF RouteHashes
<1>12. (Int32Or64(env, Uint32(tag)) - tag) % UintModulus = 0
  BY WidenedIsCongruent
<1>13. QED
  BY <1>10, <1>11, <1>12 DEF IsShown, r, p, hashes, hops, w

-----------------------------------------------------------------------------
(* A TRACE of Pages: it is one that a page has written, with the signed    *)
(* SNRs of the relays that it has passed.                                  *)
SnrOf(p, hop) == p.snrs[(hop % Len(p.snrs)) + 1]
Measured(p, n) == [i \in 1 .. n |-> ByteOf(SnrOf(p, i))]

PacketAfter(p, nodes, flags, n) ==
  TraceOf(p.tag, flags, Hashes(nodes, 2 ^ (flags % 4)), Measured(p, n))

Passing ==
  /\ trace = [phase |-> trace.phase, nodes |-> trace.nodes, flags |-> trace.flags,
              packet |-> trace.packet, seen |-> trace.seen]
  /\ \E n \in 0 .. Len(trace.nodes) :
       trace.packet = PacketAfter(plan, trace.nodes, trace.flags, n)

IsTrace ==
  /\ trace.phase \in {"passing", "dropped", "shown"}
  /\ trace.nodes \in Seq(Node) /\ trace.flags \in Int /\ plan.tag \in Int
  /\ trace.phase = "passing" => Passing

TraceInv ==
  /\ plan \in Plans
  /\ trace = NoTrace \/ IsTrace
  /\ SnrAlongRoute

LEMMA PlanFacts ==
  ASSUME plan \in Plans
  PROVE  /\ plan.writer.limit \in Nat /\ plan.reader.limit \in Nat
         /\ plan.ways \subseteq Seq(Node)
         /\ \A t \in plan.traces : t.nodes \in Seq(Node)
         /\ \A i \in Nat : Snr(i) \in -128 .. 127
         /\ Prefix(plan.reader.public) \in Node
<1>1. IsPlan(plan)
  BY PagesAssumption
<1>2. /\ IsSide(plan.writer) /\ IsSide(plan.reader) /\ plan.ways \subseteq Seq(Node)
      /\ \A t \in plan.traces : t.nodes \in Seq(Node)
      /\ plan.snrs \in Seq(-128 .. 127) \ {<< >>}
  BY <1>1 DEF IsPlan, Node
<1>3. /\ plan.writer.limit \in Nat /\ plan.reader.limit \in Nat
      /\ plan.reader.public \in DOMAIN PublicBytes
  BY <1>2 DEF IsSide
<1>4. ASSUME NEW i \in Nat
      PROVE  Snr(i) \in -128 .. 127
  <2> DEFINE n == Len(plan.snrs)
             s == plan.snrs
  <2>1. s \in Seq(-128 .. 127) /\ n = Len(s) /\ n \in Nat /\ n # 0
    BY <1>2
  <2> HIDE DEF s, n
  <2>2. (i % n) + 1 \in 1 .. n
    BY <2>1
  <2>3. s[(i % n) + 1] \in -128 .. 127
    BY <2>1, <2>2, ElementOfSeq, Zenon
  <2>4. QED
    BY <2>3 DEF Snr, s, n
<1>5. Prefix(plan.reader.public) \in Node
  <2> DEFINE f == PublicBytes[plan.reader.public]
  <2>1. f \in [1 .. 32 -> Byte]
    BY <1>3, OperationsAssumption DEF KeySize
  <2>2. Prefix(plan.reader.public) = SubSeq(f, 1, 8)
    BY DEF Prefix
  <2> HIDE DEF f
  <2>3. SubSeq(f, 1, 8) = [i \in 1 .. 8 |-> f[i]]
    BY <2>1
  <2>4. [i \in 1 .. 8 |-> f[i]] \in [1 .. 8 -> Byte]
    BY <2>1
  <2>5. QED
    BY <2>2, <2>3, <2>4 DEF Node
<1>6. QED
  BY <1>2, <1>3, <1>4, <1>5

LEMMA RoutesHaveNodes ==
  ASSUME plan \in Plans, NEW r \in Routes
  PROVE  r.nodes \in Seq(Node)
<1>1. CASE r \in {[nodes |-> t.nodes, flags |-> t.flags] : t \in plan.traces}
  BY <1>1, PlanFacts
<1>2. CASE r \notin {[nodes |-> t.nodes, flags |-> t.flags] : t \in plan.traces}
  <2>1. PICK way \in plan.ways : r = [nodes |-> Return(way), flags |-> route.size - 1]
    BY <1>2 DEF Routes
  <2>2. way \in Seq(Node) /\ Prefix(plan.reader.public) \in Node
    BY <2>1, PlanFacts
  <2>3. Reverse(way) \in Seq(Node)
    BY <2>2 DEF Reverse
  <2>4. <<Prefix(plan.reader.public)>> \in Seq(Node)
    BY <2>2
  <2>5. way \o <<Prefix(plan.reader.public)>> \in Seq(Node)
    BY <2>2, <2>4, ConcatProperties
  <2>6. Return(way) \in Seq(Node)
    BY <2>3, <2>5, ConcatProperties DEF Return
  <2>7. QED
    BY <2>1, <2>6
<1>3. QED
  BY <1>1, <1>2

LEMMA Untouched ==
  ASSUME TraceInv, plan' = plan, trace' = trace
  PROVE  TraceInv'
<1>1. Passing' <=> Passing
  BY DEF Passing
<1>2. IsTrace' <=> IsTrace
  BY <1>1 DEF IsTrace
<1>3. SnrAlongRoute' <=> SnrAlongRoute
  BY DEF SnrAlongRoute, Snr
<1>4. QED
  BY <1>2, <1>3 DEF TraceInv

LEMMA TraceBegins ==
  ASSUME Init
  PROVE  TraceInv
<1>1. plan \in Plans /\ trace = NoTrace
  BY DEF Init
<1>2. NoTrace.phase # "shown"
  BY DEF NoTrace
<1>3. QED
  BY <1>1, <1>2 DEF TraceInv, SnrAlongRoute

LEMMA StartTraceKeeps ==
  ASSUME TraceInv, NEW r \in Routes, StartTrace(r)
  PROVE  TraceInv'
<1> DEFINE f      == r.flags
           ns     == r.nodes
           hashes == Hashes(ns, 2 ^ (f % 4))
           env    == Env(plan.writer.limit)
           result == encodeTrace(env, TraceArguments(plan.tag, f, hashes))
<1>1. /\ plan' = plan /\ ~IsError(result)
      /\ trace' = [phase |-> "passing", nodes |-> ns, flags |-> f,
                   packet |-> result.hex.packet, seen |-> {}]
  BY Zenon DEF StartTrace, Call, TraceArguments
<1>2. plan \in Plans /\ ns \in Seq(Node)
  BY RoutesHaveNodes DEF TraceInv
<1>3. env.intLimit \in Nat
  BY <1>2, PlanFacts DEF Env
<1> HIDE DEF env, f, ns
<1>4. /\ plan.tag \in Int /\ f \in Int
      /\ result = [hex |-> [packet |-> TraceOf(plan.tag, f, hashes, << >>)]]
  <2> HIDE DEF hashes
  <2>1. QED
    BY <1>1, <1>3, TraceIsWritten
<1> HIDE DEF result
<1>5. Measured(plan, 0) = << >>
  BY DEF Measured
<1>6. result.hex.packet = PacketAfter(plan, ns, f, 0)
  BY <1>4, <1>5 DEF PacketAfter
<1>7. /\ trace'.phase = "passing" /\ trace'.nodes = ns /\ trace'.flags = f
      /\ trace'.packet = PacketAfter(plan, ns, f, 0)
      /\ trace' = [phase |-> trace'.phase, nodes |-> trace'.nodes, flags |-> trace'.flags,
                   packet |-> trace'.packet, seen |-> trace'.seen]
  BY <1>1, <1>6
<1>8. Passing'
  <2>1. 0 \in 0 .. Len(trace'.nodes)
    <3>1. Len(ns) \in Nat
      BY <1>2
    <3>2. QED
      BY <1>7, <3>1
  <2>2. QED
    BY <1>1, <1>7, <2>1 DEF Passing
<1>9. IsTrace' /\ SnrAlongRoute'
  BY <1>1, <1>2, <1>4, <1>7, <1>8 DEF IsTrace, SnrAlongRoute
<1>10. QED
  BY <1>1, <1>2, <1>9 DEF TraceInv

Before(a, b, c, d, e) == [phase |-> a, nodes |-> b, flags |-> c, packet |-> d, seen |-> e]
Relayed(r, x, m) == [r EXCEPT !.packet = x, !.seen = @ \union {m}]

LEMMA RelayFields ==
  ASSUME NEW a, NEW b, NEW c, NEW d, NEW e, NEW x, NEW m
  PROVE  Relayed(Before(a, b, c, d, e), x, m) = Before(a, b, c, x, e \union {m})
<1> DEFINE r == [phase |-> a, nodes |-> b, flags |-> c, packet |-> d, seen |-> e]
           u == [r EXCEPT !.packet = x]
           n == e \union {m}
<1>1. [r EXCEPT !.packet = x, !.seen = @ \union {m}] = [u EXCEPT !.seen = n]
  <2>1. r.seen = e
    OBVIOUS
  <2> HIDE DEF r
  <2>2. [r EXCEPT !.packet = x, !.seen = @ \union {m}] = [r EXCEPT !.packet = x, !.seen = n]
    BY <2>1
  <2> HIDE DEF n
  <2>3. [r EXCEPT !.packet = x, !.seen = n] = [u EXCEPT !.seen = n]
    OBVIOUS
  <2>4. QED
    BY <2>2, <2>3
<1>2. u = [phase |-> a, nodes |-> b, flags |-> c, packet |-> x, seen |-> e]
  OBVIOUS
<1> HIDE DEF u, n
<1>3. [u EXCEPT !.seen = n] = [phase |-> a, nodes |-> b, flags |-> c, packet |-> x, seen |-> n]
  BY <1>2
<1>4. QED
  BY <1>1, <1>3 DEF n, Relayed, Before

LEMMA PassTraceKeeps ==
  ASSUME TraceInv, PassTrace
  PROVE  TraceInv'
<1> DEFINE p     == trace.packet
           hop   == Len(p.Path) + 1
           mark  == <<trace.nodes[hop], ContentHashOf(p)>>
           after == [p EXCEPT !.Path = Append(@, ByteOf(Snr(hop)))]
           q     == Encoded(after)
           drops == mark \in trace.seen \/ IsError(q)
           ns    == trace.nodes
           f     == trace.flags
<1>1. /\ plan' = plan /\ trace.phase = "passing" /\ hop <= Len(ns)
      /\ trace' = IF drops THEN [trace EXCEPT !.phase = "dropped"]
                  ELSE [trace EXCEPT !.packet = q.hex.packet, !.seen = @ \union {mark}]
  BY Zenon DEF PassTrace
<1>2. NoTrace.phase = "none"
  BY DEF NoTrace
<1>3. plan \in Plans /\ IsTrace /\ Passing
  BY <1>1, <1>2 DEF TraceInv, IsTrace
<1>4. /\ ns \in Seq(Node) /\ f \in Int /\ plan.tag \in Int /\ Len(ns) \in Nat
  <2>1. ns \in Seq(Node) /\ f \in Int /\ plan.tag \in Int
    BY <1>3 DEF IsTrace
  <2> HIDE DEF ns
  <2>2. Len(ns) \in Nat
    BY <2>1
  <2>3. QED
    BY <2>1, <2>2
<1>5. PICK n \in 0 .. Len(ns) : p = PacketAfter(plan, ns, f, n)
  BY <1>3 DEF Passing
<1>6. trace = [phase |-> trace.phase, nodes |-> ns, flags |-> f,
               packet |-> p, seen |-> trace.seen]
  BY <1>3 DEF Passing
<1>7. p.Path = Measured(plan, n) /\ Len(p.Path) = n /\ hop = n + 1
  <2>1. p.Path = Measured(plan, n)
    BY <1>5 DEF PacketAfter, TraceOf, PacketOf
  <2>2. Len(Measured(plan, n)) = n
    BY <1>4 DEF Measured
  <2>3. QED
    BY <2>1, <2>2
<1>8. CASE drops
  <2>1. trace' = [trace EXCEPT !.phase = "dropped"]
    BY <1>1, <1>8, Zenon
  <2>2. trace'.phase = "dropped" /\ trace'.nodes = ns /\ trace'.flags = f
    <3> HIDE DEF ns, f, p
    <3>1. QED
      BY <1>6, <2>1
  <2>3. QED
    BY <1>1, <1>3, <1>4, <2>2 DEF TraceInv, IsTrace, SnrAlongRoute
<1>9. CASE ~drops
  <2>1. trace' = [trace EXCEPT !.packet = q.hex.packet, !.seen = @ \union {mark}]
    BY <1>1, <1>9, Zenon
  <2>2. Append(Measured(plan, n), ByteOf(Snr(n + 1))) = Measured(plan, n + 1)
    <3>1. Snr(n + 1) = SnrOf(plan, n + 1)
      BY DEF Snr, SnrOf
    <3>2. n \in Nat
      BY <1>4
    <3>3. QED
      BY <3>1, <3>2 DEF Measured
  <2>3. after = PacketAfter(plan, ns, f, n + 1)
    <3>1. after = [PacketAfter(plan, ns, f, n) EXCEPT !.Path = Measured(plan, n + 1)]
      BY <1>5, <1>7, <2>2
    <3> DEFINE payload == TracePayload(Uint32(plan.tag), Uint32(0), ByteOf(f),
                                       Hashes(ns, 2 ^ (f % 4)))
    <3>2. \A m : PacketAfter(plan, ns, f, m)
                  = PacketOf(RouteDirect, PayloadTrace, 1, Measured(plan, m), payload)
      BY DEF PacketAfter, TraceOf
    <3>3. \A a, b : [PacketOf(RouteDirect, PayloadTrace, 1, a, payload) EXCEPT !.Path = b]
                     = PacketOf(RouteDirect, PayloadTrace, 1, b, payload)
      <4> HIDE DEF payload
      <4>1. QED
        BY DEF PacketOf
    <3> HIDE DEF payload, after
    <3>4. QED
      BY <3>1, <3>2, <3>3
  <2>4. q.hex.packet = PacketAfter(plan, ns, f, n + 1)
    <3>1. ~IsError(Encoded(PacketAfter(plan, ns, f, n + 1)))
      BY <1>9, <2>3
    <3>2. Encoded(PacketAfter(plan, ns, f, n + 1))
            = [hex |-> [packet |-> PacketAfter(plan, ns, f, n + 1)]]
      BY <3>1, TraceIsKept DEF PacketAfter
    <3>3. QED
      BY <2>3, <3>2
  <2>5. /\ trace'.phase = "passing" /\ trace'.nodes = ns /\ trace'.flags = f
        /\ trace'.packet = PacketAfter(plan, ns, f, n + 1)
        /\ trace' = [phase |-> trace'.phase, nodes |-> trace'.nodes, flags |-> trace'.flags,
                     packet |-> trace'.packet, seen |-> trace'.seen]
    <3>1. trace' = [trace EXCEPT !.packet = PacketAfter(plan, ns, f, n + 1),
                                 !.seen = @ \union {mark}]
      BY <2>1, <2>4
    <3> HIDE DEF ns, f, p, q, mark
    <3>2. trace' = [phase |-> "passing", nodes |-> ns, flags |-> f,
                    packet |-> PacketAfter(plan, ns, f, n + 1),
                    seen |-> trace.seen \union {mark}]
      <4> DEFINE a == trace.phase
                 e == trace.seen
                 x == PacketAfter(plan, ns, f, n + 1)
      <4>1. trace = Before(a, ns, f, p, e)
        BY <1>6 DEF Before
      <4>2. trace' = Relayed(trace, x, mark)
        BY <3>1, Zenon DEF Relayed
      <4>3. a = "passing"
        BY <1>1
      <4> HIDE DEF a, e, x
      <4>4. trace' = Before(a, ns, f, x, e \union {mark})
        <5>1. Relayed(Before(a, ns, f, p, e), x, mark) = Before(a, ns, f, x, e \union {mark})
          BY RelayFields
        <5>2. Relayed(trace, x, mark) = Relayed(Before(a, ns, f, p, e), x, mark)
          BY <4>1
        <5>3. QED
          BY <4>2, <5>1, <5>2
      <4>5. QED
        BY <4>3, <4>4 DEF x, e, Before
    <3>3. QED
      BY <3>2
  <2>6. Passing'
    <3>1. n + 1 \in 0 .. Len(trace'.nodes)
      BY <1>1, <1>4, <1>7, <2>5
    <3>2. QED
      BY <1>1, <2>5, <3>1 DEF Passing
  <2>7. IsTrace' /\ SnrAlongRoute'
    BY <1>1, <1>4, <2>5, <2>6 DEF IsTrace, SnrAlongRoute
  <2>8. QED
    BY <1>1, <1>3, <2>7 DEF TraceInv
<1>10. QED
  BY <1>8, <1>9, Zenon

LEMMA ShowTraceKeeps ==
  ASSUME TraceInv, ShowTrace
  PROVE  TraceInv'
<1> DEFINE p      == trace.packet
           ns     == trace.nodes
           f      == trace.flags
           w      == 2 ^ (f % 4)
           env    == Env(plan.writer.limit)
           result == decodeTrace(env, <<[packet |-> p]>>)
<1>1. /\ plan' = plan /\ trace.phase = "passing" /\ Len(p.Path) = Len(ns)
      /\ trace' = [phase |-> "shown", nodes |-> ns, flags |-> f, result |-> result]
  BY Zenon DEF ShowTrace, Call
<1>2. NoTrace.phase = "none"
  BY DEF NoTrace
<1>3. plan \in Plans /\ IsTrace /\ Passing
  <2> HIDE DEF p, ns, f, result
  <2>1. QED
    BY <1>1, <1>2 DEF TraceInv, IsTrace
<1>4. /\ ns \in Seq(Node) /\ f \in Int /\ plan.tag \in Int /\ Len(ns) \in Nat
  BY <1>3 DEF IsTrace
<1>5. PICK n \in 0 .. Len(ns) : p = PacketAfter(plan, ns, f, n)
  BY <1>3 DEF Passing
<1>6. trace = [phase |-> trace.phase, nodes |-> ns, flags |-> f,
               packet |-> p, seen |-> trace.seen]
  BY <1>3 DEF Passing
<1>7. n = Len(ns)
  <2>1. p.Path = Measured(plan, n)
    BY <1>5 DEF PacketAfter, TraceOf, PacketOf
  <2>2. Len(Measured(plan, n)) = n
    BY <1>4 DEF Measured
  <2>3. QED
    BY <1>1, <2>1, <2>2
<1>8. env.intLimit \in Nat
  BY <1>3, PlanFacts DEF Env
<1> DEFINE path == Measured(plan, n)
<1>9. /\ result.routeHashes = HashesOf(ns, w)
      /\ result.snrs = TraceSNRs(path)
      /\ result.hopCount = Len(path)
      /\ (result.tag - plan.tag) % UintModulus = 0
  <2>1. p = TraceOf(plan.tag, f, Hashes(ns, w), path)
    BY <1>5 DEF PacketAfter
  <2> HIDE DEF ns, f, path, env, p
  <2>2. LET q == TraceOf(plan.tag, f, Hashes(ns, 2 ^ (f % 4)), path)
        IN  IsShown(decodeTrace(env, <<[packet |-> q]>>), plan.tag, f, ns, path)
    BY <1>4, <1>8, TraceReads, Zenon
  <2>3. IsShown(decodeTrace(env, <<[packet |-> p]>>), plan.tag, f, ns, path)
    BY <2>1, <2>2, Zenon
  <2>4. QED
    BY <2>3 DEF IsShown
<1>10. result.snrs = [i \in DOMAIN ns |-> Snr(i)] /\ Len(path) = Len(ns)
  <2>1. DOMAIN path = 1 .. Len(ns) /\ DOMAIN ns = 1 .. Len(ns) /\ Len(path) = Len(ns)
    BY <1>4, <1>7 DEF Measured
  <2>2. ASSUME NEW i \in 1 .. Len(ns)
        PROVE  Signed8(path[i]) = Snr(i)
    <3>1. path[i] = Snr(i) % 256
      BY <1>7, <2>2 DEF Measured, SnrOf, Snr, ByteOf
    <3>2. i \in Nat
      BY <1>4
    <3>3. Snr(i) \in -128 .. 127
      BY <1>3, <3>2, PlanFacts
    <3>4. QED
      BY <3>1, <3>3, SnrIsRead
  <2> HIDE DEF path, ns
  <2>3. TraceSNRs(path) = [i \in 1 .. Len(ns) |-> Signed8(path[i])]
    BY <2>1 DEF TraceSNRs
  <2>4. QED
    BY <1>9, <2>1, <2>2, <2>3
<1>11. /\ trace'.phase = "shown" /\ trace'.nodes = ns /\ trace'.flags = f
       /\ trace'.result = result
  <2> HIDE DEF ns, f, p, result
  <2>1. QED
    BY <1>1
<1>12. Len(HashesOf(ns, w)) = Len(ns)
  BY <1>4 DEF HashesOf
<1>13. SnrAlongRoute'
  <2>1. \A i : Snr(i)' = Snr(i)
    BY <1>1 DEF Snr
  <2> HIDE DEF ns, f, p, result, path
  <2>2. QED
    BY <1>1, <1>9, <1>10, <1>11, <1>12, <2>1 DEF SnrAlongRoute, HashesOf
<1>14. IsTrace'
  BY <1>1, <1>4, <1>11 DEF IsTrace
<1>15. QED
  BY <1>1, <1>3, <1>13, <1>14 DEF TraceInv

(* What a page shows of a TRACE is what the relays measured, in the order  *)
(* of the route, for every route, number of hops, flags and tag (trace.go, *)
(* ops.go:1375-1410).                                                      *)
THEOREM PagesShowWhatRelaysMeasured == Spec => []SnrAlongRoute
<1>1. Init => TraceInv
  BY TraceBegins
<1>2. TraceInv /\ [Next]_vars => TraceInv'
  <2> SUFFICES ASSUME TraceInv, [Next]_vars
               PROVE  TraceInv'
    OBVIOUS
  <2>1. CASE Tick \/ Write \/ \E m \in air : Read(m) \/ Notice(m) \/ Lose(m)
    <3>1. plan' = plan /\ trace' = trace
      BY <2>1 DEF Tick, Write, Read, Notice, Lose
    <3>2. QED
      BY <3>1, Untouched
  <2>2. ASSUME NEW r \in Routes, StartTrace(r)
        PROVE  TraceInv'
    BY <2>2, StartTraceKeeps
  <2>3. CASE PassTrace
    BY <2>3, PassTraceKeeps
  <2>4. CASE ShowTrace
    BY <2>4, ShowTraceKeeps
  <2>5. CASE (\E c \in plan.calls : Ask(c)) \/ \E a \in asked : Look(a)
    <3>1. plan' = plan /\ trace' = trace
      BY <2>5 DEF Ask, Look
    <3>2. QED
      BY <3>1, Untouched
  <2>6. CASE UNCHANGED vars
    BY <2>6, Untouched DEF vars
  <2>7. QED
    BY <2>1, <2>2, <2>3, <2>4, <2>5, <2>6 DEF Next
<1>3. TraceInv => SnrAlongRoute
  BY DEF TraceInv
<1>4. QED
  BY <1>1, <1>2, <1>3, PTL DEF Spec

-----------------------------------------------------------------------------
(* A conversation.  What its operations do with their arguments.           *)
Arguments(raw, kinds) == [i \in DOMAIN raw |-> Argument(kinds[i], raw[i])]

Ran(env, raw, kinds, results) ==
  IF Len(raw) # Len(kinds)                                   THEN Failed("ArgCount")
  ELSE IF \E i \in DOMAIN raw : ~Fits(env, kinds[i], raw[i]) THEN Failed("ArgType")
  ELSE CHOOSE y \in results : TRUE

LEMMA RanWell ==
  ASSUME NEW env, NEW raw, NEW kinds, NEW results, NEW c, results = {c},
         ~IsError(Ran(env, raw, kinds, results))
  PROVE  /\ Ran(env, raw, kinds, results) = c
         /\ \A i \in DOMAIN raw : Fits(env, kinds[i], raw[i])
<1>1. ~ (Len(raw) # Len(kinds))
  BY ResultOrError, Zenon DEF Ran
<1>2. ~ (\E i \in DOMAIN raw : ~Fits(env, kinds[i], raw[i]))
  BY <1>1, ResultOrError, Zenon DEF Ran
<1>3. Ran(env, raw, kinds, results) = CHOOSE y \in {c} : TRUE
  BY <1>1, <1>2, Zenon DEF Ran
<1>4. QED
  BY <1>2, <1>3, OnlyChoice, Zenon

IsKey(k) == k = [key |-> k.key, size |-> k.size]

LEMMA KeyArgument ==
  ASSUME NEW k, IsKey(k)
  PROVE  Argument("Hex", k) = k /\ Argument("String", k) = k
<1>1. DOMAIN k = {"key", "size"}
  BY DEF IsKey
<1>2. DOMAIN Null = {"null"} /\ DOMAIN Text(<< >>) = {"text"}
  BY DEF Null, Text
<1>3. k # Null /\ k # Text(<< >>)
  BY <1>1, <1>2
<1>4. ~Is("text", k)
  BY <1>1 DEF Is
<1>5. QED
  BY <1>3, <1>4 DEF Argument

LEMMA TextArgument ==
  ASSUME NEW x
  PROVE  Argument("String", Text(x)).text = Shown(x)
<1> DEFINE v == Text(x)
<1>1. DOMAIN v = {"text"} /\ v.text = x
  BY DEF Text
<1>2. DOMAIN Null = {"null"}
  BY DEF Null
<1> HIDE DEF v
<1>3. v # Null /\ Is("text", v)
  BY <1>1, <1>2 DEF Is
<1>4. Argument("String", v) = Text(Shown(x))
  BY <1>1, <1>3 DEF Argument
<1>5. QED
  BY <1>4 DEF v, Text

LEMMA IdentityTextRuns ==
  ASSUME NEW env, NEW k, NEW p, NEW x, NEW ts, NEW n, IsKey(k), IsKey(p),
         NEW raw, raw = <<k, p, Text(x), Number(ts), Number(n)>>,
         ~IsError(encodeDirectTextIdentity(env, raw))
  PROVE  encodeDirectTextIdentity(env, raw) =
           DirectTextPacketFromIdentity(k, p, Shown(x), ts, n, Flooding(DefaultPathHashSize))
<1> DEFINE kinds == <<"Hex", "Hex", "String", "Int", "Int">>
           a     == Arguments(raw, kinds)
           e(z)  == DirectTextPacketFromIdentity(z[1], z[2], z[3].text, z[4], z[5],
                             Flooding(DefaultPathHashSize))
           S     == {e(z) : z \in {a}}
<1>1. encodeDirectTextIdentity(env, raw) = Ran(env, raw, kinds, S)
  BY DEF encodeDirectTextIdentity, WithArgs, Of, Ran, Arguments
<1>2. a[1] = k /\ a[2] = p /\ a[3].text = Shown(x) /\ a[4] = ts /\ a[5] = n
  BY KeyArgument, NumberArgument, TextArgument DEF Arguments
<1> HIDE DEF a, kinds
<1>3. S = {e(a)}
  OBVIOUS
<1> HIDE DEF e, S
<1>4. encodeDirectTextIdentity(env, raw) = e(a)
  BY <1>1, <1>3, RanWell, Zenon
<1>5. QED
  BY <1>2, <1>4, Zenon DEF e

LEMMA IdentityPathTextRuns ==
  ASSUME NEW env, NEW k, NEW p, NEW x, NEW ts, NEW n, NEW path, NEW size, IsKey(k),
         IsKey(p),
         NEW raw, raw = <<k, p, Text(x), Number(ts), Number(n), Bytes(path), Number(size)>>,
         ~IsError(encodeDirectTextIdentityPath(env, raw))
  PROVE  encodeDirectTextIdentityPath(env, raw) =
           DirectTextPacketFromIdentity(k, p, Shown(x), ts, n, Along(path, size))
<1> DEFINE kinds == <<"Hex", "Hex", "String", "Int", "Int", "Hex", "Int">>
           a     == Arguments(raw, kinds)
           e(z)  == DirectTextPacketFromIdentity(z[1], z[2], z[3].text, z[4], z[5],
                             Along(z[6].bytes, z[7]))
           S     == {e(z) : z \in {a}}
<1>1. encodeDirectTextIdentityPath(env, raw) = Ran(env, raw, kinds, S)
  BY DEF encodeDirectTextIdentityPath, WithArgs, Of, Ran, Arguments
<1>2. a[1] = k /\ a[2] = p /\ a[3].text = Shown(x) /\ a[4] = ts /\ a[5] = n /\
      a[6].bytes = path /\ a[7] = size
  BY BytesArgument, KeyArgument, NumberArgument, TextArgument DEF Arguments
<1> HIDE DEF a, kinds
<1>3. S = {e(a)}
  OBVIOUS
<1> HIDE DEF e, S
<1>4. encodeDirectTextIdentityPath(env, raw) = e(a)
  BY <1>1, <1>3, RanWell, Zenon
<1>5. QED
  BY <1>2, <1>4, Zenon DEF e

LEMMA ExpandedTextRuns ==
  ASSUME NEW env, NEW k, NEW m, NEW p, NEW x, NEW ts, NEW n, IsKey(k), IsKey(m),
         IsKey(p),
         NEW raw, raw = <<k, m, p, Text(x), Number(ts), Number(n)>>,
         ~IsError(encodeDirectTextExpanded(env, raw))
  PROVE  encodeDirectTextExpanded(env, raw) =
           DirectTextPacketFromExpanded(k, m, p, Shown(x), ts, n, Flooding(DefaultPathHashSize))
<1> DEFINE kinds == <<"Hex", "Hex", "Hex", "String", "Int", "Int">>
           a     == Arguments(raw, kinds)
           e(z)  == DirectTextPacketFromExpanded(z[1], z[2], z[3], z[4].text, z[5], z[6],
                             Flooding(DefaultPathHashSize))
           S     == {e(z) : z \in {a}}
<1>1. encodeDirectTextExpanded(env, raw) = Ran(env, raw, kinds, S)
  BY DEF encodeDirectTextExpanded, WithArgs, Of, Ran, Arguments
<1>2. a[1] = k /\ a[2] = m /\ a[3] = p /\ a[4].text = Shown(x) /\ a[5] = ts /\
      a[6] = n
  BY KeyArgument, NumberArgument, TextArgument DEF Arguments
<1> HIDE DEF a, kinds
<1>3. S = {e(a)}
  OBVIOUS
<1> HIDE DEF e, S
<1>4. encodeDirectTextExpanded(env, raw) = e(a)
  BY <1>1, <1>3, RanWell, Zenon
<1>5. QED
  BY <1>2, <1>4, Zenon DEF e

LEMMA ExpandedPathTextRuns ==
  ASSUME NEW env, NEW k, NEW m, NEW p, NEW x, NEW ts, NEW n, NEW path, NEW size,
         IsKey(k), IsKey(m), IsKey(p),
         NEW raw, raw = <<k, m, p, Text(x), Number(ts), Number(n), Bytes(path), Number(size)>>,
         ~IsError(encodeDirectTextExpandedPath(env, raw))
  PROVE  encodeDirectTextExpandedPath(env, raw) =
           DirectTextPacketFromExpanded(k, m, p, Shown(x), ts, n, Along(path, size))
<1> DEFINE kinds == <<"Hex", "Hex", "Hex", "String", "Int", "Int", "Hex", "Int">>
           a     == Arguments(raw, kinds)
           e(z)  == DirectTextPacketFromExpanded(z[1], z[2], z[3], z[4].text, z[5], z[6],
                             Along(z[7].bytes, z[8]))
           S     == {e(z) : z \in {a}}
<1>1. encodeDirectTextExpandedPath(env, raw) = Ran(env, raw, kinds, S)
  BY DEF encodeDirectTextExpandedPath, WithArgs, Of, Ran, Arguments
<1>2. a[1] = k /\ a[2] = m /\ a[3] = p /\ a[4].text = Shown(x) /\ a[5] = ts /\
      a[6] = n /\ a[7].bytes = path /\ a[8] = size
  BY BytesArgument, KeyArgument, NumberArgument, TextArgument DEF Arguments
<1> HIDE DEF a, kinds
<1>3. S = {e(a)}
  OBVIOUS
<1> HIDE DEF e, S
<1>4. encodeDirectTextExpandedPath(env, raw) = e(a)
  BY <1>1, <1>3, RanWell, Zenon
<1>5. QED
  BY <1>2, <1>4, Zenon DEF e

LegacyText(env, k, p, text) ==
  WithSecret(keysAndSecret(k, p), LAMBDA s :
    DirectTextPacket(s, PublicKeyFromPrivate(k), p.key, text, env.now, 0,
                     Flooding(DefaultPathHashSize)))

LEMMA LegacyTextRuns ==
  ASSUME NEW env, NEW k, NEW p, NEW x, IsKey(k), IsKey(p),
         NEW raw, raw = <<k, p, Text(x)>>,
         ~IsError(encodeDirectText(env, raw))
  PROVE  encodeDirectText(env, raw) =
           LegacyText(env, k, p, Shown(x))
<1> DEFINE kinds == <<"String", "String", "String">>
           a     == Arguments(raw, kinds)
           e(z)  == LegacyText(env, z[1], z[2], z[3].text)
           S     == {e(z) : z \in {a}}
<1>1. encodeDirectText(env, raw) = Ran(env, raw, kinds, S)
  BY DEF encodeDirectText, WithArgs, Of, Ran, Arguments, LegacyText
<1>2. a[1] = k /\ a[2] = p /\ a[3].text = Shown(x)
  BY KeyArgument, TextArgument DEF Arguments
<1> HIDE DEF a, kinds
<1>3. S = {e(a)}
  OBVIOUS
<1> HIDE DEF e, S
<1>4. encodeDirectText(env, raw) = e(a)
  BY <1>1, <1>3, RanWell, Zenon
<1>5. QED
  BY <1>2, <1>4, Zenon DEF e

LEMMA IdentityReads ==
  ASSUME NEW env, NEW b, NEW k, NEW p, IsKey(k), IsKey(p),
         NEW raw, raw = <<[payload |-> b], k, p>>,
         ~IsError(decodeDirectTextIdentity(env, raw))
  PROVE  decodeDirectTextIdentity(env, raw) =
           ReadDirectText(identitySharedSecret(k, p), b)
<1> DEFINE kinds == <<"Hex", "String", "String">>
           a     == Arguments(raw, kinds)
           e(z)  == ReadDirectText(identitySharedSecret(z[2], z[3]), PayloadIn(z[1]))
           S     == {e(z) : z \in {a}}
<1>1. decodeDirectTextIdentity(env, raw) = Ran(env, raw, kinds, S)
  BY DEF decodeDirectTextIdentity, WithArgs, Of, Ran, Arguments
<1>2. PayloadIn(a[1]) = b /\ a[2] = k /\ a[3] = p
  BY KeyArgument, PayloadArgument DEF Arguments
<1> HIDE DEF a, kinds
<1>3. S = {e(a)}
  OBVIOUS
<1> HIDE DEF e, S
<1>4. decodeDirectTextIdentity(env, raw) = e(a)
  BY <1>1, <1>3, RanWell, Zenon
<1>5. QED
  BY <1>2, <1>4, Zenon DEF e

LEMMA ExpandedReads ==
  ASSUME NEW env, NEW b, NEW k, NEW p, IsKey(k), IsKey(p),
         NEW raw, raw = <<[payload |-> b], k, p>>,
         ~IsError(decodeDirectTextExpanded(env, raw))
  PROVE  decodeDirectTextExpanded(env, raw) =
           ReadDirectText(SharedSecretFromExpanded(k, p), b)
<1> DEFINE kinds == <<"Hex", "String", "String">>
           a     == Arguments(raw, kinds)
           e(z)  == ReadDirectText(SharedSecretFromExpanded(z[2], z[3]), PayloadIn(z[1]))
           S     == {e(z) : z \in {a}}
<1>1. decodeDirectTextExpanded(env, raw) = Ran(env, raw, kinds, S)
  BY DEF decodeDirectTextExpanded, WithArgs, Of, Ran, Arguments
<1>2. PayloadIn(a[1]) = b /\ a[2] = k /\ a[3] = p
  BY KeyArgument, PayloadArgument DEF Arguments
<1> HIDE DEF a, kinds
<1>3. S = {e(a)}
  OBVIOUS
<1> HIDE DEF e, S
<1>4. decodeDirectTextExpanded(env, raw) = e(a)
  BY <1>1, <1>3, RanWell, Zenon
<1>5. QED
  BY <1>2, <1>4, Zenon DEF e

LEMMA LegacyReads ==
  ASSUME NEW env, NEW b, NEW k, NEW p, IsKey(k), IsKey(p),
         NEW raw, raw = <<[payload |-> b], k, p>>,
         ~IsError(decodeDirectText(env, raw))
  PROVE  decodeDirectText(env, raw) =
           ReadDirectText(keysAndSecret(k, p), b)
<1> DEFINE kinds == <<"Hex", "String", "String">>
           a     == Arguments(raw, kinds)
           e(z)  == ReadDirectText(keysAndSecret(z[2], z[3]), PayloadIn(z[1]))
           S     == {e(z) : z \in {a}}
<1>1. decodeDirectText(env, raw) = Ran(env, raw, kinds, S)
  BY DEF decodeDirectText, WithArgs, Of, Ran, Arguments
<1>2. PayloadIn(a[1]) = b /\ a[2] = k /\ a[3] = p
  BY KeyArgument, PayloadArgument DEF Arguments
<1> HIDE DEF a, kinds
<1>3. S = {e(a)}
  OBVIOUS
<1> HIDE DEF e, S
<1>4. decodeDirectText(env, raw) = e(a)
  BY <1>1, <1>3, RanWell, Zenon
<1>5. QED
  BY <1>2, <1>4, Zenon DEF e

LEMMA ChecksumRuns ==
  ASSUME NEW env, NEW ts, NEW n, NEW x, NEW k, IsKey(k),
         NEW raw, raw = <<Number(ts), Number(n), Text(x), k>>,
         ~IsError(textAckCrc(env, raw))
  PROVE  textAckCrc(env, raw) =
           [crc |-> Int32Or64(env, AckNumber(ts, n, Shown(x), k.key))]
<1> DEFINE kinds == <<"Int", "Int", "String", "Hex">>
           a     == Arguments(raw, kinds)
           e(z)  == [crc |-> Int32Or64(env, AckNumber(z[1], z[2], z[3].text, z[4].key))]
           S     == {e(z) : z \in {a}}
<1>1. textAckCrc(env, raw) = Ran(env, raw, kinds, S)
  BY DEF textAckCrc, WithArgs, Of, Ran, Arguments
<1>2. a[1] = ts /\ a[2] = n /\ a[3].text = Shown(x) /\ a[4] = k
  BY KeyArgument, NumberArgument, TextArgument DEF Arguments
<1> HIDE DEF a, kinds
<1>3. S = {e(a)}
  OBVIOUS
<1> HIDE DEF e, S
<1>4. textAckCrc(env, raw) = e(a)
  BY <1>1, <1>3, RanWell, Zenon
<1>5. QED
  BY <1>2, <1>4, Zenon DEF e

LEMMA TextAckRuns ==
  ASSUME NEW env, NEW ts, NEW n, NEW x, NEW k, IsKey(k),
         NEW raw, raw = <<Number(ts), Number(n), Text(x), k>>,
         ~IsError(encodeTextAck(env, raw))
  PROVE  encodeTextAck(env, raw) =
           IF ~HasBytes(k, KeySize) THEN Failed("KeySize")
           ELSE AckPacket(AckNumber(ts, n, Shown(x), k.key))
<1> DEFINE kinds == <<"Int", "Int", "String", "Hex">>
           a     == Arguments(raw, kinds)
           e(z)  == IF ~HasBytes(z[4], KeySize) THEN Failed("KeySize")
                    ELSE AckPacket(AckNumber(z[1], z[2], z[3].text, z[4].key))
           S     == {e(z) : z \in {a}}
<1>1. encodeTextAck(env, raw) = Ran(env, raw, kinds, S)
  BY DEF encodeTextAck, WithArgs, Of, Ran, Arguments
<1>2. a[1] = ts /\ a[2] = n /\ a[3].text = Shown(x) /\ a[4] = k
  BY KeyArgument, NumberArgument, TextArgument DEF Arguments
<1> HIDE DEF a, kinds
<1>3. S = {e(a)}
  OBVIOUS
<1> HIDE DEF e, S
<1>4. encodeTextAck(env, raw) = e(a)
  BY <1>1, <1>3, RanWell, Zenon
<1>5. QED
  BY <1>2, <1>4, Zenon DEF e

LEMMA MultipartRuns ==
  ASSUME NEW env, NEW r, NEW n,
         NEW raw, raw = <<Number(r), Number(n)>>,
         ~IsError(encodeMultipartAck(env, raw))
  PROVE  encodeMultipartAck(env, raw) =
           Encoded(PacketOf(RouteDirect, PayloadMultipart, DefaultPathHashSize, << >>,
                            MultipartAckPayload(ByteOf(r), Uint32(n))))
<1> DEFINE kinds == <<"Int", "Int">>
           a     == Arguments(raw, kinds)
           e(z)  == Encoded(PacketOf(RouteDirect, PayloadMultipart, DefaultPathHashSize, << >>,
                                     MultipartAckPayload(ByteOf(z[1]), Uint32(z[2]))))
           S     == {e(z) : z \in {a}}
<1>1. encodeMultipartAck(env, raw) = Ran(env, raw, kinds, S)
  BY DEF encodeMultipartAck, WithArgs, Of, Ran, Arguments
<1>2. a[1] = r /\ a[2] = n
  BY NumberArgument DEF Arguments
<1> HIDE DEF a, kinds
<1>3. S = {e(a)}
  OBVIOUS
<1> HIDE DEF e, S
<1>4. encodeMultipartAck(env, raw) = e(a)
  BY <1>1, <1>3, RanWell, Zenon
<1>5. QED
  BY <1>2, <1>4, Zenon DEF e

ReturnWith(keys, env, mine, peer, ts, n, text, path, size) ==
  WithSecret(keys, LAMBDA s : PathTextAck(env, s, mine, peer, ts, n, text, path, size))

LEMMA IdentityReturnRuns ==
  ASSUME NEW env, NEW k, NEW p, NEW ts, NEW n, NEW x, NEW path, NEW size, IsKey(k),
         IsKey(p),
         NEW raw, raw = <<k, p, Number(ts), Number(n), Text(x), Bytes(path), Number(size)>>,
         ~IsError(encodePathTextAckIdentity(env, raw))
  PROVE  encodePathTextAckIdentity(env, raw) =
           ReturnWith(identitySharedSecret(k, p), env, IdentityFromSeed(k.key).PublicKey, p.key,
                      ts, n, Shown(x), path, size)
<1> DEFINE kinds == <<"Hex", "Hex", "Int", "Int", "String", "Hex", "Int">>
           a     == Arguments(raw, kinds)
           e(z)  == ReturnWith(identitySharedSecret(z[1], z[2]), env,
                               IdentityFromSeed(z[1].key).PublicKey, z[2].key,
                               z[3], z[4], z[5].text, z[6].bytes, z[7])
           S     == {e(z) : z \in {a}}
<1>1. encodePathTextAckIdentity(env, raw) = Ran(env, raw, kinds, S)
  BY DEF encodePathTextAckIdentity, WithArgs, Of, Ran, Arguments, ReturnWith
<1>2. a[1] = k /\ a[2] = p /\ a[3] = ts /\ a[4] = n /\ a[5].text = Shown(x) /\
      a[6].bytes = path /\ a[7] = size
  BY BytesArgument, KeyArgument, NumberArgument, TextArgument DEF Arguments
<1> HIDE DEF a, kinds
<1>3. S = {e(a)}
  OBVIOUS
<1> HIDE DEF e, S
<1>4. encodePathTextAckIdentity(env, raw) = e(a)
  BY <1>1, <1>3, RanWell, Zenon
<1>5. QED
  BY <1>2, <1>4, Zenon DEF e

LEMMA ExpandedReturnRuns ==
  ASSUME NEW env, NEW k, NEW m, NEW p, NEW ts, NEW n, NEW x, NEW path, NEW size,
         IsKey(k), IsKey(m), IsKey(p),
         NEW raw, raw = <<k, m, p, Number(ts), Number(n), Text(x), Bytes(path), Number(size)>>,
         ~IsError(encodePathTextAckExpanded(env, raw))
  PROVE  encodePathTextAckExpanded(env, raw) =
           ReturnWith(expandedIdentityContext(k, m, p), env, m.key, p.key,
                      ts, n, Shown(x), path, size)
<1> DEFINE kinds == <<"Hex", "Hex", "Hex", "Int", "Int", "String", "Hex", "Int">>
           a     == Arguments(raw, kinds)
           e(z)  == ReturnWith(expandedIdentityContext(z[1], z[2], z[3]), env, z[2].key, z[3].key,
                               z[4], z[5], z[6].text, z[7].bytes, z[8])
           S     == {e(z) : z \in {a}}
<1>1. encodePathTextAckExpanded(env, raw) = Ran(env, raw, kinds, S)
  BY DEF encodePathTextAckExpanded, WithArgs, Of, Ran, Arguments, ReturnWith
<1>2. a[1] = k /\ a[2] = m /\ a[3] = p /\ a[4] = ts /\ a[5] = n /\
      a[6].text = Shown(x) /\ a[7].bytes = path /\ a[8] = size
  BY BytesArgument, KeyArgument, NumberArgument, TextArgument DEF Arguments
<1> HIDE DEF a, kinds
<1>3. S = {e(a)}
  OBVIOUS
<1> HIDE DEF e, S
<1>4. encodePathTextAckExpanded(env, raw) = e(a)
  BY <1>1, <1>3, RanWell, Zenon
<1>5. QED
  BY <1>2, <1>4, Zenon DEF e

EnvelopeOf(p) ==
  [routeCode |-> p.Route, typeCode |-> p.Type, version |-> p.Version,
   pathHashSize |-> p.PathHashSize, hopCount |-> HopCount(p), hops |-> Hops(p),
   payloadHex |-> [payload |-> p.Payload], isTransport |-> IsTransport(p.Route)]

ShownEnvelope(r) ==
  IF r.err # Nil THEN Failed(r.err)
  ELSE IF IsTransport(r.packet.Route)
       THEN [transportCodes |-> r.packet.TransportCodes] @@ EnvelopeOf(r.packet)
       ELSE EnvelopeOf(r.packet)

ShownAck(env, payload) ==
  Shows(DecodeAck(payload), LAMBDA v : [crc |-> Int32Or64(env, v.crc)])

LEMMA AckRuns ==
  ASSUME NEW env, NEW b,
         NEW raw, raw = <<[payload |-> b]>>,
         ~IsError(decodeAck(env, raw))
  PROVE  decodeAck(env, raw) =
           ShownAck(env, b)
<1> DEFINE kinds == <<"Hex">>
           a     == Arguments(raw, kinds)
           e(z)  == ShownAck(env, PayloadIn(z[1]))
           S     == {e(z) : z \in {a}}
<1>1. decodeAck(env, raw) = Ran(env, raw, kinds, S)
  BY DEF decodeAck, WithArgs, Of, Ran, Arguments, ShownAck
<1>2. PayloadIn(a[1]) = b
  BY PayloadArgument DEF Arguments
<1> HIDE DEF a, kinds
<1>3. S = {e(a)}
  OBVIOUS
<1> HIDE DEF e, S
<1>4. decodeAck(env, raw) = e(a)
  BY <1>1, <1>3, RanWell, Zenon
<1>5. QED
  BY <1>2, <1>4, Zenon DEF e

ShownMultipart(env, payload) ==
  Shows(DecodeMultipartPayload(payload), LAMBDA v :
    LET ack == DecodeAck(Clear(v.innerPayload))
    IN  IF v.innerType = PayloadAck /\ ack.err = Nil
        THEN [remaining |-> v.remaining, innerTypeCode |-> v.innerType,
              innerPayloadHex |-> v.innerPayload, ackCrc |-> Int32Or64(env, ack.value.crc)]
        ELSE [remaining |-> v.remaining, innerTypeCode |-> v.innerType,
              innerPayloadHex |-> v.innerPayload])

LEMMA MultipartReads ==
  ASSUME NEW env, NEW b,
         NEW raw, raw = <<[payload |-> b]>>,
         ~IsError(decodeMultipart(env, raw))
  PROVE  decodeMultipart(env, raw) =
           ShownMultipart(env, b)
<1> DEFINE kinds == <<"Hex">>
           a     == Arguments(raw, kinds)
           e(z)  == ShownMultipart(env, PayloadIn(z[1]))
           S     == {e(z) : z \in {a}}
<1>1. decodeMultipart(env, raw) = Ran(env, raw, kinds, S)
  BY DEF decodeMultipart, WithArgs, Of, Ran, Arguments, ShownMultipart
<1>2. PayloadIn(a[1]) = b
  BY PayloadArgument DEF Arguments
<1> HIDE DEF a, kinds
<1>3. S = {e(a)}
  OBVIOUS
<1> HIDE DEF e, S
<1>4. decodeMultipart(env, raw) = e(a)
  BY <1>1, <1>3, RanWell, Zenon
<1>5. QED
  BY <1>2, <1>4, Zenon DEF e

ShownPath(env, keys, payload) ==
  ReadPath(keys, payload, LAMBDA rp : PathFields(env, rp))

LEMMA IdentityReturnReads ==
  ASSUME NEW env, NEW b, NEW k, NEW p, IsKey(k), IsKey(p),
         NEW raw, raw = <<[payload |-> b], k, p>>,
         ~IsError(decodePathIdentity(env, raw))
  PROVE  decodePathIdentity(env, raw) =
           ShownPath(env, identitySharedSecret(k, p), b)
<1> DEFINE kinds == <<"Hex", "String", "String">>
           a     == Arguments(raw, kinds)
           e(z)  == ShownPath(env, identitySharedSecret(z[2], z[3]), PayloadIn(z[1]))
           S     == {e(z) : z \in {a}}
<1>1. decodePathIdentity(env, raw) = Ran(env, raw, kinds, S)
  BY DEF decodePathIdentity, WithArgs, Of, Ran, Arguments, ShownPath
<1>2. PayloadIn(a[1]) = b /\ a[2] = k /\ a[3] = p
  BY KeyArgument, PayloadArgument DEF Arguments
<1> HIDE DEF a, kinds
<1>3. S = {e(a)}
  OBVIOUS
<1> HIDE DEF e, S
<1>4. decodePathIdentity(env, raw) = e(a)
  BY <1>1, <1>3, RanWell, Zenon
<1>5. QED
  BY <1>2, <1>4, Zenon DEF e

LEMMA ExpandedReturnReads ==
  ASSUME NEW env, NEW b, NEW k, NEW p, IsKey(k), IsKey(p),
         NEW raw, raw = <<[payload |-> b], k, p>>,
         ~IsError(decodePathExpanded(env, raw))
  PROVE  decodePathExpanded(env, raw) =
           ShownPath(env, SharedSecretFromExpanded(k, p), b)
<1> DEFINE kinds == <<"Hex", "String", "String">>
           a     == Arguments(raw, kinds)
           e(z)  == ShownPath(env, SharedSecretFromExpanded(z[2], z[3]), PayloadIn(z[1]))
           S     == {e(z) : z \in {a}}
<1>1. decodePathExpanded(env, raw) = Ran(env, raw, kinds, S)
  BY DEF decodePathExpanded, WithArgs, Of, Ran, Arguments, ShownPath
<1>2. PayloadIn(a[1]) = b /\ a[2] = k /\ a[3] = p
  BY KeyArgument, PayloadArgument DEF Arguments
<1> HIDE DEF a, kinds
<1>3. S = {e(a)}
  OBVIOUS
<1> HIDE DEF e, S
<1>4. decodePathExpanded(env, raw) = e(a)
  BY <1>1, <1>3, RanWell, Zenon
<1>5. QED
  BY <1>2, <1>4, Zenon DEF e

-----------------------------------------------------------------------------
(* The packets of a conversation. *)
LEMMA OnlyResult ==
  ASSUME NEW results, NEW c, results = {c}
  PROVE  (CHOOSE y \in results : TRUE) = c
BY OnlyChoice

PacketFields(p, r, type, size, path, b) ==
  /\ p.Route = r /\ p.Type = type /\ p.Version = CurrentPayloadVer
  /\ p.PathHashSize = size /\ p.Path = path /\ p.Payload = b

LEMMA FieldsOfPacket ==
  ASSUME NEW r, NEW type, NEW size, NEW path, NEW b
  PROVE  PacketFields(PacketOf(r, type, size, path, b), r, type, size, path, b)
BY DEF PacketOf, PacketFields

LEMMA OtherPayload ==
  ASSUME NEW r, NEW type, NEW size, NEW path, NEW b, NEW c
  PROVE  [PacketOf(r, type, size, path, b) EXCEPT !.Payload = c] =
           PacketOf(r, type, size, path, c)
BY DEF PacketOf

LEMMA OtherPath ==
  ASSUME NEW r, NEW type, NEW size, NEW path, NEW b, NEW c
  PROVE  [PacketOf(r, type, size, path, b) EXCEPT !.Path = c] =
           PacketOf(r, type, size, c, b)
BY DEF PacketOf

(* What EncodePacket asks of a packet, its payload apart.                  *)
Laid(r, type, size, path) == ValidateWire(PacketOf(r, type, size, path, << >>)) = Nil

HopsFit(size, path) ==
  /\ size \in 1 .. 3 /\ Len(path) % size = 0
  /\ ~ (HopCount([PathHashSize |-> size, Path |-> path]) > MaxHopCount)

LEMMA LaidByAny ==
  ASSUME NEW r, NEW type, NEW size, NEW path, NEW b,
         ValidateWire(PacketOf(r, type, size, path, b)) = Nil
  PROVE  Laid(r, type, size, path) /\ HopsFit(size, path)
<1> DEFINE p == PacketOf(r, type, size, path, b)
           q == PacketOf(r, type, size, path, << >>)
           h == [PathHashSize |-> size, Path |-> path]
<1>1. PacketFields(p, r, type, size, path, b) /\ PacketFields(q, r, type, size, path, << >>)
  BY FieldsOfPacket
<1>2. h.PathHashSize = size /\ h.Path = path
  OBVIOUS
<1> HIDE DEF p, q, h
<1>3. HopCount(p) = HopCount(q) /\ HopCount(h) = HopCount(q)
  BY <1>1, <1>2, Zenon DEF HopCount, PacketFields
<1>4. ValidateWire(p) = Nil
  BY Zenon DEF p
<1>5. /\ ~ (p.Version # CurrentPayloadVer)
      /\ ~ (p.Route > RouteTransportDirect)
      /\ ~ (p.Type > 15)
      /\ ~ (p.PathHashSize \notin 1 .. 3)
      /\ ~ (Len(p.Path) % p.PathHashSize # 0)
      /\ ~ (Len(p.Path) > MaxPathBytes)
      /\ ~ (HopCount(p) > MaxHopCount)
  BY <1>4 DEF ValidateWire, Nil
<1>6. ~ (Len(q.Payload) > MaxPayloadBytes)
  <2>1. Len(q.Payload) = 0
    BY <1>1 DEF PacketFields
  <2>2. QED
    BY <2>1, EnvelopeLimits
<1>7. ValidateWire(q) = Nil
  BY <1>1, <1>3, <1>5, <1>6, Zenon DEF ValidateWire, PacketFields
<1>8. QED
  BY <1>1, <1>3, <1>5, <1>7, Zenon DEF PacketFields, Laid, HopsFit, q, h

IsRouted(way) == way.route \in {RouteFlood, RouteDirect}

LEMMA NotTransport ==
  ASSUME NEW r \in {RouteFlood, RouteDirect}
  PROVE  ~IsTransport(r)
BY DEF IsTransport, RouteFlood, RouteDirect, RouteTransportFlood, RouteTransportDirect

(* EncodePacket leaves a packet of a conversation as it is. *)
EncodedAs(e, r, type, size, path, b) ==
  /\ e = [hex |-> [packet |-> PacketOf(r, type, size, path, b)]]
  /\ Laid(r, type, size, path) /\ HopsFit(size, path)

LEMMA EncodedWell ==
  ASSUME NEW r \in {RouteFlood, RouteDirect}, NEW type, NEW size, size # 0, NEW path, NEW b,
         ~IsError(Encoded(PacketOf(r, type, size, path, b)))
  PROVE  EncodedAs(Encoded(PacketOf(r, type, size, path, b)), r, type, size, path, b)
<1> DEFINE p == PacketOf(r, type, size, path, b)
           n == LengthOf(b)
<1>1. ~IsTransport(r)
  BY NotTransport
<1>2. Encoded(p) = [hex |-> [packet |-> p]] /\ ValidateWire([p EXCEPT !.Payload = Zeros(n)]) = Nil
  BY <1>1, EncodedAsItIs
<1> HIDE DEF n
<1>3. ValidateWire(PacketOf(r, type, size, path, Zeros(n))) = Nil
  BY <1>2, OtherPayload
<1>4. Laid(r, type, size, path) /\ HopsFit(size, path)
  BY <1>3, LaidByAny, Zenon
<1>5. QED
  BY <1>2, <1>4, Zenon DEF EncodedAs

TextPayload(s, mine, peer, text, ts, n) ==
  PairPayload(s, Hash(peer), Hash(mine),
              DirectTextPlaintext(text, Flags(0, ByteOf(n)), Uint32(ts)))

LEMMA DirectTextIs ==
  ASSUME NEW s, NEW mine, NEW peer, NEW x, NEW ts, NEW n, NEW way, IsRouted(way),
         ~IsError(DirectTextPacket(s, mine, peer, x, ts, n, way))
  PROVE  EncodedAs(DirectTextPacket(s, mine, peer, x, ts, n, way),
                   way.route, PayloadTxtMsg, way.size, way.path,
                   TextPayload(s, mine, peer, x, ts, n))
<1> DEFINE payload == TextPayload(s, mine, peer, x, ts, n)
           d == DirectTextPacket(s, mine, peer, x, ts, n, way)
           e == Encoded(PacketOf(way.route, PayloadTxtMsg, way.size, way.path, payload))
<1>1. d = IF way.size \notin 1 .. 3 THEN Failed("UnsupportedPathHashSize") ELSE e
  BY DEF DirectTextPacket, TextPayload
<1>2. ~IsError(d)
  OBVIOUS
<1> HIDE DEF d, e, payload
<1>3. ~ (way.size \notin 1 .. 3)
  BY <1>1, <1>2, ResultOrError, Zenon
<1>4. d = e
  BY <1>1, <1>3, Zenon
<1>5. way.size # 0
  BY <1>3
<1>6. EncodedAs(e, way.route, PayloadTxtMsg, way.size, way.path, payload)
  BY <1>2, <1>4, <1>5, EncodedWell DEF e, IsRouted
<1>7. QED
  BY <1>4, <1>6, Zenon DEF d, payload

IsWritten(r, keys, mine, peer, x, ts, n, way) ==
  /\ keys.err = Ok
  /\ EncodedAs(r, way.route, PayloadTxtMsg, way.size, way.path,
               TextPayload(keys.secret, mine, peer, x, ts, n))

WithText(keys, mine, peer, x, ts, n, way) ==
  WithSecret(keys, LAMBDA s : DirectTextPacket(s, mine, peer, x, ts, n, way))

LEMMA TextIsWritten ==
  ASSUME NEW keys, NEW mine, NEW peer, NEW x, NEW ts, NEW n, NEW way, IsRouted(way),
         NEW r, r = WithText(keys, mine, peer, x, ts, n, way), ~IsError(r)
  PROVE  IsWritten(r, keys, mine, peer, x, ts, n, way)
<1> DEFINE c(k) == DirectTextPacket(k.secret, mine, peer, x, ts, n, way)
           e(k) == IF k.err # Ok THEN Failed(k.err) ELSE c(k)
           S    == {e(k) : k \in {keys}}
<1>1. r = CHOOSE y \in S : TRUE
  BY DEF WithText, WithSecret, Of
<1>2. S = {e(keys)}
  <2> HIDE DEF e
  <2>1. QED
    OBVIOUS
<1> HIDE DEF S, c, e
<1>3. r = e(keys)
  BY <1>1, <1>2, OnlyResult, Zenon
<1>4. keys.err = Ok /\ r = c(keys)
  BY <1>3, ResultOrError, Zenon DEF e
<1>5. EncodedAs(r, way.route, PayloadTxtMsg, way.size, way.path,
                TextPayload(keys.secret, mine, peer, x, ts, n))
  BY <1>4, DirectTextIs, Zenon DEF c
<1>6. QED
  BY <1>4, <1>5, Zenon DEF IsWritten

(* Arguments, one after another. *)
LEMMA JoinedAre ==
  ASSUME NEW S, NEW s \in Seq(S), NEW t \in Seq(S), NEW u \in Seq(S),
         Len(u) = Len(s) + Len(t),
         \A i \in 1 .. Len(s) : u[i] = s[i],
         \A i \in 1 .. Len(t) : u[Len(s) + i] = t[i]
  PROVE  s \o t = u
<1>1. s \o t \in Seq(S) /\ Len(s \o t) = Len(u)
  BY TwoParts
<1>2. Len(s) \in Nat /\ Len(t) \in Nat
  OBVIOUS
<1>3. ASSUME NEW i \in 1 .. Len(u)
      PROVE  (s \o t)[i] = u[i]
  <2>1. CASE i <= Len(s)
    BY <1>2, <2>1, TwoParts
  <2>2. CASE ~ (i <= Len(s))
    <3>1. i - Len(s) \in 1 .. Len(t) /\ Len(s) + (i - Len(s)) = i
      BY <1>2, <2>2
    <3>2. (s \o t)[Len(s) + (i - Len(s))] = t[i - Len(s)]
      BY <3>1, TwoParts
    <3>3. QED
      BY <3>1, <3>2
  <2>3. QED
    BY <2>1, <2>2
<1>4. QED
  BY <1>1, <1>3, SeqEqual

LEMMA OneAndTwo ==
  ASSUME NEW a, NEW b, NEW c
  PROVE  <<a>> \o <<b, c>> = <<a, b, c>>
<1> DEFINE S == {a, b, c}
           s == <<a>>
           t == <<b, c>>
           u == <<a, b, c>>
<1>1. /\ s \in Seq(S) /\ t \in Seq(S) /\ u \in Seq(S)
      /\ Len(s) = 1 /\ Len(t) = 2 /\ Len(u) = 3
  OBVIOUS
<1>2. /\ u[1] = s[1]
      /\ u[2] = t[1] /\ u[3] = t[2]
  OBVIOUS
<1> HIDE DEF s, t, u, S
<1>3. \A i \in 1 .. Len(s) : u[i] = s[i]
  BY <1>1, <1>2
<1>4. \A i \in 1 .. Len(t) : u[Len(s) + i] = t[i]
  BY <1>1, <1>2
<1>5. Len(u) = Len(s) + Len(t)
  BY <1>1
<1>6. s \o t = u
  BY <1>1, <1>3, <1>4, <1>5, JoinedAre, Zenon
<1>7. QED
  BY <1>6 DEF s, t, u

LEMMA TwoAndThree ==
  ASSUME NEW a, NEW b, NEW c, NEW d, NEW e
  PROVE  <<a, b>> \o <<c, d, e>> = <<a, b, c, d, e>>
<1> DEFINE S == {a, b, c, d, e}
           s == <<a, b>>
           t == <<c, d, e>>
           u == <<a, b, c, d, e>>
<1>1. /\ s \in Seq(S) /\ t \in Seq(S) /\ u \in Seq(S)
      /\ Len(s) = 2 /\ Len(t) = 3 /\ Len(u) = 5
  OBVIOUS
<1>2. /\ u[1] = s[1] /\ u[2] = s[2]
      /\ u[3] = t[1] /\ u[4] = t[2] /\ u[5] = t[3]
  OBVIOUS
<1> HIDE DEF s, t, u, S
<1>3. \A i \in 1 .. Len(s) : u[i] = s[i]
  BY <1>1, <1>2
<1>4. \A i \in 1 .. Len(t) : u[Len(s) + i] = t[i]
  BY <1>1, <1>2
<1>5. Len(u) = Len(s) + Len(t)
  BY <1>1
<1>6. s \o t = u
  BY <1>1, <1>3, <1>4, <1>5, JoinedAre, Zenon
<1>7. QED
  BY <1>6 DEF s, t, u

LEMMA ThreeAndThree ==
  ASSUME NEW a, NEW b, NEW c, NEW d, NEW e, NEW f
  PROVE  <<a, b, c>> \o <<d, e, f>> = <<a, b, c, d, e, f>>
<1> DEFINE S == {a, b, c, d, e, f}
           s == <<a, b, c>>
           t == <<d, e, f>>
           u == <<a, b, c, d, e, f>>
<1>1. /\ s \in Seq(S) /\ t \in Seq(S) /\ u \in Seq(S)
      /\ Len(s) = 3 /\ Len(t) = 3 /\ Len(u) = 6
  OBVIOUS
<1>2. /\ u[1] = s[1] /\ u[2] = s[2] /\ u[3] = s[3]
      /\ u[4] = t[1] /\ u[5] = t[2] /\ u[6] = t[3]
  OBVIOUS
<1> HIDE DEF s, t, u, S
<1>3. \A i \in 1 .. Len(s) : u[i] = s[i]
  BY <1>1, <1>2
<1>4. \A i \in 1 .. Len(t) : u[Len(s) + i] = t[i]
  BY <1>1, <1>2
<1>5. Len(u) = Len(s) + Len(t)
  BY <1>1
<1>6. s \o t = u
  BY <1>1, <1>3, <1>4, <1>5, JoinedAre, Zenon
<1>7. QED
  BY <1>6 DEF s, t, u

LEMMA FiveAndTwo ==
  ASSUME NEW a, NEW b, NEW c, NEW d, NEW e, NEW f, NEW g
  PROVE  <<a, b, c, d, e>> \o <<f, g>> = <<a, b, c, d, e, f, g>>
<1> DEFINE S == {a, b, c, d, e, f, g}
           s == <<a, b, c, d, e>>
           t == <<f, g>>
           u == <<a, b, c, d, e, f, g>>
<1>1. /\ s \in Seq(S) /\ t \in Seq(S) /\ u \in Seq(S)
      /\ Len(s) = 5 /\ Len(t) = 2 /\ Len(u) = 7
  OBVIOUS
<1>2. /\ u[1] = s[1] /\ u[2] = s[2] /\ u[3] = s[3] /\ u[4] = s[4] /\ u[5] = s[5]
      /\ u[6] = t[1] /\ u[7] = t[2]
  OBVIOUS
<1> HIDE DEF s, t, u, S
<1>3. \A i \in 1 .. Len(s) : u[i] = s[i]
  BY <1>1, <1>2
<1>4. \A i \in 1 .. Len(t) : u[Len(s) + i] = t[i]
  BY <1>1, <1>2
<1>5. Len(u) = Len(s) + Len(t)
  BY <1>1
<1>6. s \o t = u
  BY <1>1, <1>3, <1>4, <1>5, JoinedAre, Zenon
<1>7. QED
  BY <1>6 DEF s, t, u

LEMMA SixAndTwo ==
  ASSUME NEW a, NEW b, NEW c, NEW d, NEW e, NEW f, NEW g, NEW h
  PROVE  <<a, b, c, d, e, f>> \o <<g, h>> = <<a, b, c, d, e, f, g, h>>
<1> DEFINE S == {a, b, c, d, e, f, g, h}
           s == <<a, b, c, d, e, f>>
           t == <<g, h>>
           u == <<a, b, c, d, e, f, g, h>>
<1>1. /\ s \in Seq(S) /\ t \in Seq(S) /\ u \in Seq(S)
      /\ Len(s) = 6 /\ Len(t) = 2 /\ Len(u) = 8
  OBVIOUS
<1>2. /\ u[1] = s[1] /\ u[2] = s[2] /\ u[3] = s[3] /\ u[4] = s[4] /\ u[5] = s[5] /\ u[6] = s[6]
      /\ u[7] = t[1] /\ u[8] = t[2]
  OBVIOUS
<1> HIDE DEF s, t, u, S
<1>3. \A i \in 1 .. Len(s) : u[i] = s[i]
  BY <1>1, <1>2
<1>4. \A i \in 1 .. Len(t) : u[Len(s) + i] = t[i]
  BY <1>1, <1>2
<1>5. Len(u) = Len(s) + Len(t)
  BY <1>1
<1>6. s \o t = u
  BY <1>1, <1>3, <1>4, <1>5, JoinedAre, Zenon
<1>7. QED
  BY <1>6 DEF s, t, u

LEMMA TwoAndFive ==
  ASSUME NEW a, NEW b, NEW c, NEW d, NEW e, NEW f, NEW g
  PROVE  <<a, b>> \o <<c, d, e, f, g>> = <<a, b, c, d, e, f, g>>
<1> DEFINE S == {a, b, c, d, e, f, g}
           s == <<a, b>>
           t == <<c, d, e, f, g>>
           u == <<a, b, c, d, e, f, g>>
<1>1. /\ s \in Seq(S) /\ t \in Seq(S) /\ u \in Seq(S)
      /\ Len(s) = 2 /\ Len(t) = 5 /\ Len(u) = 7
  OBVIOUS
<1>2. /\ u[1] = s[1] /\ u[2] = s[2]
      /\ u[3] = t[1] /\ u[4] = t[2] /\ u[5] = t[3] /\ u[6] = t[4] /\ u[7] = t[5]
  OBVIOUS
<1> HIDE DEF s, t, u, S
<1>3. \A i \in 1 .. Len(s) : u[i] = s[i]
  BY <1>1, <1>2
<1>4. \A i \in 1 .. Len(t) : u[Len(s) + i] = t[i]
  BY <1>1, <1>2
<1>5. Len(u) = Len(s) + Len(t)
  BY <1>1
<1>6. s \o t = u
  BY <1>1, <1>3, <1>4, <1>5, JoinedAre, Zenon
<1>7. QED
  BY <1>6 DEF s, t, u

LEMMA ThreeAndFive ==
  ASSUME NEW a, NEW b, NEW c, NEW d, NEW e, NEW f, NEW g, NEW h
  PROVE  <<a, b, c>> \o <<d, e, f, g, h>> = <<a, b, c, d, e, f, g, h>>
<1> DEFINE S == {a, b, c, d, e, f, g, h}
           s == <<a, b, c>>
           t == <<d, e, f, g, h>>
           u == <<a, b, c, d, e, f, g, h>>
<1>1. /\ s \in Seq(S) /\ t \in Seq(S) /\ u \in Seq(S)
      /\ Len(s) = 3 /\ Len(t) = 5 /\ Len(u) = 8
  OBVIOUS
<1>2. /\ u[1] = s[1] /\ u[2] = s[2] /\ u[3] = s[3]
      /\ u[4] = t[1] /\ u[5] = t[2] /\ u[6] = t[3] /\ u[7] = t[4] /\ u[8] = t[5]
  OBVIOUS
<1> HIDE DEF s, t, u, S
<1>3. \A i \in 1 .. Len(s) : u[i] = s[i]
  BY <1>1, <1>2
<1>4. \A i \in 1 .. Len(t) : u[Len(s) + i] = t[i]
  BY <1>1, <1>2
<1>5. Len(u) = Len(s) + Len(t)
  BY <1>1
<1>6. s \o t = u
  BY <1>1, <1>3, <1>4, <1>5, JoinedAre, Zenon
<1>7. QED
  BY <1>6 DEF s, t, u

LEMMA ThreeAndOne ==
  ASSUME NEW a, NEW b, NEW c, NEW d
  PROVE  <<a, b, c>> \o <<d>> = <<a, b, c, d>>
<1> DEFINE S == {a, b, c, d}
           s == <<a, b, c>>
           t == <<d>>
           u == <<a, b, c, d>>
<1>1. /\ s \in Seq(S) /\ t \in Seq(S) /\ u \in Seq(S)
      /\ Len(s) = 3 /\ Len(t) = 1 /\ Len(u) = 4
  OBVIOUS
<1>2. /\ u[1] = s[1] /\ u[2] = s[2] /\ u[3] = s[3]
      /\ u[4] = t[1]
  OBVIOUS
<1> HIDE DEF s, t, u, S
<1>3. \A i \in 1 .. Len(s) : u[i] = s[i]
  BY <1>1, <1>2
<1>4. \A i \in 1 .. Len(t) : u[Len(s) + i] = t[i]
  BY <1>1, <1>2
<1>5. Len(u) = Len(s) + Len(t)
  BY <1>1
<1>6. s \o t = u
  BY <1>1, <1>3, <1>4, <1>5, JoinedAre, Zenon
<1>7. QED
  BY <1>6 DEF s, t, u

LEMMA FirstThree ==
  ASSUME NEW a, NEW b, NEW c, NEW d, NEW e
  PROVE  SubSeq(<<a, b, c, d, e>>, 1, 3) = <<a, b, c>>
<1> DEFINE S == {a, b, c, d, e}
           s == <<a, b, c, d, e>>
           u == <<a, b, c>>
           t == SubSeq(s, 1, 3)
<1>1. s \in Seq(S) /\ u \in Seq(S) /\ Len(s) = 5 /\ Len(u) = 3
  OBVIOUS
<1>2. u[1] = s[1] /\ u[2] = s[2] /\ u[3] = s[3]
  OBVIOUS
<1> HIDE DEF s, u, S
<1>3. 3 \in 0 .. Len(s)
  BY <1>1
<1>4. t \in Seq(S) /\ Len(t) = 3 /\ \A i \in 1 .. 3 : t[i] = s[i]
  BY <1>1, <1>3, BeginningFacts
<1> HIDE DEF t
<1>5. Len(t) = Len(u)
  BY <1>1, <1>4
<1>6. \A i \in 1 .. Len(t) : t[i] = u[i]
  BY <1>2, <1>4
<1>7. t = u
  BY <1>1, <1>4, <1>5, <1>6, SeqEqual, Zenon
<1>8. QED
  BY <1>7 DEF t, s, u

-----------------------------------------------------------------------------
Texts   == {plan.text, Shown(plan.text)}
Seconds == {plan.times[i] : i \in DOMAIN plan.times}

KeysOf(side) ==
  CASE side.form = "seed"     -> identitySharedSecret(side.private, PeerOf(side))
    [] side.form = "expanded" -> SharedSecretFromExpanded(side.private, PeerOf(side))
    [] side.form = "legacy"   -> keysAndSecret(side.private, PeerOf(side))

IsTextOf(r, ts, n) ==
  \E way : \E x \in Texts, mine \in DOMAIN PublicBytes, peer \in DOMAIN PublicBytes :
    /\ IsRouted(way)
    /\ way.route = RouteDirect => route.known /\ way.path = route.path /\ way.size = route.size
    /\ IsWritten(r, KeysOf(plan.writer), mine, peer, x, ts, n, way)

LEMMA SidesOfPlan ==
  ASSUME plan \in Plans
  PROVE  /\ IsPlan(plan) /\ IsSide(plan.writer) /\ IsSide(plan.reader)
         /\ plan.writer # plan.reader
         /\ plan.writer.form \in Forms /\ plan.reader.form \in Forms
         /\ IsKey(plan.writer.private) /\ IsKey(plan.reader.private)
         /\ plan.writer.public \in DOMAIN PublicBytes
         /\ plan.reader.public \in DOMAIN PublicBytes
<1>1. IsPlan(plan)
  BY PagesAssumption
<1>2. /\ IsSide(plan.writer) /\ IsSide(plan.reader)
      /\ OwnScalar(plan.writer) # OwnScalar(plan.reader)
  BY <1>1, Zenon DEF IsPlan
<1>3. plan.writer # plan.reader
  BY <1>2, Zenon
<1>4. QED
  BY <1>1, <1>2, <1>3, Zenon DEF IsSide, IsKey

LEMMA IsKeyOf ==
  ASSUME NEW b
  PROVE  IsKey(HexKey(b)) /\ HasBytes(HexKey(b), 32) /\ HexKey(b).key = b
BY DEF IsKey, HexKey, HasBytes

LEMMA PeersOfPlan ==
  ASSUME plan \in Plans
  PROVE  /\ PeerOf(plan.writer) = HexKey(plan.reader.public)
         /\ PeerOf(plan.reader) = HexKey(plan.writer.public)
BY SidesOfPlan, Zenon DEF PeerOf

(* directTextPacketWithRoute: what a call of an operation comes to.        *)
LEMMA FloodingWay ==
  ASSUME NEW size
  PROVE  IsRouted(Flooding(size)) /\ Flooding(size).route # RouteDirect
BY DEF IsRouted, Flooding, RouteFlood, RouteDirect

LEMMA AlongWay ==
  ASSUME NEW path, NEW size
  PROVE  /\ IsRouted(Along(path, size))
         /\ Along(path, size).path = path /\ Along(path, size).size = size
BY DEF IsRouted, Along

LEMMA IdentityText ==
  ASSUME NEW k, NEW peer, NEW x, NEW ts, NEW n, NEW way, IsRouted(way),
         ~IsError(DirectTextPacketFromIdentity(k, peer, x, ts, n, way))
  PROVE  IsWritten(DirectTextPacketFromIdentity(k, peer, x, ts, n, way),
                   identitySharedSecret(k, peer), EdPublic(k.key), peer.key, x, ts, n, way)
<1>1. IdentityFromSeed(k.key).PublicKey = EdPublic(k.key)
  BY DEF IdentityFromSeed
<1>2. DirectTextPacketFromIdentity(k, peer, x, ts, n, way) =
        WithText(identitySharedSecret(k, peer), IdentityFromSeed(k.key).PublicKey, peer.key,
                 x, ts, n, way)
  BY DEF DirectTextPacketFromIdentity, WithText
<1>3. QED
  BY <1>1, <1>2, TextIsWritten, Zenon

LEMMA ExpandedText ==
  ASSUME NEW k, NEW mine, HasBytes(mine, 32), NEW peer, NEW x, NEW ts, NEW n, NEW way,
         IsRouted(way), ~IsError(DirectTextPacketFromExpanded(k, mine, peer, x, ts, n, way))
  PROVE  IsWritten(DirectTextPacketFromExpanded(k, mine, peer, x, ts, n, way),
                   SharedSecretFromExpanded(k, peer), mine.key, peer.key, x, ts, n, way)
<1>1. expandedIdentityContext(k, mine, peer) = SharedSecretFromExpanded(k, peer)
  BY Zenon DEF expandedIdentityContext
<1>2. DirectTextPacketFromExpanded(k, mine, peer, x, ts, n, way) =
        WithText(expandedIdentityContext(k, mine, peer), mine.key, peer.key, x, ts, n, way)
  BY DEF DirectTextPacketFromExpanded, WithText
<1>3. QED
  BY <1>1, <1>2, TextIsWritten, Zenon

LEMMA LegacyTextIs ==
  ASSUME NEW env, NEW k, NEW peer, NEW x, ~IsError(LegacyText(env, k, peer, x))
  PROVE  IsWritten(LegacyText(env, k, peer, x), keysAndSecret(k, peer), XPublic(k.key),
                   peer.key, x, env.now, 0, Flooding(DefaultPathHashSize))
<1>1. PublicKeyFromPrivate(k) = XPublic(k.key)
  BY DEF PublicKeyFromPrivate
<1>2. LegacyText(env, k, peer, x) =
        WithText(keysAndSecret(k, peer), PublicKeyFromPrivate(k), peer.key, x, env.now, 0,
                 Flooding(DefaultPathHashSize))
  BY DEF LegacyText, WithText
<1>3. QED
  BY <1>1, <1>2, FloodingWay, TextIsWritten, Zenon

LEMMA PublicsOfPlan ==
  ASSUME plan \in Plans
  PROVE  LET w == plan.writer
         IN  /\ w.form = "seed" => EdPublic(w.private.key) \in DOMAIN PublicBytes
             /\ w.form = "legacy" => XPublic(w.private.key) \in DOMAIN PublicBytes
BY SidesOfPlan, Zenon DEF IsSide

LEMMA NativeTextIs ==
  ASSUME plan \in Plans, plan.hashSize # 0, NEW ts, NEW n, ~IsError(NativeText(ts, n))
  PROVE  IsTextOf(NativeText(ts, n), ts, n)
<1> DEFINE w == plan.writer
           way == IF route.known THEN Along(route.path, route.size) ELSE Flooding(plan.hashSize)
           r == NativeText(ts, n)
<1>1. w.form = "seed"
  BY SidesOfPlan, Zenon DEF IsPlan
<1>2. KeysOf(w) = identitySharedSecret(w.private, PeerOf(w))
  BY <1>1 DEF KeysOf
<1>3. r = DirectTextPacketFromIdentity(w.private, PeerOf(w), plan.text, ts, n, way)
  BY DEF NativeText
<1>4. IsRouted(way) /\ (way.route = RouteDirect =>
         route.known /\ way.path = route.path /\ way.size = route.size)
  <2>1. CASE route.known
    BY <2>1, AlongWay
  <2>2. CASE ~route.known
    BY <2>2, FloodingWay
  <2>3. QED
    BY <2>1, <2>2
<1>5. PeerOf(w).key = plan.reader.public
  BY PeersOfPlan, IsKeyOf, Zenon
<1> HIDE DEF way, r
<1>6. IsWritten(r, KeysOf(w), EdPublic(w.private.key), plan.reader.public, plan.text, ts, n, way)
  BY <1>2, <1>3, <1>4, <1>5, IdentityText, Zenon DEF r
<1>7. plan.text \in Texts
  BY DEF Texts
<1>8. EdPublic(w.private.key) \in DOMAIN PublicBytes /\ plan.reader.public \in DOMAIN PublicBytes
  BY <1>1, PublicsOfPlan, SidesOfPlan, Zenon
<1>9. QED
  BY <1>4, <1>6, <1>7, <1>8, Zenon DEF IsTextOf, r

LEMMA TextCallIs ==
  ASSUME plan \in Plans, NEW ts, NEW n, ~IsError(TextCall(ts, n)),
         plan.writer.form = "legacy" => ts = Time /\ n = 0
  PROVE  IsTextOf(TextCall(ts, n), ts, n)
<1> DEFINE w    == plan.writer
           r    == TextCall(ts, n)
           peer == PeerOf(w)
           mine == HexKey(w.public)
           e    == Env(w.limit)
           x    == Shown(plan.text)
           flood == Flooding(DefaultPathHashSize)
           along == Along(route.path, route.size)
<1>1. /\ IsKey(w.private) /\ IsKey(peer) /\ peer.key = plan.reader.public
      /\ IsKey(mine) /\ HasBytes(mine, 32) /\ mine.key = w.public
  BY SidesOfPlan, PeersOfPlan, IsKeyOf, Zenon
<1>2. /\ x \in Texts /\ w.public \in DOMAIN PublicBytes
      /\ plan.reader.public \in DOMAIN PublicBytes
      /\ w.form \in Forms
  BY SidesOfPlan DEF Texts
<1>3. /\ IsRouted(flood) /\ flood.route # RouteDirect
      /\ IsRouted(along) /\ along.path = route.path /\ along.size = route.size
  BY FloodingWay, AlongWay
<1>4. e.now = Time
  BY DEF Env
<1>5. ~IsError(r)
  OBVIOUS
<1>6. CASE w.form = "seed" /\ ~route.known
  <2> DEFINE raw == <<w.private, peer, Text(plan.text), Number(ts), Number(n)>>
             d   == encodeDirectTextIdentity(e, raw)
             c   == DirectTextPacketFromIdentity(w.private, peer, x, ts, n, flood)
  <2>1. r = d
    <3>1. r = encodeDirectTextIdentity(e, <<w.private, peer>> \o <<Text(plan.text), Number(ts), Number(n)>>)
      BY <1>6 DEF TextCall, Call
    <3>2. QED
      BY <3>1, TwoAndThree, Zenon
  <2> HIDE DEF r, e, peer
  <2>2. d = c
    BY <1>1, <1>5, <2>1, IdentityTextRuns
  <2> HIDE DEF d, c, x, flood
  <2>3. IsWritten(c, identitySharedSecret(w.private, peer), EdPublic(w.private.key), peer.key,
                  x, ts, n, flood)
    BY <1>3, <1>5, <2>1, <2>2, IdentityText, Zenon DEF c
  <2>4. KeysOf(w) = identitySharedSecret(w.private, peer)
    BY <1>6 DEF KeysOf, peer
  <2>5. EdPublic(w.private.key) \in DOMAIN PublicBytes
    BY <1>6, PublicsOfPlan, Zenon
  <2>6. QED
    BY <1>1, <1>2, <1>3, <2>1, <2>2, <2>3, <2>4, <2>5, Zenon DEF IsTextOf, r
<1>7. CASE w.form = "seed" /\ route.known
  <2> DEFINE raw == <<w.private, peer, Text(plan.text), Number(ts), Number(n),
                      Bytes(route.path), Number(route.size)>>
             d   == encodeDirectTextIdentityPath(e, raw)
             c   == DirectTextPacketFromIdentity(w.private, peer, x, ts, n, along)
  <2>1. r = d
    <3>1. r = encodeDirectTextIdentityPath(e, (<<w.private, peer>> \o <<Text(plan.text), Number(ts), Number(n)>>)
                        \o <<Bytes(route.path), Number(route.size)>>)
      BY <1>7 DEF TextCall, Call
    <3>2. <<w.private, peer>> \o <<Text(plan.text), Number(ts), Number(n)>>
            = <<w.private, peer, Text(plan.text), Number(ts), Number(n)>>
      BY TwoAndThree
    <3>3. <<w.private, peer, Text(plan.text), Number(ts), Number(n)>>
              \o <<Bytes(route.path), Number(route.size)>> = raw
      BY FiveAndTwo
    <3>4. QED
      BY <3>1, <3>2, <3>3, Zenon
  <2> HIDE DEF r, e, peer
  <2>2. d = c
    BY <1>1, <1>5, <2>1, IdentityPathTextRuns
  <2> HIDE DEF d, c, x, along
  <2>3. IsWritten(c, identitySharedSecret(w.private, peer), EdPublic(w.private.key), peer.key,
                  x, ts, n, along)
    BY <1>3, <1>5, <2>1, <2>2, IdentityText, Zenon DEF c
  <2>4. KeysOf(w) = identitySharedSecret(w.private, peer)
    BY <1>7 DEF KeysOf, peer
  <2>5. EdPublic(w.private.key) \in DOMAIN PublicBytes
    BY <1>7, PublicsOfPlan, Zenon
  <2>6. QED
    BY <1>1, <1>2, <1>3, <1>7, <2>1, <2>2, <2>3, <2>4, <2>5, Zenon DEF IsTextOf, r
<1>8. CASE w.form = "expanded" /\ ~route.known
  <2> DEFINE raw == <<w.private, mine, peer, Text(plan.text), Number(ts), Number(n)>>
             d   == encodeDirectTextExpanded(e, raw)
             c   == DirectTextPacketFromExpanded(w.private, mine, peer, x, ts, n, flood)
  <2>1. r = d
    <3>1. r = encodeDirectTextExpanded(e, <<w.private, mine, peer>> \o <<Text(plan.text), Number(ts), Number(n)>>)
      BY <1>8 DEF TextCall, Call
    <3>2. <<w.private, mine, peer>> \o <<Text(plan.text), Number(ts), Number(n)>> = raw
      BY ThreeAndThree
    <3>3. QED
      BY <3>1, <3>2, Zenon
  <2> HIDE DEF r, e, peer, mine
  <2>2. d = c
    BY <1>1, <1>5, <2>1, ExpandedTextRuns
  <2> HIDE DEF d, c, x, flood
  <2>3. IsWritten(c, SharedSecretFromExpanded(w.private, peer), mine.key, peer.key,
                  x, ts, n, flood)
    BY <1>1, <1>3, <1>5, <2>1, <2>2, ExpandedText, Zenon DEF c
  <2>4. KeysOf(w) = SharedSecretFromExpanded(w.private, peer)
    BY <1>8 DEF KeysOf, peer
  <2>5. QED
    BY <1>1, <1>2, <1>3, <2>1, <2>2, <2>3, <2>4, Zenon DEF IsTextOf, r
<1>9. CASE w.form = "expanded" /\ route.known
  <2> DEFINE raw == <<w.private, mine, peer, Text(plan.text), Number(ts), Number(n),
                      Bytes(route.path), Number(route.size)>>
             d   == encodeDirectTextExpandedPath(e, raw)
             c   == DirectTextPacketFromExpanded(w.private, mine, peer, x, ts, n, along)
  <2>1. r = d
    <3>1. r = encodeDirectTextExpandedPath(e, (<<w.private, mine, peer>> \o <<Text(plan.text), Number(ts), Number(n)>>)
                        \o <<Bytes(route.path), Number(route.size)>>)
      BY <1>9 DEF TextCall, Call
    <3>2. <<w.private, mine, peer>> \o <<Text(plan.text), Number(ts), Number(n)>>
            = <<w.private, mine, peer, Text(plan.text), Number(ts), Number(n)>>
      BY ThreeAndThree
    <3>3. <<w.private, mine, peer, Text(plan.text), Number(ts), Number(n)>>
              \o <<Bytes(route.path), Number(route.size)>> = raw
      BY SixAndTwo
    <3>4. QED
      BY <3>1, <3>2, <3>3, Zenon
  <2> HIDE DEF r, e, peer, mine
  <2>2. d = c
    BY <1>1, <1>5, <2>1, ExpandedPathTextRuns
  <2> HIDE DEF d, c, x, along
  <2>3. IsWritten(c, SharedSecretFromExpanded(w.private, peer), mine.key, peer.key,
                  x, ts, n, along)
    BY <1>1, <1>3, <1>5, <2>1, <2>2, ExpandedText, Zenon DEF c
  <2>4. KeysOf(w) = SharedSecretFromExpanded(w.private, peer)
    BY <1>9 DEF KeysOf, peer
  <2>5. QED
    BY <1>1, <1>2, <1>3, <1>9, <2>1, <2>2, <2>3, <2>4, Zenon DEF IsTextOf, r
<1>10. CASE w.form = "legacy"
  <2> DEFINE raw == <<w.private, peer, Text(plan.text)>>
             d   == encodeDirectText(e, raw)
             c   == LegacyText(e, w.private, peer, x)
  <2>1. r = d
    BY <1>10 DEF TextCall, Call
  <2> HIDE DEF r, e, peer
  <2>2. d = c
    BY <1>1, <1>5, <2>1, LegacyTextRuns
  <2> HIDE DEF d, c, x, flood
  <2>3. IsWritten(c, keysAndSecret(w.private, peer), XPublic(w.private.key), peer.key,
                  x, e.now, 0, flood)
    BY <1>3, <1>5, <2>1, <2>2, LegacyTextIs, Zenon DEF c, flood
  <2>4. KeysOf(w) = keysAndSecret(w.private, peer)
    BY <1>10 DEF KeysOf, peer
  <2>5. XPublic(w.private.key) \in DOMAIN PublicBytes
    BY <1>10, PublicsOfPlan, Zenon
  <2>6. e.now = ts /\ n = 0
    BY <1>4, <1>10, Zenon
  <2>7. QED
    BY <1>1, <1>2, <1>3, <2>1, <2>2, <2>3, <2>4, <2>5, <2>6, Zenon DEF IsTextOf, r
<1>11. QED
  BY <1>2, <1>6, <1>7, <1>8, <1>9, <1>10, Zenon DEF Forms

-----------------------------------------------------------------------------
LEMMA BytesAreNumbers == Byte \subseteq Nat /\ 0 \in Byte
BY DEF Byte

LEMMA FirstByte ==
  ASSUME NEW k \in DOMAIN PublicBytes
  PROVE  Hash(k) \in Byte
<1>1. PublicBytes[k] \in [1 .. 32 -> Byte]
  BY OperationsAssumption DEF KeySize
<1>2. PublicBytes[k][1] \in Byte
  BY <1>1
<1>3. QED
  BY <1>2 DEF Hash

LEMMA TextOfIs ==
  ASSUME plan \in Plans, NEW ts, NEW n, ~IsError(TextOf(ts, n)),
         plan.writer.form = "legacy" => ts = Time /\ n = 0
  PROVE  IsTextOf(TextOf(ts, n), ts, n)
<1>1. CASE plan.hashSize = 0
  BY <1>1, TextCallIs, Zenon DEF TextOf
<1>2. CASE plan.hashSize # 0
  BY <1>2, NativeTextIs, Zenon DEF TextOf
<1>3. QED
  BY <1>1, <1>2

-----------------------------------------------------------------------------
(* A text that is shown. *)
LEMMA ShownFacts ==
  ASSUME NEW x \in Seq(Byte)
  PROVE  /\ Shown(x) \in Seq(Byte) /\ Len(Shown(x)) = Len(x)
         /\ \A i \in 1 .. Len(x) : Shown(x)[i] = 0 <=> x[i] = 0
         /\ Shown(Shown(x)) = Shown(x)
<1> DEFINE y == Shown(x)
           n == Len(x)
<1>1. n \in Nat /\ DOMAIN x = 1 .. n /\ \A i \in 1 .. n : x[i] \in Byte
  OBVIOUS
<1> HIDE DEF n
<1>2. y = [i \in 1 .. n |-> IF x[i] = 5 THEN 4 ELSE x[i]]
  BY <1>1 DEF Shown, InvalidByte, Replacement
<1>3. ASSUME NEW i \in 1 .. n
      PROVE  /\ y[i] = IF x[i] = 5 THEN 4 ELSE x[i]
             /\ y[i] \in Byte /\ y[i] # 5 /\ (y[i] = 0 <=> x[i] = 0)
  <2>1. x[i] \in 0 .. 255
    BY <1>1 DEF Byte
  <2>2. y[i] = IF x[i] = 5 THEN 4 ELSE x[i]
    BY <1>2
  <2> HIDE DEF y
  <2>3. QED
    BY <2>1, <2>2 DEF Byte
<1>4. y \in [1 .. n -> Byte]
  BY <1>2, <1>3
<1>5. y \in Seq(Byte) /\ Len(y) = n
  <2> HIDE DEF y
  <2>1. QED
    BY <1>1, <1>4
<1>6. Shown(y) = [i \in 1 .. n |-> IF y[i] = 5 THEN 4 ELSE y[i]]
  <2>1. DOMAIN y = 1 .. n
    BY <1>2
  <2> HIDE DEF y
  <2>2. QED
    BY <2>1 DEF Shown, InvalidByte, Replacement
<1>7. Shown(y) = y
  <2>1. y = [i \in 1 .. n |-> y[i]]
    BY <1>2
  <2> HIDE DEF y
  <2>2. QED
    BY <1>3, <1>6, <2>1
<1>8. QED
  BY <1>3, <1>5, <1>7 DEF n

EndsWell(x) == x \in Seq(Byte) /\ (x = << >> \/ Last(x) # 0)

LEMMA NothingTrimmed ==
  ASSUME NEW x, EndsWell(x)
  PROVE  TrimNuls(x) = x /\ EndsWell(Shown(x))
<1> DEFINE n == Len(x)
           y == Shown(x)
<1>1. x \in Seq(Byte) /\ n \in Nat
  BY DEF EndsWell
<1>2. n = 0 \/ x[n] # 0
  BY DEF EndsWell, Last
<1>3. IsLast(x, n)
  BY <1>1, <1>2 DEF IsLast
<1>4. TrimNuls(x) = SubSeq(x, 1, n)
  BY <1>1, <1>3, TrimmedAt
<1>5. SubSeq(x, 1, n) = x
  BY <1>1
<1>6. /\ y \in Seq(Byte) /\ Len(y) = n
      /\ \A i \in 1 .. n : y[i] = 0 <=> x[i] = 0
  BY <1>1, ShownFacts
<1> HIDE DEF y
<1>7. n = 0 => y = << >>
  BY <1>6
<1>8. n # 0 => Last(y) # 0
  BY <1>1, <1>2, <1>6 DEF Last
<1>9. QED
  BY <1>4, <1>5, <1>6, <1>7, <1>8 DEF EndsWell, y

LEMMA TextsOfPlan ==
  ASSUME plan \in Plans, NEW x \in Texts
  PROVE  /\ x \in Seq(Byte) /\ TrimNuls(x) = x /\ Shown(x) = Shown(plan.text)
         /\ Shown(plan.text) \in Texts
<1>1. EndsWell(plan.text)
  BY SidesOfPlan, Zenon DEF IsPlan, IsText, EndsWell
<1>2. EndsWell(Shown(plan.text)) /\ Shown(Shown(plan.text)) = Shown(plan.text)
  BY <1>1, NothingTrimmed, ShownFacts, Zenon DEF EndsWell
<1>3. EndsWell(x) /\ Shown(x) = Shown(plan.text)
  BY <1>1, <1>2, Zenon DEF Texts
<1>4. QED
  BY <1>3, NothingTrimmed, Zenon DEF EndsWell, Texts

LEMMA SecondsOfPlan ==
  ASSUME plan \in Plans
  PROVE  Seconds \subseteq Nat
<1>1. plan.times \in Seq(Nat)
  BY SidesOfPlan, Zenon DEF IsPlan
<1>2. QED
  BY <1>1 DEF Seconds

(* What a reader is shown of a payload. *)
IsRead(r, keys, b) ==
  /\ keys.err = Ok /\ b.secret = keys.secret
  /\ r = directTextResult(DirectText(Pair(b)))

LEMMA DirectTextReads ==
  ASSUME NEW keys, NEW b, ~IsError(ReadDirectText(keys, b))
  PROVE  IsRead(ReadDirectText(keys, b), keys, b)
<1> DEFINE r    == ReadDirectText(keys, b)
           d(k) == DecodeDirectTextPayload(k.secret, Pair(b))
           c(k) == IF d(k).err # Nil THEN Failed(d(k).err) ELSE directTextResult(d(k).text)
           e(k) == IF k.err # Ok THEN Failed(k.err) ELSE c(k)
           S    == {e(k) : k \in {keys}}
<1>1. r = CHOOSE y \in S : TRUE
  BY DEF ReadDirectText, WithSecret, Of
<1>2. S = {e(keys)}
  <2> HIDE DEF e
  <2>1. QED
    OBVIOUS
<1>3. ~IsError(r)
  OBVIOUS
<1> HIDE DEF S, c, e, d, r
<1>4. r = e(keys)
  BY <1>1, <1>2, OnlyResult, Zenon
<1>5. keys.err = Ok /\ r = c(keys)
  BY <1>3, <1>4, ResultOrError, Zenon DEF e
<1>6. d(keys).err = Nil /\ r = directTextResult(d(keys).text)
  BY <1>3, <1>5, ResultOrError, Zenon DEF c
<1>7. DirectTextError(keys.secret, Pair(b)) = Nil /\ d(keys).text = DirectText(Pair(b))
  <2>1. d(keys) = [err |-> DirectTextError(keys.secret, Pair(b)),
                   text |-> IF DirectTextError(keys.secret, Pair(b)) = Nil
                            THEN DirectText(Pair(b)) ELSE NoText]
    BY DEF d, DecodeDirectTextPayload
  <2>2. QED
    BY <1>6, <2>1
<1>8. Opens(keys.secret, Pair(b))
  BY <1>7 DEF DirectTextError, Nil
<1>9. b.secret = keys.secret
  BY <1>8 DEF Opens, Pair
<1>10. QED
  BY <1>5, <1>6, <1>7, <1>9, Zenon DEF IsRead, r

LEMMA ReadTextIs ==
  ASSUME plan \in Plans, NEW side \in {plan.writer, plan.reader}, NEW b,
         ~IsError(ReadText(side, [payload |-> b]))
  PROVE  IsRead(ReadText(side, [payload |-> b]), KeysOf(side), b)
<1> DEFINE peer == PeerOf(side)
           k    == side.private
           e    == Env(side.limit)
           r    == ReadText(side, [payload |-> b])
           raw  == <<[payload |-> b], k, peer>>
<1>1. IsKey(k) /\ IsKey(peer) /\ side.form \in Forms
  BY SidesOfPlan, PeersOfPlan, IsKeyOf, Zenon
<1>2. ~IsError(r)
  OBVIOUS
<1>3. CASE side.form = "seed"
  <2>1. r = decodeDirectTextIdentity(e, raw) /\ KeysOf(side) = identitySharedSecret(k, peer)
    BY <1>3 DEF ReadText, Call, KeysOf
  <2> HIDE DEF r, e, k, peer
  <2>2. r = ReadDirectText(KeysOf(side), b)
    BY <1>1, <1>2, <2>1, IdentityReads
  <2>3. QED
    BY <1>2, <2>2, DirectTextReads, Zenon DEF r
<1>4. CASE side.form = "expanded"
  <2>1. r = decodeDirectTextExpanded(e, raw) /\ KeysOf(side) = SharedSecretFromExpanded(k, peer)
    BY <1>4 DEF ReadText, Call, KeysOf
  <2> HIDE DEF r, e, k, peer
  <2>2. r = ReadDirectText(KeysOf(side), b)
    BY <1>1, <1>2, <2>1, ExpandedReads
  <2>3. QED
    BY <1>2, <2>2, DirectTextReads, Zenon DEF r
<1>5. CASE side.form = "legacy"
  <2>1. r = decodeDirectText(e, raw) /\ KeysOf(side) = keysAndSecret(k, peer)
    BY <1>5 DEF ReadText, Call, KeysOf
  <2> HIDE DEF r, e, k, peer
  <2>2. r = ReadDirectText(KeysOf(side), b)
    BY <1>1, <1>2, <2>1, LegacyReads
  <2>3. QED
    BY <1>2, <2>2, DirectTextReads, Zenon DEF r
<1>6. QED
  BY <1>1, <1>3, <1>4, <1>5, Zenon DEF Forms

(* The bytes of a text in a packet, and what is shown of them. *)
IsShownText(r, x, ts, n) ==
  r.text = Shown(TrimNuls(x)) /\ r.timestamp = Uint32(ts) /\ r.attempt = n % 4

LEMMA TextReadsBack ==
  ASSUME NEW s, NEW mine, NEW peer, NEW x \in Seq(Byte), NEW ts \in Int, NEW n \in Nat
  PROVE  IsShownText(directTextResult(DirectText(Pair(TextPayload(s, mine, peer, x, ts, n)))),
                     x, ts, n)
<1> DEFINE t == Uint32(ts)
           a == ByteOf(n)
           plain == DirectTextPlaintext(x, Flags(0, a), t)
           sealed == DirectTextPayload(s, Hash(peer), Hash(mine), x, t, 0, a)
<1>1. t \in Word
  BY NarrowedIsWord
<1>2. a \in Byte /\ a % 4 = n % 4
  BY FlagsOfByte
<1>3. a \in Nat /\ 0 \in Byte
  BY <1>2, BytesAreNumbers, Zenon
<1>4. Pair(TextPayload(s, mine, peer, x, ts, n)) = sealed
  <2> HIDE DEF plain
  <2>1. TextPayload(s, mine, peer, x, ts, n) =
          [head |-> <<Hash(peer), Hash(mine)>>, secret |-> s, plain |-> Padded(plain)]
    BY DEF TextPayload, PairPayload, Sealed, plain
  <2>2. sealed = [dest |-> Hash(peer), src |-> Hash(mine), secret |-> s, plain |-> Padded(plain)]
    BY DEF DirectTextPayload, Seal, plain
  <2>3. QED
    BY <2>1, <2>2 DEF Pair
<1> HIDE DEF t, a, sealed
<1>5. DirectText(sealed) =
        [DestHash |-> Hash(peer), SrcHash |-> Hash(mine), Timestamp |-> t,
         TxtType |-> 0 % 64, Attempt |-> a % 4, Text |-> TrimNuls(x)]
  BY <1>1, <1>3, TextIsRead DEF sealed
<1>6. QED
  BY <1>2, <1>4, <1>5 DEF directTextResult, IsShownText, t

LEMMA TextBytes ==
  ASSUME NEW s, NEW mine \in DOMAIN PublicBytes, NEW peer \in DOMAIN PublicBytes,
         NEW x \in Seq(Byte), NEW ts \in Int, NEW n \in Nat
  PROVE  LET b == TextPayload(s, mine, peer, x, ts, n)
         IN  b.head \in Seq(Byte) /\ b.plain \in Seq(Byte) /\ b.secret = s
<1> DEFINE t == Uint32(ts)
           f == Flags(0, ByteOf(n))
           plain == DirectTextPlaintext(x, f, t)
           b == TextPayload(s, mine, peer, x, ts, n)
<1>1. b = [head |-> <<Hash(peer), Hash(mine)>>, secret |-> s, plain |-> Padded(plain)]
  BY DEF TextPayload, PairPayload, Sealed
<1>2. Hash(peer) \in Byte /\ Hash(mine) \in Byte
  BY FirstByte
<1>3. t \in Word
  BY NarrowedIsWord
<1>4. f \in Byte
  <2>1. ByteOf(n) \in Nat /\ 0 \in Byte
    <3>1. n \in Int
      OBVIOUS
    <3>2. QED
      BY <3>1, FlagsOfByte, BytesAreNumbers, Zenon
  <2> HIDE DEF f
  <2>2. QED
    BY <2>1, FlagsWritten DEF f
<1> HIDE DEF t, f
<1>5. <<f>> \o x \in Seq(Byte)
  BY <1>4, ByteThen
<1>6. Uint32Bytes(t) \o (<<f>> \o x) \in Seq(Byte)
  BY <1>3, <1>5, WordThen
<1>7. plain \in Seq(Byte)
  <2>1. Uint32Bytes(t) \in Seq(Byte) /\ <<f>> \in Seq(Byte)
    BY <1>3, <1>4, WordAlone
  <2>2. plain = Uint32Bytes(t) \o (<<f>> \o x)
    BY <2>1, ConcatAssociative DEF DirectTextPlaintext
  <2>3. QED
    BY <1>6, <2>2
<1> HIDE DEF plain
<1>8. Padded(plain) \in Seq(Byte)
  BY <1>7, PaddedFacts
<1>9. <<Hash(peer), Hash(mine)>> \in Seq(Byte)
  BY <1>2
<1>10. QED
  BY <1>1, <1>8, <1>9

-----------------------------------------------------------------------------
(* The checksum that a writer waits for. *)
LEMMA NarrowedTwice ==
  ASSUME NEW n \in Int
  PROVE  Uint32(Uint32(n)) = Uint32(n)
<1> DEFINE m == UintModulus
           r == n % m
<1>1. m \in Nat /\ m > 0
  BY OperationsAssumption
<1> HIDE DEF m
<1>2. r \in 0 .. m - 1
  BY <1>1
<1> HIDE DEF r
<1>3. r % m = r
  BY <1>1, <1>2
<1>4. QED
  BY <1>3 DEF Uint32, r, m

LEMMA AttemptTwice ==
  ASSUME NEW n \in Nat
  PROVE  n % 4 \in 0 .. 3 /\ ByteOf(n % 4) % 4 = ByteOf(n) % 4 /\ (n % 4) % 4 = n % 4
<1>1. ByteOf(n) % 4 = n % 4 /\ ByteOf(n % 4) % 4 = (n % 4) % 4
  <2>1. n \in Int /\ n % 4 \in Int
    OBVIOUS
  <2>2. QED
    BY <2>1, FlagsOfByte
<1>2. n % 4 \in 0 .. 3 /\ (n % 4) % 4 = n % 4
  OBVIOUS
<1>3. QED
  BY <1>1, <1>2

LEMMA SameAck ==
  ASSUME NEW ts \in Int, NEW n \in Nat, NEW x, NEW k
  PROVE  AckNumber(Uint32(ts), n % 4, x, k) = AckNumber(ts, n, x, k)
<1>1. Uint32(Uint32(ts)) = Uint32(ts) /\ ByteOf(n % 4) % 4 = ByteOf(n) % 4
  BY NarrowedTwice, AttemptTwice
<1>2. TextAckCRC(Uint32(Uint32(ts)), ByteOf(n % 4), x, PublicBytes[k]) =
        TextAckCRC(Uint32(ts), ByteOf(n), x, PublicBytes[k])
  BY <1>1, Zenon DEF TextAckCRC
<1>3. QED
  BY <1>2, Zenon DEF AckNumber

Awaited(ts, n, x) == AckNumber(ts, n, x, plan.writer.public)

(* The int of a page. *)
AsInt(n) == IF n < plan.writer.limit THEN n ELSE n - UintModulus

Expects(e, ts, n) ==
  \/ IsError(e)
  \/ \E x \in Texts : e \in {[crc |-> Awaited(ts, n, x)], [crc |-> AsInt(Awaited(ts, n, x))]}

IsTextBytes(b, s, ts, n) ==
  \E x \in Texts, mine \in DOMAIN PublicBytes, peer \in DOMAIN PublicBytes :
    b = TextPayload(s, mine, peer, x, ts, n)

OwnText(r, side, b, ts, n) ==
  /\ r.text = Shown(plan.text) /\ r.timestamp = Uint32(ts) /\ r.attempt = n % 4
  /\ KeysOf(side).err = Ok /\ b.secret = KeysOf(side).secret

LEMMA OwnTextIsRead ==
  ASSUME plan \in Plans, NEW side \in {plan.writer, plan.reader},
         NEW ts \in Nat, NEW n \in Nat, NEW b, NEW s, IsTextBytes(b, s, ts, n),
         ~IsError(ReadText(side, [payload |-> b]))
  PROVE  OwnText(ReadText(side, [payload |-> b]), side, b, ts, n)
<1> DEFINE r == ReadText(side, [payload |-> b])
<1>1. IsRead(r, KeysOf(side), b)
  BY ReadTextIs
<1>2. PICK x \in Texts, mine \in DOMAIN PublicBytes, peer \in DOMAIN PublicBytes :
        b = TextPayload(s, mine, peer, x, ts, n)
  BY DEF IsTextBytes
<1>3. ts \in Int /\ x \in Seq(Byte) /\ TrimNuls(x) = x /\ Shown(x) = Shown(plan.text)
  BY TextsOfPlan
<1> HIDE DEF r
<1>4. IsShownText(r, x, ts, n)
  BY <1>1, <1>2, <1>3, TextReadsBack, Zenon DEF IsRead
<1>5. QED
  BY <1>1, <1>3, <1>4, Zenon DEF IsRead, IsShownText, OwnText, r

LEMMA ExpectedIs ==
  ASSUME plan \in Plans, NEW ts \in Nat, NEW n \in Nat, NEW s,
         NEW packet, IsTextBytes(packet.Payload, s, ts, n)
  PROVE  Expects(Expected(packet, ts, n), ts, n)
<1>1. CASE plan.hashSize # 0
  <2>1. Expected(packet, ts, n) = [crc |-> Awaited(ts, n, plan.text)]
    BY <1>1 DEF Expected, Awaited
  <2>2. plan.text \in Texts
    BY DEF Texts
  <2>3. QED
    BY <2>1, <2>2, Zenon DEF Expects
<1>2. CASE plan.hashSize = 0
  <2> DEFINE w    == plan.writer
             env  == Env(w.limit)
             b    == packet.Payload
             raw(z) == <<Number(z.timestamp), Number(z.attempt), Text(plan.text), HexKey(w.public)>>
             c(z) == textAckCrc(env, raw(z))
             e(z) == IF IsError(z) THEN z ELSE c(z)
             r    == ReadText(w, [payload |-> b])
             S    == {e(z) : z \in {r}}
             x0   == Shown(plan.text)
  <2>1. Expected(packet, ts, n) = CHOOSE y \in S : TRUE
    BY <1>2 DEF Expected, Of, Call
  <2>2. S = {e(r)}
    <3> HIDE DEF e, r
    <3>1. QED
      OBVIOUS
  <2>3. ~IsError(r) => r.timestamp = Uint32(ts) /\ r.attempt = n % 4
    <3>1. ASSUME ~IsError(r)
          PROVE  OwnText(r, w, b, ts, n)
      BY <3>1, OwnTextIsRead
    <3> HIDE DEF r
    <3>2. QED
      BY <3>1, Zenon DEF OwnText
  <2>4. IsKey(HexKey(w.public)) /\ HexKey(w.public).key = w.public
    BY IsKeyOf
  <2> HIDE DEF S, e, r, c
  <2>5. Expected(packet, ts, n) = e(r)
    BY <2>1, <2>2, OnlyResult, Zenon
  <2>6. CASE IsError(r)
    BY <2>5, <2>6, Zenon DEF e, Expects
  <2>7. CASE ~IsError(r) /\ IsError(c(r))
    BY <2>5, <2>7, Zenon DEF e, Expects
  <2>8. CASE ~IsError(r) /\ ~IsError(c(r))
    <3>1. Expected(packet, ts, n) = c(r)
      BY <2>5, <2>8, Zenon DEF e
    <3> HIDE DEF env
    <3>2. c(r) = [crc |-> Int32Or64(env, AckNumber(r.timestamp, r.attempt, x0, w.public))]
      BY <2>4, <2>8, ChecksumRuns DEF c
    <3>3. AckNumber(r.timestamp, r.attempt, x0, w.public) = Awaited(ts, n, x0)
      <4>1. ts \in Int
        OBVIOUS
      <4>2. AckNumber(Uint32(ts), n % 4, x0, w.public) = AckNumber(ts, n, x0, w.public)
        BY <4>1, SameAck
      <4>3. QED
        BY <2>3, <2>8, <4>2, Zenon DEF Awaited
    <3>4. env.intLimit = plan.writer.limit
      BY DEF env, Env
    <3>5. c(r) = [crc |-> AsInt(Awaited(ts, n, x0))]
      BY <3>2, <3>3, <3>4, Zenon DEF Int32Or64, AsInt
    <3>6. x0 \in Texts
      BY DEF Texts
    <3>7. QED
      BY <3>1, <3>5, <3>6, Zenon DEF Expects
  <2>9. QED
    BY <2>6, <2>7, <2>8
<1>3. QED
  BY <1>1, <1>2

-----------------------------------------------------------------------------
(* A packet that arrives, and its envelope. *)
LEMMA EnvelopeIs ==
  ASSUME NEW side, NEW p, ~IsTransport(p.Route)
  PROVE  Envelope(side, p) = EnvelopeOf(p)
<1> DEFINE env  == Env(side.limit)
           raw  == <<[packet |-> p]>>
           kinds == <<"Hex">>
           a    == Arguments(raw, kinds)
           e(z) == ShownEnvelope(Received(z[1]))
           S    == {e(z) : z \in {a}}
           r    == Envelope(side, p)
<1>1. r = Ran(env, raw, kinds, S)
  BY DEF Envelope, Call, decodeEnvelope, WithArgs, Of, Ran, Arguments, ShownEnvelope, EnvelopeOf
<1>2. Len(raw) = Len(kinds) /\ \A i \in DOMAIN raw : Fits(env, kinds[i], raw[i])
  BY PacketArgument
<1>3. a[1] = [packet |-> p]
  BY PacketArgument DEF Arguments
<1>4. Received([packet |-> p]) = [err |-> Nil, packet |-> p]
  BY DEF Received, Is
<1> HIDE DEF a, env, raw, kinds
<1>5. S = {e(a)}
  OBVIOUS
<1>6. e(a) = EnvelopeOf(p)
  <2> DEFINE x == [err |-> Nil, packet |-> p]
  <2>1. x.err = Nil /\ x.packet = p
    OBVIOUS
  <2>2. ShownEnvelope(x) = EnvelopeOf(p)
    <3> HIDE DEF x
    <3>1. QED
      BY <2>1, Zenon DEF ShownEnvelope
  <2>3. QED
    BY <1>3, <1>4, <2>2, Zenon
<1> HIDE DEF e, S, r
<1>7. r = CHOOSE y \in S : TRUE
  BY <1>1, <1>2, Zenon DEF Ran
<1>8. QED
  BY <1>5, <1>6, <1>7, OnlyResult, Zenon DEF r

LEMMA EnvelopeFields ==
  ASSUME NEW side, NEW p, ~IsTransport(p.Route)
  PROVE  LET env == Envelope(side, p)
         IN  /\ env.routeCode = p.Route /\ env.typeCode = p.Type
             /\ env.pathHashSize = p.PathHashSize /\ env.hops = Hops(p)
             /\ env.payloadHex = [payload |-> p.Payload]
BY EnvelopeIs DEF EnvelopeOf

LEMMA ArrivedPacket ==
  ASSUME NEW m, NEW r, NEW type, NEW size, NEW path, NEW b,
         m.packet = PacketOf(r, type, size, path, b), NEW p \in Arrivals(m)
  PROVE  \E q : /\ p = PacketOf(r, type, size, q, b)
                /\ r = RouteFlood => \E way \in WaysTo(m.to) : q = Hashes(way, size)
<1> DEFINE along(way) == Hashes(way, m.packet.PathHashSize)
           t == m.packet
<1>1. PacketFields(t, r, type, size, path, b)
  BY FieldsOfPacket
<1>2. ASSUME NEW q PROVE [t EXCEPT !.Path = q] = PacketOf(r, type, size, q, b)
  BY OtherPath
<1>3. CASE r = RouteFlood
  <2>1. p \in {[t EXCEPT !.Path = along(way)] : way \in WaysTo(m.to)}
    BY <1>1, <1>3 DEF Arrivals, PacketFields
  <2>2. PICK way \in WaysTo(m.to) : p = [t EXCEPT !.Path = along(way)]
    BY <2>1
  <2>3. along(way) = Hashes(way, size)
    BY <1>1 DEF PacketFields
  <2>4. QED
    BY <1>2, <2>2, <2>3
<1>4. CASE r # RouteFlood
  <2>1. p = [t EXCEPT !.Path = << >>]
    BY <1>1, <1>4 DEF Arrivals, PacketFields
  <2>2. QED
    BY <1>2, <1>4, <2>1
<1>5. QED
  BY <1>3, <1>4

(* The path of a flooded packet, as its envelope tells it. *)
IsWay(path, size) == size \in 1 .. 3 /\ \E way \in plan.ways : Hashes(way, size) = path

Cut(s, w) == [i \in 1 .. Len(s) \div w |-> SubSeq(s, (i - 1) * w + 1, i * w)]

LEMMA RouteIsCut ==
  ASSUME NEW hops, NEW w, AreHops(hops, w)
  PROVE  Cut(FlattenSeq(hops), w) = SubSeq(hops, 1, Len(FlattenSeq(hops)) \div w)
<1> DEFINE flat == FlattenSeq(hops)
           n    == Len(flat)
           part == SubSeq(flat, 1, n)
<1>1. flat \in Seq(Byte) /\ n \in Nat
  BY RouteIsBytes
<1>2. n \in 0 .. n
  BY <1>1
<1>3. Cut(part, w) = SubSeq(hops, 1, n \div w)
  BY <1>2, HashesLeft DEF Cut
<1>4. part = flat
  <2> HIDE DEF flat
  <2>1. QED
    BY <1>1
<1>5. QED
  BY <1>3, <1>4, Zenon

LEMMA WayIsHops ==
  ASSUME plan \in Plans, NEW size \in 1 .. 3, NEW way \in plan.ways, NEW p,
         p.Path = Hashes(way, size), p.PathHashSize = size
  PROVE  /\ p.Path \in Seq(Byte) /\ Len(p.Path) % size = 0
         /\ FlattenSeq(Hops(p)) = p.Path
<1> DEFINE hops == HashesOf(way, size)
           flat == FlattenSeq(hops)
           n    == Len(flat)
<1>1. way \in Seq(Node) /\ size \in Widths
  BY PlanFacts DEF Widths
<1>2. AreHops(hops, size) /\ Len(hops) = Len(way) /\ Len(hops) \in Nat
  BY <1>1, NodeHashes
<1>3. p.Path = flat
  BY DEF Hashes, HashesOf
<1> HIDE DEF hops
<1>4. flat \in Seq(Byte) /\ n \in Nat
  BY <1>2, RouteIsBytes
<1>5. flat = Flat(hops, size, Len(hops)) /\ Len(Flat(hops, size, Len(hops))) = Len(hops) * size
  <2>1. Len(hops) \in 0 .. Len(hops)
    BY <1>2
  <2>2. QED
    BY <1>2, <2>1, RouteIsFlat, FlatFacts
<1>6. n = Len(hops) * size
  BY <1>5
<1> HIDE DEF flat
<1>7. n % size = 0 /\ n \div size = Len(hops)
  <2>1. CASE size = 1
    BY <1>2, <1>6, <2>1
  <2>2. CASE size = 2
    BY <1>2, <1>6, <2>2
  <2>3. CASE size = 3
    BY <1>2, <1>6, <2>3
  <2>4. QED
    BY <2>1, <2>2, <2>3
<1>8. Hops(p) = [i \in 1 .. n \div size |-> SubSeq(flat, (i - 1) * size + 1, i * size)]
  <2>1. HopCount(p) = n \div size
    BY <1>3 DEF HopCount
  <2>2. Hops(p) = [i \in 1 .. HopCount(p) |-> SubSeq(p.Path, (i - 1) * size + 1, i * size)]
    BY <1>3, <1>7 DEF Hops
  <2>3. QED
    BY <1>3, <2>1, <2>2
<1>9. [i \in 1 .. n \div size |-> SubSeq(flat, (i - 1) * size + 1, i * size)]
        = SubSeq(hops, 1, n \div size)
  BY <1>2, RouteIsCut DEF Cut, flat
<1>10. SubSeq(hops, 1, n \div size) = hops
  BY <1>2, <1>7 DEF AreHops
<1>11. QED
  BY <1>3, <1>4, <1>7, <1>8, <1>9, <1>10 DEF flat

-----------------------------------------------------------------------------
(* The checksums of a plan. *)
LEMMA AckOfAttempt ==
  ASSUME NEW ts, NEW n \in Nat, NEW x
  PROVE  Awaited(ts, n % 4, x) = Awaited(ts, n, x)
<1>1. ByteOf(n % 4) % 4 = ByteOf(n) % 4
  BY AttemptTwice
<1>2. TextAckCRC(Uint32(ts), ByteOf(n % 4), x, PublicBytes[plan.writer.public]) =
        TextAckCRC(Uint32(ts), ByteOf(n), x, PublicBytes[plan.writer.public])
  BY <1>1, Zenon DEF TextAckCRC
<1>3. QED
  BY <1>2, Zenon DEF AckNumber, Awaited

IsChecksum(c) == c \in 0 .. UintModulus - 1

LEMMA WordOfChecksum ==
  ASSUME NEW c, IsChecksum(c)
  PROVE  c \in Word /\ Uint32(c) = c
<1> DEFINE m == UintModulus
<1>1. m \in Nat /\ m > 0 /\ c \in 0 .. m - 1
  BY OperationsAssumption DEF IsChecksum
<1> HIDE DEF m
<1>2. c % m = c /\ c \in Int
  BY <1>1
<1>3. Uint32(c) \in Word
  BY <1>2, NarrowedIsWord
<1>4. QED
  BY <1>2, <1>3 DEF Uint32, m

LEMMA SumsOfPlan ==
  ASSUME plan \in Plans, NEW s \in Seconds, NEW t \in Seconds, NEW a \in Nat, NEW b \in Nat,
         NEW x \in Texts, NEW y \in Texts
  PROVE  /\ IsChecksum(Awaited(s, a, x))
         /\ Awaited(s, a, x) = Awaited(t, b, y) => Uint32(s) = Uint32(t) /\ a % 4 = b % 4
<1>1. \A s1, t1 \in Seconds, a1, b1 \in 0 .. 3, x1, y1 \in Texts :
        /\ Awaited(s1, a1, x1) \in 0 .. UintModulus - 1
        /\ Awaited(s1, a1, x1) = Awaited(t1, b1, y1) => Uint32(s1) = Uint32(t1) /\ a1 = b1
  <2>1. IsText(plan)
    BY SidesOfPlan, Zenon DEF IsPlan
  <2> DEFINE key == KeyNumber(PublicBytes[plan.writer.public])
             sum(ts, n, text) == Checksum(<<Uint32(ts), n, TextNumber(text), key>>)
  <2>2. \A s1, t1 \in Seconds, a1, b1 \in 0 .. 3, x1, y1 \in Texts :
          /\ sum(s1, a1, x1) \in 0 .. UintModulus - 1
          /\ sum(s1, a1, x1) = sum(t1, b1, y1) => Uint32(s1) = Uint32(t1) /\ a1 = b1
    BY <2>1, Zenon DEF IsText, Seconds, Texts
  <2>3. ASSUME NEW ts, NEW n \in 0 .. 3, NEW text
        PROVE  Awaited(ts, n, text) = sum(ts, n, text)
    <3>1. ByteOf(n) % 4 = n
      BY DEF ByteOf
    <3>2. QED
      BY <3>1, Zenon DEF Awaited, AckNumber, TextAckCRC
  <2> HIDE DEF sum, key
  <2>4. ASSUME NEW s1 \in Seconds, NEW t1 \in Seconds, NEW a1 \in 0 .. 3, NEW b1 \in 0 .. 3,
               NEW x1 \in Texts, NEW y1 \in Texts
        PROVE  /\ Awaited(s1, a1, x1) \in 0 .. UintModulus - 1
               /\ Awaited(s1, a1, x1) = Awaited(t1, b1, y1) => Uint32(s1) = Uint32(t1) /\ a1 = b1
    <3>1. Awaited(s1, a1, x1) = sum(s1, a1, x1) /\ Awaited(t1, b1, y1) = sum(t1, b1, y1)
      BY <2>3, Zenon
    <3>2. /\ sum(s1, a1, x1) \in 0 .. UintModulus - 1
          /\ sum(s1, a1, x1) = sum(t1, b1, y1) => Uint32(s1) = Uint32(t1) /\ a1 = b1
      BY <2>2
    <3>3. QED
      BY <3>1, <3>2, Zenon
  <2>5. QED
    BY <2>4, Zenon
<1>2. a % 4 \in 0 .. 3 /\ b % 4 \in 0 .. 3
  BY AttemptTwice
<1>3. Awaited(s, a % 4, x) = Awaited(s, a, x) /\ Awaited(t, b % 4, y) = Awaited(t, b, y)
  BY AckOfAttempt
<1>4. /\ Awaited(s, a % 4, x) \in 0 .. UintModulus - 1
      /\ Awaited(s, a % 4, x) = Awaited(t, b % 4, y)
           => Uint32(s) = Uint32(t) /\ a % 4 = b % 4
  <2> DEFINE a1 == a % 4
             b1 == b % 4
  <2>1. a1 \in 0 .. 3 /\ b1 \in 0 .. 3
    BY <1>2
  <2> HIDE DEF a1, b1
  <2>2. /\ Awaited(s, a1, x) \in 0 .. UintModulus - 1
        /\ Awaited(s, a1, x) = Awaited(t, b1, y) => Uint32(s) = Uint32(t) /\ a1 = b1
    BY <1>1, <2>1
  <2>3. QED
    BY <2>2 DEF a1, b1
<1>5. QED
  BY <1>3, <1>4, Zenon DEF IsChecksum

WasShown(t) ==
  \E ts \in Seconds, n \in 0 .. plan.maxAttempts - 1 :
    t.text = Shown(plan.text) /\ t.timestamp = Uint32(ts) /\ t.attempt = n % 4

SumOf(t) == AckNumber(t.timestamp, t.attempt, t.text, plan.writer.public)

LEMMA SumOfShown ==
  ASSUME plan \in Plans, NEW r, NEW ts \in Seconds, NEW n \in Nat, r.text = Shown(plan.text),
         r.timestamp = Uint32(ts), r.attempt = n % 4
  PROVE  /\ SumOf(r) = Awaited(ts, n, Shown(plan.text))
         /\ IsChecksum(SumOf(r))
         /\ Shown(r.text) = r.text
<1>1. ts \in Int /\ Shown(plan.text) \in Texts
  BY SecondsOfPlan DEF Texts
<1>2. SumOf(r) = Awaited(ts, n, Shown(plan.text))
  <2>1. AckNumber(Uint32(ts), n % 4, Shown(plan.text), plan.writer.public) =
          Awaited(ts, n, Shown(plan.text))
    BY <1>1, SameAck, Zenon DEF Awaited
  <2>2. QED
    BY <2>1, Zenon DEF SumOf
<1>3. Shown(Shown(plan.text)) = Shown(plan.text)
  BY <1>1, TextsOfPlan, Zenon
<1>4. QED
  BY <1>1, <1>2, <1>3, SumsOfPlan, Zenon

-----------------------------------------------------------------------------
(* What confirms a checksum. *)
IsReturn(b, size, c) ==
  \E way \in plan.ways, mine \in DOMAIN PublicBytes, peer \in DOMAIN PublicBytes :
    LET path == Hashes(way, size)
    IN  /\ HopsFit(size, path)
        /\ b = PairPayload(b.secret, Hash(peer), Hash(mine),
                 PathPlaintext(path, size, PayloadAck, AckExtra(Uint32Bytes(c), RandomByte)))

Confirms(p, c) ==
  /\ IsChecksum(c)
  /\ p.Route \in {RouteFlood, RouteDirect}
  /\ p = PacketOf(p.Route, p.Type, p.PathHashSize, << >>, p.Payload)
  /\ Laid(p.Route, p.Type, p.PathHashSize, << >>)
  /\ \/ p.Type = PayloadAck /\ p.Payload = Clear(Uint32Bytes(c))
     \/ p.Type = PayloadMultipart /\ \E k \in Byte : p.Payload = MultipartAckPayload(k, c)
     \/ p.Type = PayloadPath /\ IsReturn(p.Payload, p.PathHashSize, c)

LEMMA ConfirmsBy ==
  ASSUME NEW e, NEW r \in {RouteFlood, RouteDirect}, NEW type, NEW size, NEW b, NEW c,
         EncodedAs(e, r, type, size, << >>, b), IsChecksum(c),
         \/ type = PayloadAck /\ b = Clear(Uint32Bytes(c))
         \/ type = PayloadMultipart /\ \E k \in Byte : b = MultipartAckPayload(k, c)
         \/ type = PayloadPath /\ IsReturn(b, size, c)
  PROVE  Confirms(e.hex.packet, c)
<1> DEFINE p == PacketOf(r, type, size, << >>, b)
<1>1. e = [hex |-> [packet |-> p]] /\ Laid(r, type, size, << >>)
  BY DEF EncodedAs
<1>2. PacketFields(p, r, type, size, << >>, b)
  BY FieldsOfPacket
<1>3. p = PacketOf(p.Route, p.Type, p.PathHashSize, << >>, p.Payload)
  BY <1>2, Zenon DEF PacketFields
<1> HIDE DEF p
<1>4. e.hex.packet = p
  BY <1>1
<1>5. Confirms(p, c)
  BY <1>1, <1>2, <1>3, Zenon DEF Confirms, PacketFields
<1>6. QED
  BY <1>4, <1>5, Zenon

LEMMA FloodedAs ==
  ASSUME NEW type, NEW b, ~IsError(Flood(type, b))
  PROVE  EncodedAs(Flood(type, b), RouteFlood, type, DefaultPathHashSize, << >>, b)
<1>1. DefaultPathHashSize # 0 /\ RouteFlood \in {RouteFlood, RouteDirect}
  BY DEF DefaultPathHashSize
<1>2. Flood(type, b) = Encoded(PacketOf(RouteFlood, type, DefaultPathHashSize, << >>, b))
  BY DEF Flood
<1>3. QED
  BY <1>1, <1>2, EncodedWell, Zenon

LEMMA AckConfirms ==
  ASSUME NEW c, IsChecksum(c), ~IsError(AckPacket(c))
  PROVE  Confirms(AckPacket(c).hex.packet, c)
<1>1. AckPacket(c) = Flood(PayloadAck, Clear(Uint32Bytes(c)))
  BY WordOfChecksum, Zenon DEF AckPacket
<1>2. QED
  BY <1>1, FloodedAs, ConfirmsBy, Zenon

-----------------------------------------------------------------------------
(* What a reader answers. *)
LEMMA NarrowedAgain ==
  ASSUME NEW env, NEW c, IsChecksum(c)
  PROVE  Uint32(Int32Or64(env, c)) = c
<1> DEFINE m == UintModulus
           x == Int32Or64(env, c)
<1>1. m \in Nat /\ m > 0 /\ c \in 0 .. m - 1
  BY OperationsAssumption DEF IsChecksum
<1>2. x = c \/ x = c - m
  BY DEF Int32Or64
<1> HIDE DEF m, x
<1>3. x % m = c
  <2>1. CASE x = c
    BY <1>1, <2>1
  <2>2. CASE x = c - m
    <3>1. x \in -m .. -1 /\ x = m * (-1) + c
      BY <1>1, <2>2
    <3>2. QED
      BY <1>1, <3>1
  <2>3. QED
    BY <1>2, <2>1, <2>2
<1>4. QED
  BY <1>3 DEF Uint32, x, m

LEMMA TextAckConfirms ==
  ASSUME plan \in Plans, NEW env, NEW t, Shown(t.text) = t.text, IsChecksum(SumOf(t)),
         NEW raw, raw = <<Number(t.timestamp), Number(t.attempt), Text(t.text), PeerOf(plan.reader)>>,
         ~IsError(encodeTextAck(env, raw))
  PROVE  Confirms(encodeTextAck(env, raw).hex.packet, SumOf(t))
<1> DEFINE k == PeerOf(plan.reader)
           r == encodeTextAck(env, raw)
<1>1. k = HexKey(plan.writer.public)
  BY PeersOfPlan
<1>2. IsKey(k) /\ HasBytes(k, KeySize) /\ k.key = plan.writer.public
  BY <1>1, IsKeyOf DEF KeySize
<1> HIDE DEF k
<1>3. r = IF ~HasBytes(k, KeySize) THEN Failed("KeySize")
          ELSE AckPacket(AckNumber(t.timestamp, t.attempt, Shown(t.text), k.key))
  BY <1>2, TextAckRuns DEF k
<1>4. r = AckPacket(SumOf(t))
  BY <1>2, <1>3, Zenon DEF SumOf
<1>5. QED
  BY <1>4, AckConfirms, Zenon

LEMMA MultipartConfirms ==
  ASSUME NEW env, NEW k \in Int, NEW c, IsChecksum(Uint32(c)),
         NEW raw, raw = <<Number(k), Number(c)>>,
         ~IsError(encodeMultipartAck(env, raw))
  PROVE  Confirms(encodeMultipartAck(env, raw).hex.packet, Uint32(c))
<1> DEFINE b == MultipartAckPayload(ByteOf(k), Uint32(c))
           r == encodeMultipartAck(env, raw)
<1>1. r = Encoded(PacketOf(RouteDirect, PayloadMultipart, DefaultPathHashSize, << >>, b))
  BY MultipartRuns
<1>2. DefaultPathHashSize # 0 /\ RouteDirect \in {RouteFlood, RouteDirect}
  BY DEF DefaultPathHashSize
<1>3. ByteOf(k) \in Byte
  BY FlagsOfByte
<1> HIDE DEF r
<1>4. EncodedAs(r, RouteDirect, PayloadMultipart, DefaultPathHashSize, << >>, b)
  BY <1>1, <1>2, EncodedWell, Zenon DEF r
<1>5. Confirms(r.hex.packet, Uint32(c))
  BY <1>2, <1>3, <1>4, ConfirmsBy, Zenon
<1>6. QED
  BY <1>5 DEF r

LEMMA DirectAnswerConfirms ==
  ASSUME plan \in Plans, NEW t, Shown(t.text) = t.text, IsChecksum(SumOf(t)),
         NEW a \in DirectAnswers(t), ~IsError(a)
  PROVE  Confirms(a.hex.packet, SumOf(t))
<1> DEFINE r    == plan.reader
           e    == Env(r.limit)
           peer == PeerOf(r)
           what == <<Number(t.timestamp), Number(t.attempt), Text(t.text), peer>>
           sum  == textAckCrc(e, what)
           S    == {encodeMultipartAck(e, <<Number(k), Number(sum.crc)>>) : k \in 0 .. plan.repeats - 1}
<1>1. DirectAnswers(t) = IF plan.repeats = 0 THEN {encodeTextAck(e, what)}
                         ELSE IF IsError(sum) THEN {sum} ELSE S
  BY DEF DirectAnswers, Call
<1>2. IsKey(peer) /\ peer.key = plan.writer.public
  BY PeersOfPlan, IsKeyOf, Zenon
<1>3. CASE plan.repeats = 0
  <2>1. a = encodeTextAck(e, what)
    BY <1>1, <1>3
  <2>2. QED
    BY <2>1, TextAckConfirms
<1>4. CASE plan.repeats # 0
  <2>1. ~IsError(sum)
    <3> HIDE DEF sum, S
    <3>1. QED
      BY <1>1, <1>4
  <2>2. PICK k \in 0 .. plan.repeats - 1 :
          a = encodeMultipartAck(e, <<Number(k), Number(sum.crc)>>)
    BY <1>1, <1>4, <2>1
  <2> HIDE DEF e, peer
  <2>3. sum = [crc |-> Int32Or64(e, AckNumber(t.timestamp, t.attempt, Shown(t.text), peer.key))]
    BY <1>2, <2>1, ChecksumRuns
  <2> HIDE DEF sum
  <2>4. sum.crc = Int32Or64(e, SumOf(t))
    BY <1>2, <2>3 DEF SumOf
  <2>5. Uint32(sum.crc) = SumOf(t)
    BY <2>4, NarrowedAgain
  <2>6. k \in Int
    OBVIOUS
  <2>7. QED
    BY <2>2, <2>5, <2>6, MultipartConfirms
<1>5. QED
  BY <1>3, <1>4

-----------------------------------------------------------------------------
LEMMA ReturnConfirms ==
  ASSUME plan \in Plans, NEW env, env.random = RandomByte, NEW keys,
         NEW mine \in DOMAIN PublicBytes,
         NEW t, IsChecksum(SumOf(t)), NEW path, NEW size, NEW way \in plan.ways,
         path = Hashes(way, size),
         NEW r, r = ReturnWith(keys, env, mine, plan.writer.public, t.timestamp, t.attempt, t.text,
                               path, size),
         ~IsError(r)
  PROVE  Confirms(r.hex.packet, SumOf(t))
<1> DEFINE peer == plan.writer.public
           extra == AckExtra(Uint32Bytes(SumOf(t)), RandomByte)
           b(s) == PairPayload(s, Hash(peer), Hash(mine), PathPlaintext(path, size, PayloadAck, extra))
           err  == PathReturnError(path, size)
           c(k) == IF err # Nil THEN Failed(err)
                   ELSE Encoded(PacketOf(RouteFlood, PayloadPath, size, << >>, b(k.secret)))
           e(k) == IF k.err # Ok THEN Failed(k.err) ELSE c(k)
           S    == {e(k) : k \in {keys}}
<1>1. r = CHOOSE y \in S : TRUE
  BY DEF ReturnWith, WithSecret, Of, PathTextAck, SumOf
<1>2. S = {e(keys)}
  <2> HIDE DEF e
  <2>1. QED
    OBVIOUS
<1> HIDE DEF S, c, e, b, err
<1>3. r = e(keys)
  BY <1>1, <1>2, OnlyResult, Zenon
<1>4. r = c(keys)
  BY <1>3, ResultOrError, Zenon DEF e
<1>5. err = Nil /\ r = Encoded(PacketOf(RouteFlood, PayloadPath, size, << >>, b(keys.secret)))
  BY <1>4, ResultOrError, Zenon DEF c
<1>6. HopsFit(size, path)
  <2>1. size \in 1 .. 3 /\ Len(path) % size = 0 /\ ~ (Len(path) \div size > MaxHopCount)
    BY <1>5 DEF err, PathReturnError, Nil
  <2>2. HopCount([PathHashSize |-> size, Path |-> path]) = Len(path) \div size
    BY <2>1 DEF HopCount
  <2>3. QED
    BY <2>1, <2>2 DEF HopsFit
<1>7. size # 0 /\ RouteFlood \in {RouteFlood, RouteDirect}
  BY <1>6 DEF HopsFit
<1>8. EncodedAs(r, RouteFlood, PayloadPath, size, << >>, b(keys.secret))
  BY <1>5, <1>7, EncodedWell, Zenon
<1>9. b(keys.secret).secret = keys.secret
  BY DEF b, PairPayload, Sealed
<1>10. peer \in DOMAIN PublicBytes
  BY SidesOfPlan
<1>11. IsReturn(b(keys.secret), size, SumOf(t))
  BY <1>6, <1>9, <1>10, Zenon DEF IsReturn, b
<1>12. QED
  BY <1>7, <1>8, <1>11, ConfirmsBy, Zenon

-----------------------------------------------------------------------------
LEMMA PathAnswerConfirms ==
  ASSUME plan \in Plans, NEW t, Shown(t.text) = t.text, IsChecksum(SumOf(t)),
         NEW env, NEW way \in plan.ways,
         FlattenSeq(env.hops) = Hashes(way, env.pathHashSize),
         NEW a, a = PathAnswer(env, t), ~IsError(a)
  PROVE  Confirms(a.hex.packet, SumOf(t))
<1> DEFINE r    == plan.reader
           e    == Env(r.limit)
           peer == PeerOf(r)
           mine == HexKey(r.public)
           path == FlattenSeq(env.hops)
           size == env.pathHashSize
           what == <<Number(t.timestamp), Number(t.attempt), Text(t.text), Bytes(path), Number(size)>>
<1>1. /\ IsKey(r.private) /\ IsKey(peer) /\ peer.key = plan.writer.public
      /\ IsKey(mine) /\ HasBytes(mine, 32) /\ mine.key = r.public
      /\ r.form \in Forms /\ r.public \in DOMAIN PublicBytes
  BY SidesOfPlan, PeersOfPlan, IsKeyOf, Zenon
<1>2. e.random = RandomByte
  BY DEF Env
<1>3. ~IsError(a) /\ Shown(t.text) = t.text
  OBVIOUS
<1>4. CASE r.form = "seed"
  <2> DEFINE raw == <<r.private, peer, Number(t.timestamp), Number(t.attempt), Text(t.text),
                      Bytes(path), Number(size)>>
             keys == identitySharedSecret(r.private, peer)
             own  == IdentityFromSeed(r.private.key).PublicKey
  <2>1. a = encodePathTextAckIdentity(e, raw)
    <3>1. a = encodePathTextAckIdentity(e, <<r.private, peer>> \o what)
      BY <1>4 DEF PathAnswer, Call
    <3>2. <<r.private, peer>> \o what = raw
      BY TwoAndFive
    <3>3. QED
      BY <3>1, <3>2, Zenon
  <2> HIDE DEF e, peer, path, size
  <2>2. a = ReturnWith(keys, e, own, peer.key, t.timestamp, t.attempt, Shown(t.text), path, size)
    BY <1>1, <1>3, <2>1, IdentityReturnRuns
  <2>3. own = EdPublic(r.private.key)
    BY DEF IdentityFromSeed
  <2>4. own \in DOMAIN PublicBytes
    BY <1>4, <2>3, SidesOfPlan, Zenon DEF IsSide
  <2> HIDE DEF keys, own
  <2>5. path = Hashes(way, size)
    BY DEF path, size
  <2>6. a = ReturnWith(keys, e, own, plan.writer.public, t.timestamp, t.attempt, t.text, path, size)
    BY <1>1, <1>3, <2>2
  <2>7. QED
    BY <1>2, <1>3, <2>4, <2>5, <2>6, ReturnConfirms
<1>5. CASE r.form = "expanded"
  <2> DEFINE raw == <<r.private, mine, peer, Number(t.timestamp), Number(t.attempt), Text(t.text),
                      Bytes(path), Number(size)>>
             keys == expandedIdentityContext(r.private, mine, peer)
  <2>1. a = encodePathTextAckExpanded(e, raw)
    <3>1. a = encodePathTextAckExpanded(e, <<r.private, mine, peer>> \o what)
      BY <1>5 DEF PathAnswer, Call
    <3>2. <<r.private, mine, peer>> \o what = raw
      BY ThreeAndFive
    <3>3. QED
      BY <3>1, <3>2, Zenon
  <2> HIDE DEF e, peer, path, size, mine
  <2>2. a = ReturnWith(keys, e, mine.key, peer.key, t.timestamp, t.attempt, Shown(t.text), path, size)
    BY <1>1, <1>3, <2>1, ExpandedReturnRuns
  <2> HIDE DEF keys
  <2>3. path = Hashes(way, size)
    BY DEF path, size
  <2>4. a = ReturnWith(keys, e, r.public, plan.writer.public, t.timestamp, t.attempt, t.text, path, size)
    BY <1>1, <1>3, <2>2
  <2>5. QED
    BY <1>1, <1>2, <1>3, <2>3, <2>4, ReturnConfirms
<1>6. CASE r.form = "legacy"
  <2> DEFINE raw == <<Number(t.timestamp), Number(t.attempt), Text(t.text), peer>>
  <2>1. a = encodeTextAck(e, raw)
    <3>1. a = encodeTextAck(e, SubSeq(what, 1, 3) \o <<peer>>)
      BY <1>6 DEF PathAnswer, Call
    <3>2. SubSeq(what, 1, 3) = <<Number(t.timestamp), Number(t.attempt), Text(t.text)>>
      BY FirstThree
    <3>3. <<Number(t.timestamp), Number(t.attempt), Text(t.text)>> \o <<peer>> = raw
      BY ThreeAndOne
    <3>4. QED
      BY <3>1, <3>2, <3>3, Zenon
  <2>2. QED
    BY <1>3, <2>1, TextAckConfirms
<1>7. QED
  BY <1>1, <1>4, <1>5, <1>6, Zenon DEF Forms

-----------------------------------------------------------------------------
(* What a writer finds in an answer. *)
LEMMA WordIsShown ==
  ASSUME NEW c, IsChecksum(c)
  PROVE  /\ DecodeAck(Clear(Uint32Bytes(c))) = Result("Ack", [crc |-> c])
         /\ Uint32Bytes(c) \in Seq(Byte) /\ Len(Uint32Bytes(c)) = 4
<1> DEFINE s == Uint32Bytes(c)
           b == Clear(s)
<1>1. c \in Word
  BY WordOfChecksum
<1>2. s \in Seq(Byte) /\ Len(s) = 4 /\ Uint32At(s, 1) = c
  BY <1>1, WordAlone
<1>3. b.head = s
  BY DEF Clear
<1> HIDE DEF s, b
<1>4. ~ (Len(b.head) < 4)
  <2>1. Len(b.head) = 4
    BY <1>2, <1>3, Zenon
  <2>2. QED
    BY <2>1
<1>5. DecodeAck(b) = Result("Ack", [crc |-> Uint32At(b.head, 1)])
  BY <1>4, Zenon DEF DecodeAck
<1>6. DecodeAck(b) = Result("Ack", [crc |-> c])
  BY <1>2, <1>3, <1>5, Zenon
<1>7. QED
  BY <1>2, <1>6 DEF s, b

LEMMA AckIsFound ==
  ASSUME NEW env, NEW c, IsChecksum(c)
  PROVE  ShownAck(env, Clear(Uint32Bytes(c))) = [crc |-> Int32Or64(env, c)]
<1> DEFINE d == DecodeAck(Clear(Uint32Bytes(c)))
<1>1. d = Result("Ack", [crc |-> c])
  BY WordIsShown
<1>2. d.err = Nil /\ d.value.crc = c
  BY <1>1 DEF Result
<1> HIDE DEF d
<1>3. QED
  BY <1>2, Zenon DEF ShownAck, Shows, d

LEMMA RepeatedIsFound ==
  ASSUME NEW env, NEW c, IsChecksum(c), NEW k \in Byte
  PROVE  LET r == ShownMultipart(env, MultipartAckPayload(k, c))
         IN  /\ DOMAIN r = {"remaining", "innerTypeCode", "innerPayloadHex", "ackCrc"}
             /\ r.ackCrc = Int32Or64(env, c)
<1> DEFINE s == Uint32Bytes(c)
           f == ((k * 16) % 256) + PayloadAck
           b == MultipartAckPayload(k, c)
           d == DecodeMultipartPayload(b)
           a == DecodeAck(Clear(s))
           r == ShownMultipart(env, b)
<1>1. a = Result("Ack", [crc |-> c]) /\ s \in Seq(Byte)
  BY WordIsShown
<1>2. a.err = Nil /\ a.value.crc = c
  BY <1>1 DEF Result
<1>3. f \in Byte /\ f % 16 = PayloadAck
  BY DEF Byte, PayloadAck
<1> HIDE DEF f
<1>4. b = Clear(<<f>> \o s)
  BY DEF MultipartAckPayload, f
<1> HIDE DEF s, b
<1>5. b.head = <<f>> \o s
  BY <1>4 DEF Clear
<1>6. Len(b.head) = 1 + Len(s) /\ b.head[1] = f /\ From(b.head, 2) = s
  BY <1>1, <1>3, <1>5, ByteThen
<1>7. ~ (Len(b.head) < 1)
  BY <1>1, <1>6
<1>8. d = Result("Multipart", [remaining |-> b.head[1] \div 16, innerType |-> b.head[1] % 16,
                               innerPayload |-> From(b.head, 2)])
  BY <1>7, Zenon DEF DecodeMultipartPayload
<1>9. d.err = Nil /\ d.value.innerType = PayloadAck /\ d.value.innerPayload = s
  BY <1>3, <1>6, <1>8 DEF Result
<1> HIDE DEF d, a
<1>10. DecodeAck(Clear(d.value.innerPayload)) = a
  BY <1>9, Zenon DEF a
<1>11. r = [remaining |-> d.value.remaining, innerTypeCode |-> d.value.innerType,
            innerPayloadHex |-> d.value.innerPayload, ackCrc |-> Int32Or64(env, a.value.crc)]
  BY <1>2, <1>9, <1>10, Zenon DEF ShownMultipart, Shows, d
<1> HIDE DEF r
<1>12. QED
  BY <1>2, <1>11 DEF r, b

LEMMA ReturnIsRead ==
  ASSUME NEW env, NEW keys, NEW b, ~IsError(ShownPath(env, keys, b))
  PROVE  ShownPath(env, keys, b) = PathFields(env, ReturnedPath(Pair(b)))
<1> DEFINE r    == ShownPath(env, keys, b)
           d(k) == DecodePathPayload(k.secret, Pair(b))
           c(k) == IF d(k).err # Nil THEN Failed(d(k).err) ELSE PathFields(env, d(k).path)
           e(k) == IF k.err # Ok THEN Failed(k.err) ELSE c(k)
           S    == {e(k) : k \in {keys}}
<1>1. r = CHOOSE y \in S : TRUE
  BY DEF ShownPath, ReadPath, WithSecret, Of
<1>2. S = {e(keys)}
  <2> HIDE DEF e
  <2>1. QED
    OBVIOUS
<1>3. ~IsError(r)
  OBVIOUS
<1> HIDE DEF S, c, e, d, r
<1>4. r = e(keys)
  BY <1>1, <1>2, OnlyResult, Zenon
<1>5. r = c(keys)
  BY <1>3, <1>4, ResultOrError, Zenon DEF e
<1>6. d(keys).err = Nil /\ r = PathFields(env, d(keys).path)
  BY <1>3, <1>5, ResultOrError, Zenon DEF c
<1>7. d(keys).path = ReturnedPath(Pair(b))
  BY <1>6 DEF d, DecodePathPayload
<1>8. QED
  BY <1>6, <1>7, Zenon DEF r

LEMMA HopsAreWithin ==
  ASSUME plan \in Plans, NEW size, NEW way \in plan.ways, HopsFit(size, Hashes(way, size))
  PROVE  LET q == [PathHashSize |-> size, Path |-> Hashes(way, size)]
         IN  /\ IsPathOf(q) /\ HopCount(q) <= MaxHopCount
             /\ IsWay(q.Path, q.PathHashSize)
<1> DEFINE path == Hashes(way, size)
           q == [PathHashSize |-> size, Path |-> path]
<1>1. size \in 1 .. 3 /\ Len(path) % size = 0 /\ ~ (HopCount(q) > MaxHopCount)
  BY DEF HopsFit
<1>2. q.Path = path /\ q.PathHashSize = size
  OBVIOUS
<1> HIDE DEF path, q
<1>3. q.Path = Hashes(way, size)
  BY <1>2 DEF path
<1>4. q.Path \in Seq(Byte) /\ Len(q.Path) % size = 0
  BY <1>1, <1>2, <1>3, WayIsHops
<1>5. IsPathOf(q)
  BY <1>1, <1>2, <1>4, Zenon DEF IsPathOf
<1>6. HopCount(q) \in Nat /\ MaxHopCount \in Nat
  BY <1>5, HopsOfWhole DEF MaxHopCount
<1>7. HopCount(q) <= MaxHopCount
  BY <1>1, <1>6
<1>8. IsWay(q.Path, q.PathHashSize)
  BY <1>1, <1>2, <1>3, Zenon DEF IsWay
<1>9. QED
  BY <1>5, <1>7, <1>8 DEF q, path

LEMMA NotEmpty ==
  ASSUME NEW x, Len(x) = 6
  PROVE  x # << >>
<1>1. Len(<< >>) = 0
  OBVIOUS
<1>2. QED
  BY <1>1

LEMMA ReturnIsFound ==
  ASSUME plan \in Plans, NEW env, NEW keys, NEW b, NEW size, NEW c, IsChecksum(c),
         IsReturn(b, size, c), ~IsError(ShownPath(env, keys, b))
  PROVE  LET r == ShownPath(env, keys, b)
         IN  /\ DOMAIN r = {"destHash", "srcHash", "path", "extraType", "extra", "ackCrc"}
             /\ r.ackCrc = Int32Or64(env, c)
             /\ IsWay(r.path, size)
<1> DEFINE r == ShownPath(env, keys, b)
           extra == AckExtra(Uint32Bytes(c), RandomByte)
           crc == Uint32Bytes(c)
<1>1. PICK way \in plan.ways, mine \in DOMAIN PublicBytes, peer \in DOMAIN PublicBytes :
        /\ HopsFit(size, Hashes(way, size))
        /\ b = PairPayload(b.secret, Hash(peer), Hash(mine),
                           PathPlaintext(Hashes(way, size), size, PayloadAck, extra))
  BY DEF IsReturn
<1> DEFINE path == Hashes(way, size)
           q    == [PathHashSize |-> size, Path |-> path]
           rp   == ReturnedPath(Pair(b))
           sealed == Seal(b.secret, Hash(peer), Hash(mine),
                          PathPlaintext(q.Path, q.PathHashSize, PayloadAck, extra))
<1>2. IsPathOf(q) /\ HopCount(q) <= MaxHopCount /\ IsWay(q.Path, q.PathHashSize)
  BY <1>1, HopsAreWithin
<1>3. q.Path = path /\ q.PathHashSize = size
  OBVIOUS
<1>4. r = PathFields(env, rp)
  BY ReturnIsRead
<1>5. Pair(b) = sealed
  <2> DEFINE plain == PathPlaintext(path, size, PayloadAck, extra)
  <2>1. b = PairPayload(b.secret, Hash(peer), Hash(mine), plain)
    BY <1>1
  <2>2. sealed = Seal(b.secret, Hash(peer), Hash(mine), plain)
    BY <1>3
  <2> HIDE DEF plain, sealed
  <2>3. b = [head |-> <<Hash(peer), Hash(mine)>>, secret |-> b.secret, plain |-> Padded(plain)]
    BY <2>1 DEF PairPayload, Sealed
  <2>4. b.head = <<Hash(peer), Hash(mine)>> /\ b.plain = Padded(plain)
    BY <2>3
  <2>5. sealed = [dest |-> Hash(peer), src |-> Hash(mine), secret |-> b.secret,
                  plain |-> Padded(plain)]
    BY <2>2 DEF Seal
  <2>6. QED
    BY <2>4, <2>5 DEF Pair
<1>6. c \in Word /\ RandomByte \in Byte /\ PayloadAck \in Byte /\ 0 \in Byte
  BY WordOfChecksum, PagesAssumption, BytesAreNumbers DEF PayloadAck, Byte
<1>7. extra \in Seq(Byte) /\ Len(extra) = 6 /\ extra # << >>
      /\ \A z \in Seq(Byte) : Len(extra \o z) >= 4 /\ Uint32At(extra \o z, 1) = c
  <2> DEFINE end == <<0, RandomByte>>
  <2>1. end \in Seq(Byte) /\ Len(end) = 2
    BY <1>6
  <2>2. extra = crc \o end
    BY DEF AckExtra
  <2> HIDE DEF end, extra
  <2>3. extra \in Seq(Byte) /\ Len(extra) = 6
    <3>1. crc \o end \in Seq(Byte) /\ Len(crc \o end) = 4 + Len(end)
      BY <1>6, <2>1, WordThen
    <3> HIDE DEF crc
    <3>2. QED
      BY <2>1, <2>2, <3>1
  <2>4. extra # << >>
    BY <2>3, NotEmpty, Zenon
  <2>5. ASSUME NEW z \in Seq(Byte)
        PROVE  Len(extra \o z) >= 4 /\ Uint32At(extra \o z, 1) = c
    <3>1. end \o z \in Seq(Byte)
      BY <2>1, TwoParts
    <3>2. crc \in Seq(Byte)
      BY <1>6, WordAlone
    <3>3. extra \o z = crc \o (end \o z)
      BY <2>1, <2>2, <3>2, ConcatAssociative
    <3>4. Len(crc \o (end \o z)) = 4 + Len(end \o z) /\ Uint32At(crc \o (end \o z), 1) = c
      BY <1>6, <3>1, WordThen
    <3>5. QED
      BY <3>1, <3>3, <3>4
  <2>6. QED
    BY <2>3, <2>4, <2>5
<1> HIDE DEF extra, sealed, q, rp, r, path
<1>8. ReadsBack(sealed, q, PayloadAck, extra)
  <2>1. Byte \subseteq Byte /\ Len(extra) <= 6 /\ extra \in Seq(Byte)
    BY <1>7
  <2>2. QED
    BY <1>2, <1>6, <2>1, PathIsRead DEF sealed
<1>9. rp = ReturnedPath(sealed)
  BY <1>5 DEF rp
<1>10. rp.Path = q.Path /\ rp.ExtraType = PayloadAck /\ \E z \in Seq(Byte) : rp.Extra = extra \o z
  BY <1>7, <1>8, <1>9, Zenon DEF ReadsBack
<1>11. PICK z \in Seq(Byte) : rp.Extra = extra \o z
  BY <1>10
<1>12. Len(rp.Extra) >= 4 /\ Uint32At(rp.Extra, 1) = c
  BY <1>7, <1>11
<1>13. ConfirmedBy(rp) = {SubSeq(rp.Extra, 1, 4)}
  BY <1>10, <1>12, Zenon DEF ConfirmedBy
<1>14. ConfirmedBy(rp) # {}
  BY <1>13
<1>15. AckCrcIn(env, rp) = Int32Or64(env, c)
  BY <1>12, <1>14, Zenon DEF AckCrcIn
<1>16. /\ DOMAIN r = {"destHash", "srcHash", "path", "extraType", "extra", "ackCrc"}
       /\ r.ackCrc = AckCrcIn(env, rp) /\ r.path = rp.Path
  BY <1>4 DEF PathFields
<1>17. IsWay(r.path, size)
  BY <1>2, <1>3, <1>10, <1>16, Zenon
<1>18. QED
  BY <1>15, <1>16, <1>17 DEF r

-----------------------------------------------------------------------------
Tells(answer, size, c) ==
  /\ ChecksumIn(answer) = AsInt(c)
  /\ Is("path", answer) => IsWay(answer.path, size)

IsAnswer(type, b, size, c) ==
  \/ type = PayloadAck /\ b = Clear(Uint32Bytes(c))
  \/ type = PayloadMultipart /\ \E k \in Byte : b = MultipartAckPayload(k, c)
  \/ type = PayloadPath /\ IsReturn(b, size, c)

LEMMA AnswerTells ==
  ASSUME plan \in Plans, NEW env, NEW b, env.payloadHex = [payload |-> b],
         NEW c, IsChecksum(c), IsAnswer(env.typeCode, b, env.pathHashSize, c),
         ~IsError(AnswerIn(env))
  PROVE  Tells(AnswerIn(env), env.pathHashSize, c)
<1> DEFINE w    == plan.writer
           e    == Env(w.limit)
           peer == PeerOf(w)
           type == env.typeCode
           r    == AnswerIn(env)
           raw  == <<[payload |-> b], w.private, peer>>
<1>1. IsKey(w.private) /\ IsKey(peer)
  BY SidesOfPlan, PeersOfPlan, IsKeyOf, Zenon
<1>2. ~IsError(r)
  OBVIOUS
<1>3. e.intLimit = plan.writer.limit
  BY DEF Env
<1>4. Int32Or64(e, c) = AsInt(c)
  BY <1>3, Zenon DEF Int32Or64, AsInt
<1>5. CASE type = PayloadAck /\ b = Clear(Uint32Bytes(c))
  <2>1. r = decodeAck(e, <<[payload |-> b]>>)
    BY <1>5 DEF AnswerIn, Call, PayloadAck, PayloadMultipart, PayloadPath
  <2> HIDE DEF r, e
  <2>2. r = ShownAck(e, b)
    BY <1>2, <2>1, AckRuns
  <2>3. r = [crc |-> AsInt(c)]
    BY <1>4, <1>5, <2>2, AckIsFound, Zenon
  <2>4. DOMAIN r = {"crc"} /\ r.crc = AsInt(c)
    BY <2>3
  <2>5. ~Is("ackCrc", r) /\ ~Is("path", r)
    BY <2>4 DEF Is
  <2>6. QED
    BY <2>4, <2>5, Zenon DEF Tells, ChecksumIn, r
<1>6. CASE type = PayloadMultipart /\ \E k \in Byte : b = MultipartAckPayload(k, c)
  <2>1. r = decodeMultipart(e, <<[payload |-> b]>>)
    BY <1>6 DEF AnswerIn, Call, PayloadAck, PayloadMultipart, PayloadPath
  <2> HIDE DEF r, e
  <2>2. r = ShownMultipart(e, b)
    BY <1>2, <2>1, MultipartReads
  <2>3. PICK k \in Byte : b = MultipartAckPayload(k, c)
    BY <1>6
  <2>4. DOMAIN r = {"remaining", "innerTypeCode", "innerPayloadHex", "ackCrc"} /\ r.ackCrc = AsInt(c)
    BY <1>4, <2>2, <2>3, RepeatedIsFound
  <2>5. Is("ackCrc", r) /\ ~Is("path", r)
    BY <2>4 DEF Is
  <2>6. QED
    BY <2>4, <2>5, Zenon DEF Tells, ChecksumIn, r
<1>7. CASE type = PayloadPath /\ IsReturn(b, env.pathHashSize, c)
  <2> DEFINE keys == IF w.form = "seed" THEN identitySharedSecret(w.private, peer)
                     ELSE SharedSecretFromExpanded(w.private, peer)
  <2>1. <<env.payloadHex>> \o <<w.private, peer>> = raw
    BY OneAndTwo
  <2>2. ASSUME w.form = "seed"
        PROVE  r = ShownPath(e, keys, b)
    <3>1. r = decodePathIdentity(e, <<env.payloadHex>> \o <<w.private, peer>>)
      BY <1>7, <2>2 DEF AnswerIn, Call, PayloadAck, PayloadMultipart, PayloadPath
    <3> HIDE DEF r, e, peer
    <3>2. r = decodePathIdentity(e, raw)
      BY <2>1, <3>1, Zenon
    <3>3. r = ShownPath(e, identitySharedSecret(w.private, peer), b)
      BY <1>1, <1>2, <3>2, IdentityReturnReads
    <3>4. QED
      BY <2>2, <3>3
  <2>3. ASSUME w.form # "seed"
        PROVE  r = ShownPath(e, keys, b)
    <3>1. r = decodePathExpanded(e, <<env.payloadHex>> \o <<w.private, peer>>)
      BY <1>7, <2>3 DEF AnswerIn, Call, PayloadAck, PayloadMultipart, PayloadPath
    <3> HIDE DEF r, e, peer
    <3>2. r = decodePathExpanded(e, raw)
      BY <2>1, <3>1, Zenon
    <3>3. r = ShownPath(e, SharedSecretFromExpanded(w.private, peer), b)
      BY <1>1, <1>2, <3>2, ExpandedReturnReads
    <3>4. QED
      BY <2>3, <3>3
  <2> HIDE DEF r, e, peer
  <2>4. r = ShownPath(e, keys, b)
    BY <2>2, <2>3
  <2> HIDE DEF keys
  <2>5. /\ DOMAIN r = {"destHash", "srcHash", "path", "extraType", "extra", "ackCrc"}
        /\ r.ackCrc = AsInt(c)
        /\ IsWay(r.path, env.pathHashSize)
    BY <1>2, <1>4, <1>7, <2>4, ReturnIsFound
  <2>6. Is("ackCrc", r)
    BY <2>5 DEF Is
  <2>7. QED
    BY <2>5, <2>6, Zenon DEF Tells, ChecksumIn, r
<1>8. QED
  BY <1>5, <1>6, <1>7, Zenon DEF IsAnswer

-----------------------------------------------------------------------------
(* The bytes of what confirms a checksum. *)
LEMMA ReturnBytes ==
  ASSUME plan \in Plans, NEW b, NEW size, NEW c, IsChecksum(c), IsReturn(b, size, c)
  PROVE  b.head \in Seq(Byte) /\ b.plain \in Seq(Byte)
<1> DEFINE extra == AckExtra(Uint32Bytes(c), RandomByte)
           crc == Uint32Bytes(c)
           end == <<0, RandomByte>>
<1>1. PICK way \in plan.ways, mine \in DOMAIN PublicBytes, peer \in DOMAIN PublicBytes :
        /\ HopsFit(size, Hashes(way, size))
        /\ b = PairPayload(b.secret, Hash(peer), Hash(mine),
                           PathPlaintext(Hashes(way, size), size, PayloadAck, extra))
  BY DEF IsReturn
<1> DEFINE path  == Hashes(way, size)
           q     == [PathHashSize |-> size, Path |-> path]
           first == (size - 1) * 64 + (Len(path) \div size)
           after == AfterPath(PayloadAck, extra)
           plain == PathPlaintext(path, size, PayloadAck, extra)
<1>2. IsPathOf(q) /\ HopCount(q) <= MaxHopCount /\ size \in 1 .. 3
  BY <1>1, HopsAreWithin DEF HopsFit
<1>3. q.Path = path /\ q.PathHashSize = size
  OBVIOUS
<1>4. c \in Word /\ RandomByte \in Byte /\ PayloadAck \in Byte /\ 0 \in Byte
  BY WordOfChecksum, PagesAssumption, BytesAreNumbers DEF PayloadAck, Byte
<1>5. extra \in Seq(Byte)
  <2>1. end \in Seq(Byte)
    BY <1>4
  <2> HIDE DEF end
  <2>2. crc \o end \in Seq(Byte)
    BY <1>4, <2>1, WordThen
  <2>3. QED
    BY <2>2 DEF AckExtra, end
<1> HIDE DEF extra
<1>6. after \in Seq(Byte)
  <2>1. Byte \subseteq Byte
    OBVIOUS
  <2>2. QED
    BY <1>4, <1>5, <2>1, AfterPathFacts
<1> HIDE DEF path, q
<1>7. path \in Seq(Byte) /\ Len(path) \in Nat
  BY <1>2, <1>3 DEF IsPathOf
<1>8. first \in Byte
  <2>1. HopCount(q) = Len(path) \div size /\ HopCount(q) \in Nat
    BY <1>2, <1>3, HopsOfWhole DEF HopCount
  <2>2. HopCount(q) <= 63
    BY <1>2 DEF MaxHopCount
  <2> DEFINE n == Len(path) \div size
  <2>3. n \in 0 .. 63
    <3>1. n = HopCount(q)
      BY <2>1
    <3>2. HopCount(q) \in Nat
      BY <2>1
    <3>3. HopCount(q) \in 0 .. 63
      BY <2>2, <3>2
    <3>4. QED
      BY <3>1, <3>3, Zenon
  <2>4. first = (size - 1) * 64 + n
    OBVIOUS
  <2> HIDE DEF n, first
  <2>5. QED
    BY <1>2, <2>3, <2>4 DEF Byte
<1> HIDE DEF after
<1>9. plain = (<<first>> \o path) \o after
  BY DEF PathPlaintext, after, AfterPath
<1> HIDE DEF first, plain
<1>10. plain \in Seq(Byte)
  <2>1. <<first>> \o path \in Seq(Byte)
    BY <1>7, <1>8, ByteThen
  <2>2. QED
    BY <1>6, <1>9, <2>1, TwoParts
<1>11. Padded(plain) \in Seq(Byte)
  BY <1>10, PaddedFacts
<1>12. b = PairPayload(b.secret, Hash(peer), Hash(mine), plain)
  BY <1>1 DEF plain, path
<1>13. b = [head |-> <<Hash(peer), Hash(mine)>>, secret |-> b.secret, plain |-> Padded(plain)]
  BY <1>12 DEF PairPayload, Sealed
<1>14. b.head = <<Hash(peer), Hash(mine)>> /\ b.plain = Padded(plain)
  BY <1>13
<1>15. Hash(peer) \in Byte /\ Hash(mine) \in Byte
  BY FirstByte
<1>16. QED
  BY <1>11, <1>14, <1>15

LEMMA AnswerBytes ==
  ASSUME plan \in Plans, NEW type, NEW b, NEW size, NEW c, IsChecksum(c),
         IsAnswer(type, b, size, c)
  PROVE  b.head \in Seq(Byte) /\ b.plain \in Seq(Byte)
<1> DEFINE s == Uint32Bytes(c)
<1>1. s \in Seq(Byte)
  BY WordIsShown
<1>2. CASE b = Clear(s)
  <2> HIDE DEF s
  <2>1. b.head = s /\ b.plain = << >>
    BY <1>2 DEF Clear
  <2>2. << >> \in Seq(Byte)
    OBVIOUS
  <2>3. QED
    BY <1>1, <2>1, <2>2, Zenon
<1>3. CASE \E k \in Byte : b = MultipartAckPayload(k, c)
  <2>1. PICK k \in Byte : b = MultipartAckPayload(k, c)
    BY <1>3
  <2> DEFINE f == ((k * 16) % 256) + PayloadAck
  <2>2. f \in Byte
    BY DEF Byte, PayloadAck
  <2>3. b = Clear(<<f>> \o s)
    BY <2>1 DEF MultipartAckPayload
  <2> HIDE DEF f, s
  <2>4. <<f>> \o s \in Seq(Byte)
    BY <1>1, <2>2, ByteThen
  <2>5. b.head = <<f>> \o s /\ b.plain = << >>
    BY <2>3 DEF Clear
  <2>6. << >> \in Seq(Byte)
    OBVIOUS
  <2>7. QED
    BY <2>4, <2>5, <2>6, Zenon
<1>4. QED
  BY <1>2, <1>3, ReturnBytes, Zenon DEF IsAnswer

-----------------------------------------------------------------------------
(* The invariant of a conversation. *)
IsSent(p) ==
  /\ KeysOf(plan.writer).err = Ok
  /\ p.Route \in {RouteFlood, RouteDirect}
  /\ p = PacketOf(p.Route, PayloadTxtMsg, p.PathHashSize, p.Path, p.Payload)
  /\ Laid(p.Route, PayloadTxtMsg, p.PathHashSize, p.Path)
  /\ p.Route = RouteDirect => IsWay(p.Path, p.PathHashSize)
  /\ \E ts \in Seconds, n \in 0 .. plan.maxAttempts - 1 :
       IsTextBytes(p.Payload, KeysOf(plan.writer).secret, ts, n)

IsAttempt(a) ==
  /\ a.ts \in Seconds /\ a.attempt \in 0 .. plan.maxAttempts - 1
  /\ Expects(a.expect, a.ts, a.attempt)

SameSecret ==
  /\ KeysOf(plan.writer).err = Ok /\ KeysOf(plan.reader).err = Ok
  /\ KeysOf(plan.writer).secret = KeysOf(plan.reader).secret

AirInv ==
  \A m \in air : \/ m.to = plan.reader /\ IsSent(m.packet)
                 \/ m.to = plan.writer /\ \E t \in shown : Confirms(m.packet, SumOf(t))

WrittenInv ==
  /\ \E S : written \in Seq(S)
  /\ \A k \in DOMAIN written : IsAttempt(written[k])

ShownInv == (\A t \in shown : WasShown(t)) /\ (shown # {} => SameSecret)

ConfirmedInv == confirmed \subseteq DOMAIN written /\ AcknowledgedWasRead

RouteInv == route.known => IsWay(route.path, route.size)

PlaceInv == plan \in Plans /\ tick \in DOMAIN plan.times

OtherInv ==
  /\ lost \in 0 .. plan.maxLost
  /\ trace.phase \in {"none", "passing", "dropped", "shown"}
  /\ \A a \in asked : a.call \in plan.calls /\ a.phase \in {"written", "read"}

ConversationInv ==
  PlaceInv /\ AirInv /\ WrittenInv /\ ShownInv /\ ConfirmedInv /\ RouteInv /\ OtherInv

-----------------------------------------------------------------------------
(* While the plan stays, so does what is said of it. *)
LEMMA SameOfPlan ==
  ASSUME plan' = plan
  PROVE  /\ Seconds' = Seconds
         /\ \A p : IsSent(p)' <=> IsSent(p)
         /\ \A a : IsAttempt(a)' <=> IsAttempt(a)
         /\ SameSecret' <=> SameSecret
         /\ \A t : SumOf(t)' = SumOf(t)
         /\ \A t : WasShown(t)' <=> WasShown(t)
         /\ \A p, c : Confirms(p, c)' <=> Confirms(p, c)
         /\ \A path, size : IsWay(path, size)' <=> IsWay(path, size)
<1>1. Seconds' = Seconds /\ Texts' = Texts
  BY DEF Seconds, Texts
<1>2. ASSUME NEW side PROVE KeysOf(side)' = KeysOf(side)
  BY DEF KeysOf, PeerOf
<1>3. KeysOf(plan.writer)' = KeysOf(plan.writer) /\ KeysOf(plan.reader)' = KeysOf(plan.reader)
  BY DEF KeysOf, PeerOf
<1>4. ASSUME NEW path, NEW size PROVE IsWay(path, size)' <=> IsWay(path, size)
  BY DEF IsWay
<1>5. ASSUME NEW b, NEW s, NEW ts, NEW n
      PROVE  IsTextBytes(b, s, ts, n)' <=> IsTextBytes(b, s, ts, n)
  BY DEF IsTextBytes, Texts
<1>6. ASSUME NEW p PROVE IsSent(p)' <=> IsSent(p)
  <2>1. Laid(p.Route, PayloadTxtMsg, p.PathHashSize, p.Path)'
          <=> Laid(p.Route, PayloadTxtMsg, p.PathHashSize, p.Path)
    OBVIOUS
  <2>2. (\E ts \in Seconds, n \in 0 .. plan.maxAttempts - 1 :
           IsTextBytes(p.Payload, KeysOf(plan.writer).secret, ts, n))'
        <=> \E ts \in Seconds, n \in 0 .. plan.maxAttempts - 1 :
              IsTextBytes(p.Payload, KeysOf(plan.writer).secret, ts, n)
    BY <1>1, <1>3, <1>5
  <2>3. QED
    BY <1>3, <1>4, <2>2 DEF IsSent
<1>7. ASSUME NEW a PROVE IsAttempt(a)' <=> IsAttempt(a)
  BY <1>1 DEF IsAttempt, Expects, Awaited, AsInt
<1>8. SameSecret' <=> SameSecret
  BY <1>3 DEF SameSecret
<1>9. ASSUME NEW t PROVE SumOf(t)' = SumOf(t)
  BY DEF SumOf
<1>10. ASSUME NEW t PROVE WasShown(t)' <=> WasShown(t)
  BY <1>1 DEF WasShown
<1>11. ASSUME NEW p, NEW c PROVE Confirms(p, c)' <=> Confirms(p, c)
  BY DEF Confirms, IsReturn
<1>12. QED
  BY <1>1, <1>4, <1>6, <1>7, <1>8, <1>9, <1>10, <1>11

-----------------------------------------------------------------------------
(* Writing. *)
LEMMA WrittenIsSent ==
  ASSUME plan \in Plans, RouteInv, NEW ts \in Seconds, NEW n \in 0 .. plan.maxAttempts - 1,
         NEW r, IsTextOf(r, ts, n)
  PROVE  /\ IsSent(r.hex.packet)
         /\ IsTextBytes(r.hex.packet.Payload, KeysOf(plan.writer).secret, ts, n)
<1> DEFINE s == KeysOf(plan.writer).secret
<1>0. PICK way :
        \E x \in Texts, mine \in DOMAIN PublicBytes, peer \in DOMAIN PublicBytes :
          /\ IsRouted(way)
          /\ way.route = RouteDirect =>
               route.known /\ way.path = route.path /\ way.size = route.size
          /\ IsWritten(r, KeysOf(plan.writer), mine, peer, x, ts, n, way)
  BY Zenon DEF IsTextOf
<1>1. PICK x \in Texts, mine \in DOMAIN PublicBytes, peer \in DOMAIN PublicBytes :
        /\ IsRouted(way)
        /\ way.route = RouteDirect => route.known /\ way.path = route.path /\ way.size = route.size
        /\ IsWritten(r, KeysOf(plan.writer), mine, peer, x, ts, n, way)
  BY <1>0, Zenon
<1> DEFINE b == TextPayload(s, mine, peer, x, ts, n)
           p == PacketOf(way.route, PayloadTxtMsg, way.size, way.path, b)
<1>2. /\ KeysOf(plan.writer).err = Ok
      /\ EncodedAs(r, way.route, PayloadTxtMsg, way.size, way.path, b)
  BY <1>1, Zenon DEF IsWritten
<1>3. PacketFields(p, way.route, PayloadTxtMsg, way.size, way.path, b)
  BY FieldsOfPacket
<1>4. r = [hex |-> [packet |-> p]] /\ Laid(way.route, PayloadTxtMsg, way.size, way.path)
  BY <1>2, Zenon DEF EncodedAs
<1>5. IsTextBytes(b, s, ts, n)
  BY <1>1, Zenon DEF IsTextBytes
<1>6. p = PacketOf(p.Route, PayloadTxtMsg, p.PathHashSize, p.Path, p.Payload)
  BY <1>3, Zenon DEF PacketFields
<1> HIDE DEF p, b, s
<1>7. r.hex.packet = p
  BY <1>4
<1>8. way.route = RouteDirect => IsWay(way.path, way.size)
  BY <1>1 DEF RouteInv
<1>9. IsSent(p)
  <2>1. p.Route \in {RouteFlood, RouteDirect}
    BY <1>1, <1>3, Zenon DEF IsRouted, PacketFields
  <2>2. p.Route = RouteDirect => IsWay(p.Path, p.PathHashSize)
    BY <1>3, <1>8, Zenon DEF PacketFields
  <2>3. Laid(p.Route, PayloadTxtMsg, p.PathHashSize, p.Path)
    BY <1>3, <1>4, Zenon DEF PacketFields
  <2>4. IsTextBytes(p.Payload, KeysOf(plan.writer).secret, ts, n)
    BY <1>3, <1>5, Zenon DEF PacketFields, s
  <2>5. QED
    BY <1>2, <1>6, <2>1, <2>2, <2>3, <2>4, Zenon DEF IsSent
<1>10. IsTextBytes(p.Payload, s, ts, n)
  BY <1>3, <1>5, Zenon DEF PacketFields
<1>11. QED
  BY <1>7, <1>9, <1>10, Zenon DEF s

LEMMA AttemptIsNext ==
  ASSUME PlaceInv, WrittenInv, MayWrite,
         NEW n, n = IF IsNext THEN 0 ELSE Last(written).attempt + 1,
         NEW ts, ts = IF IsNext THEN Time ELSE Last(written).ts
  PROVE  /\ ts \in Seconds /\ n \in 0 .. plan.maxAttempts - 1
         /\ plan.writer.form = "legacy" => ts = Time /\ n = 0
<1>1. plan.maxAttempts \in Nat /\ (plan.writer.form = "legacy" => plan.maxAttempts <= 1)
  BY SidesOfPlan DEF IsPlan, PlaceInv
<1>2. Time \in Seconds
  BY DEF PlaceInv, Time, Seconds
<1>3. PICK S : written \in Seq(S)
  BY DEF WrittenInv
<1>4. ASSUME written # << >>
      PROVE  /\ Last(written).ts \in Seconds
             /\ Last(written).attempt \in 0 .. plan.maxAttempts - 1
  <2>1. Len(written) \in DOMAIN written
    BY <1>3, <1>4
  <2>2. Last(written) = written[Len(written)]
    BY DEF Last
  <2>3. QED
    BY <2>1, <2>2 DEF WrittenInv, IsAttempt
<1>5. CASE written = << >>
  <2>1. IsNext /\ plan.maxAttempts > 0
    BY <1>5 DEF IsNext, MayWrite
  <2>2. QED
    BY <1>1, <1>2, <2>1
<1>6. CASE written # << >> /\ IsNext
  <2>1. plan.maxAttempts > 0
    BY <1>1, <1>4, <1>6
  <2>2. QED
    BY <1>1, <1>2, <1>6, <2>1
<1>7. CASE ~IsNext
  <2>1. written # << >>
    BY <1>7 DEF IsNext
  <2>2. Last(written).attempt + 1 < plan.maxAttempts
    BY <1>7, <2>1 DEF MayWrite
  <2> DEFINE k == Last(written).attempt
  <2>3. k \in 0 .. plan.maxAttempts - 1 /\ k + 1 < plan.maxAttempts
    BY <1>4, <2>1, <2>2
  <2>4. n = k + 1 /\ ts = Last(written).ts
    BY <1>7
  <2> HIDE DEF k
  <2>5. plan.maxAttempts > 1 /\ n \in 0 .. plan.maxAttempts - 1
    BY <1>1, <2>3, <2>4
  <2>6. plan.writer.form # "legacy"
    BY <1>1, <2>5
  <2>7. QED
    BY <1>4, <2>1, <2>4, <2>5, <2>6
<1>8. QED
  BY <1>5, <1>6, <1>7

LEMMA WriteKeeps ==
  ASSUME ConversationInv, Write
  PROVE  AirInv' /\ WrittenInv' /\ confirmed' \subseteq DOMAIN written'
         /\ (\A k \in confirmed' : written'[k] = written[k])
<1> DEFINE n  == IF IsNext THEN 0 ELSE Last(written).attempt + 1
           ts == IF IsNext THEN Time ELSE Last(written).ts
           r  == TextOf(ts, n)
           a  == [ts |-> ts, attempt |-> n, expect |-> Expected(r.hex.packet, ts, n)]
           m1 == [to |-> plan.reader, packet |-> r.hex.packet]
<1>0. /\ PlaceInv /\ AirInv /\ WrittenInv /\ ConfirmedInv /\ RouteInv /\ plan \in Plans
  BY DEF ConversationInv, PlaceInv
<1>1. /\ MayWrite /\ ~IsError(r)
      /\ written' = Append(written, a) /\ air' = air \union {m1}
      /\ plan' = plan /\ shown' = shown /\ confirmed' = confirmed
  BY DEF Write
<1>2. /\ ts \in Seconds /\ n \in 0 .. plan.maxAttempts - 1
      /\ plan.writer.form = "legacy" => ts = Time /\ n = 0
  BY <1>0, <1>1, AttemptIsNext
<1> HIDE DEF ts, n
<1>3. IsTextOf(r, ts, n)
  BY <1>0, <1>1, <1>2, TextOfIs
<1>4. /\ IsSent(r.hex.packet)
      /\ IsTextBytes(r.hex.packet.Payload, KeysOf(plan.writer).secret, ts, n)
  <2> HIDE DEF r
  <2>1. QED
    BY <1>0, <1>2, <1>3, WrittenIsSent
<1>5. ts \in Nat /\ n \in Nat
  <2>1. plan.maxAttempts \in Nat
    BY <1>0, SidesOfPlan DEF IsPlan
  <2>2. QED
    BY <1>0, <1>2, <2>1, SecondsOfPlan
<1> HIDE DEF r
<1>6. IsAttempt(a)
  <2>1. Expects(Expected(r.hex.packet, ts, n), ts, n)
    BY <1>0, <1>4, <1>5, ExpectedIs
  <2>2. a.ts = ts /\ a.attempt = n /\ a.expect = Expected(r.hex.packet, ts, n)
    OBVIOUS
  <2> HIDE DEF a
  <2>3. QED
    BY <1>2, <2>1, <2>2, Zenon DEF IsAttempt
<1> HIDE DEF a
<1>7. AirInv'
  <2>1. ASSUME NEW m \in air'
        PROVE  \/ m.to = plan'.reader /\ IsSent(m.packet)'
               \/ m.to = plan'.writer /\ \E t \in shown' : (Confirms(m.packet, SumOf(t)))'
    <3>1. /\ \A p : IsSent(p)' <=> IsSent(p)
          /\ \A t : SumOf(t)' = SumOf(t)
          /\ \A p, c : Confirms(p, c)' <=> Confirms(p, c)
      BY <1>1, SameOfPlan
    <3>2. CASE m \in air
      BY <1>0, <1>1, <3>1, <3>2 DEF AirInv
    <3>3. CASE m = m1
      <4>1. m.to = plan.reader /\ m.packet = r.hex.packet
        BY <3>3
      <4>2. QED
        BY <1>1, <1>4, <3>1, <4>1
    <3>4. QED
      BY <1>1, <3>2, <3>3
  <2>2. QED
    BY <2>1 DEF AirInv
<1>8. PICK S : written \in Seq(S)
  BY <1>0 DEF WrittenInv
<1>9. /\ written' \in Seq(S \union {a}) /\ DOMAIN written' = DOMAIN written \union {Len(written) + 1}
      /\ \A k \in DOMAIN written : written'[k] = written[k]
      /\ written'[Len(written) + 1] = a
  BY <1>1, <1>8
<1>10. WrittenInv'
  <2>1. ASSUME NEW k \in DOMAIN written' PROVE IsAttempt(written[k])'
    <3>1. ASSUME NEW z PROVE IsAttempt(z)' <=> IsAttempt(z)
      BY <1>1, SameOfPlan
    <3>2. IsAttempt(written'[k])
      BY <1>0, <1>6, <1>9 DEF WrittenInv
    <3>3. QED
      BY <1>1, <3>2, SameOfPlan DEF IsAttempt
  <2>2. QED
    BY <1>9, <2>1 DEF WrittenInv
<1>11. QED
  BY <1>0, <1>1, <1>7, <1>9, <1>10 DEF ConfirmedInv

-----------------------------------------------------------------------------
(* Reading. *)
LEMMA ReaderGetsTexts ==
  ASSUME PlaceInv, AirInv, NEW m \in air
  PROVE  /\ m.to = plan.reader => IsSent(m.packet)
         /\ m.to = plan.writer => \E t \in shown : Confirms(m.packet, SumOf(t))
<1>1. plan.writer # plan.reader
  BY SidesOfPlan DEF PlaceInv
<1>2. QED
  BY <1>1 DEF AirInv

LEMMA SizeOfLaid ==
  ASSUME NEW r, NEW type, NEW size, NEW path, Laid(r, type, size, path)
  PROVE  size \in 1 .. 3
<1>1. HopsFit(size, path)
  BY LaidByAny DEF Laid
<1>2. QED
  BY <1>1 DEF HopsFit

LEMMA ArrivedEnvelope ==
  ASSUME plan \in Plans, NEW m, NEW type, LET t == m.packet
         IN  t = PacketOf(t.Route, type, t.PathHashSize, t.Path, t.Payload)
             /\ t.Route \in {RouteFlood, RouteDirect} /\ t.PathHashSize \in 1 .. 3,
         NEW p \in Arrivals(m), NEW env, env = Envelope(m.to, p)
  PROVE  /\ env.payloadHex = [payload |-> m.packet.Payload]
         /\ env.typeCode = type /\ env.routeCode = m.packet.Route
         /\ env.pathHashSize = m.packet.PathHashSize
         /\ m.to = plan.reader /\ m.packet.Route = RouteFlood =>
              \E way \in plan.ways : FlattenSeq(env.hops) = Hashes(way, env.pathHashSize)
<1> DEFINE t == m.packet
           r == t.Route
           size == t.PathHashSize
           b == t.Payload
<1>1. t = PacketOf(r, type, size, t.Path, b) /\ r \in {RouteFlood, RouteDirect} /\ size \in 1 .. 3
  OBVIOUS
<1> HIDE DEF r, size, b
<1>2. PICK q : /\ p = PacketOf(r, type, size, q, b)
               /\ r = RouteFlood => \E way \in WaysTo(m.to) : q = Hashes(way, size)
  BY <1>1, ArrivedPacket
<1>3. PacketFields(p, r, type, size, q, b)
  BY <1>2, FieldsOfPacket
<1>4. p.Route = r /\ p.Type = type /\ p.PathHashSize = size /\ p.Path = q /\ p.Payload = b
  BY <1>3 DEF PacketFields
<1>5. ~IsTransport(p.Route)
  BY <1>1, <1>4, NotTransport
<1>6. /\ env.routeCode = p.Route /\ env.typeCode = p.Type
      /\ env.pathHashSize = p.PathHashSize /\ env.hops = Hops(p)
      /\ env.payloadHex = [payload |-> p.Payload]
  BY <1>5, EnvelopeFields
<1>7. ASSUME m.to = plan.reader, r = RouteFlood
      PROVE  \E way \in plan.ways : FlattenSeq(env.hops) = Hashes(way, env.pathHashSize)
  <2>1. PICK way \in plan.ways : q = Hashes(way, size)
    BY <1>2, <1>7 DEF WaysTo
  <2>2. FlattenSeq(Hops(p)) = p.Path
    BY <1>1, <1>4, <2>1, WayIsHops
  <2>3. QED
    BY <1>4, <1>6, <2>1, <2>2, Zenon
<1>8. QED
  BY <1>4, <1>6, <1>7 DEF r, size, b

LEMMA AnswersConfirm ==
  ASSUME plan \in Plans, NEW t, Shown(t.text) = t.text, IsChecksum(SumOf(t)), NEW env,
         env.routeCode = RouteFlood =>
           \E way \in plan.ways : FlattenSeq(env.hops) = Hashes(way, env.pathHashSize),
         NEW a \in Answers(env, t), ~IsError(a)
  PROVE  Confirms(a.hex.packet, SumOf(t))
<1>1. CASE env.routeCode = RouteFlood
  <2>1. a = PathAnswer(env, t)
    BY <1>1 DEF Answers
  <2>2. PICK way \in plan.ways : FlattenSeq(env.hops) = Hashes(way, env.pathHashSize)
    BY <1>1
  <2>3. QED
    BY <2>1, <2>2, PathAnswerConfirms
<1>2. CASE env.routeCode # RouteFlood
  <2>1. a \in DirectAnswers(t)
    BY <1>2 DEF Answers
  <2>2. QED
    BY <2>1, DirectAnswerConfirms
<1>3. QED
  BY <1>1, <1>2

(* A text that the reader gets. *)
IsGot(t) == WasShown(t) /\ SameSecret /\ IsChecksum(SumOf(t)) /\ Shown(t.text) = t.text

LEMMA TextIsGot ==
  ASSUME plan \in Plans, NEW p, IsSent(p), ~IsError(ReadText(plan.reader, [payload |-> p.Payload]))
  PROVE  IsGot(ReadText(plan.reader, [payload |-> p.Payload]))
<1> DEFINE b == p.Payload
           t == ReadText(plan.reader, [payload |-> b])
           s == KeysOf(plan.writer).secret
<1>1. PICK ts \in Seconds, n \in 0 .. plan.maxAttempts - 1 : IsTextBytes(b, s, ts, n)
  BY DEF IsSent
<1>2. ts \in Nat /\ n \in Nat
  <2>1. plan.maxAttempts \in Nat
    BY SidesOfPlan DEF IsPlan
  <2>2. QED
    BY <2>1, SecondsOfPlan
<1>3. OwnText(t, plan.reader, b, ts, n)
  BY <1>1, <1>2, OwnTextIsRead
<1>4. b.secret = s
  <2>1. PICK x \in Texts, mine \in DOMAIN PublicBytes, peer \in DOMAIN PublicBytes :
          b = TextPayload(s, mine, peer, x, ts, n)
    BY <1>1 DEF IsTextBytes
  <2>2. x \in Seq(Byte) /\ ts \in Int
    BY <1>2, TextsOfPlan
  <2> HIDE DEF s, b
  <2>3. TextPayload(s, mine, peer, x, ts, n).secret = s
    BY <1>2, <2>2, TextBytes
  <2>4. QED
    BY <2>1, <2>3, Zenon
<1> HIDE DEF t
<1>5. /\ t.text = Shown(plan.text) /\ t.timestamp = Uint32(ts) /\ t.attempt = n % 4
      /\ KeysOf(plan.reader).err = Ok /\ b.secret = KeysOf(plan.reader).secret
  BY <1>3, Zenon DEF OwnText
<1>6. WasShown(t)
  BY <1>5, Zenon DEF WasShown
<1>7. SameSecret
  BY <1>4, <1>5, Zenon DEF SameSecret, IsSent
<1>8. IsChecksum(SumOf(t)) /\ Shown(t.text) = t.text
  BY <1>2, <1>5, SumOfShown, Zenon
<1>9. QED
  BY <1>6, <1>7, <1>8, Zenon DEF IsGot, t

LEMMA FewerInAir ==
  ASSUME AirInv, plan' = plan, shown \subseteq shown', air' \subseteq air
  PROVE  AirInv'
<1>1. /\ \A p : IsSent(p)' <=> IsSent(p)
      /\ \A t : SumOf(t)' = SumOf(t)
      /\ \A p, c : Confirms(p, c)' <=> Confirms(p, c)
  BY SameOfPlan
<1>2. ASSUME NEW m \in air'
      PROVE  \/ m.to = plan'.reader /\ IsSent(m.packet)'
             \/ m.to = plan'.writer /\ \E t \in shown' : (Confirms(m.packet, SumOf(t)))'
  BY <1>1 DEF AirInv
<1>3. QED
  BY <1>2 DEF AirInv

LEMMA ReadKeeps ==
  ASSUME ConversationInv, NEW m \in air, Read(m)
  PROVE  AirInv' /\ ShownInv' /\ shown \subseteq shown'
<1>0. PlaceInv /\ AirInv /\ ShownInv /\ plan \in Plans
  BY DEF ConversationInv, PlaceInv
<1>1. m.to = plan.reader /\ plan' = plan
  BY DEF Read
<1>2. IsSent(m.packet)
  BY <1>0, <1>1, ReaderGetsTexts
<1>3. PICK p \in Arrivals(m) :
        \E env \in {Envelope(m.to, p)} : \E t \in {ReadText(m.to, env.payloadHex)} :
          IF IsError(t)
          THEN air' = air \ {m} /\ UNCHANGED shown
          ELSE /\ shown' = shown \union {t}
               /\ air' = (air \ {m}) \union
                    {[to |-> plan.writer, packet |-> a.hex.packet] :
                       a \in {b \in Answers(env, t) : ~IsError(b)}}
  BY DEF Read
<1> DEFINE env == Envelope(m.to, p)
           t   == ReadText(m.to, env.payloadHex)
<1>4. IF IsError(t)
      THEN air' = air \ {m} /\ UNCHANGED shown
      ELSE /\ shown' = shown \union {t}
           /\ air' = (air \ {m}) \union
                {[to |-> plan.writer, packet |-> a.hex.packet] :
                   a \in {b \in Answers(env, t) : ~IsError(b)}}
  BY <1>3
<1>5. /\ m.packet = PacketOf(m.packet.Route, PayloadTxtMsg, m.packet.PathHashSize,
                             m.packet.Path, m.packet.Payload)
      /\ m.packet.Route \in {RouteFlood, RouteDirect} /\ m.packet.PathHashSize \in 1 .. 3
  <2>1. Laid(m.packet.Route, PayloadTxtMsg, m.packet.PathHashSize, m.packet.Path)
    BY <1>2, Zenon DEF IsSent
  <2>2. m.packet.PathHashSize \in 1 .. 3
    BY <2>1, SizeOfLaid
  <2>3. QED
    BY <1>2, <2>2, Zenon DEF IsSent
<1>6. /\ env.payloadHex = [payload |-> m.packet.Payload]
      /\ env.routeCode = m.packet.Route
      /\ m.packet.Route = RouteFlood =>
           \E way \in plan.ways : FlattenSeq(env.hops) = Hashes(way, env.pathHashSize)
  BY <1>0, <1>1, <1>5, ArrivedEnvelope
<1> HIDE DEF env
<1>7. t = ReadText(plan.reader, [payload |-> m.packet.Payload])
  BY <1>1, <1>6
<1> HIDE DEF t
<1>8. CASE IsError(t)
  <2>1. air' = air \ {m} /\ shown' = shown
    BY <1>4, <1>8
  <2>2. AirInv'
    BY <1>0, <1>1, <2>1, FewerInAir
  <2>3. (SameSecret' <=> SameSecret) /\ \A z : WasShown(z)' <=> WasShown(z)
    BY <1>1, SameOfPlan
  <2>4. QED
    BY <1>0, <2>1, <2>2, <2>3 DEF ShownInv
<1>9. CASE ~IsError(t)
  <2>1. /\ shown' = shown \union {t}
        /\ air' = (air \ {m}) \union
             {[to |-> plan.writer, packet |-> a.hex.packet] :
                a \in {b \in Answers(env, t) : ~IsError(b)}}
    BY <1>4, <1>9
  <2>2. PICK u : u = t
    OBVIOUS
  <2>3. IsGot(u)
    BY <1>0, <1>2, <1>7, <1>9, <2>2, TextIsGot
  <2>4. WasShown(u) /\ SameSecret /\ IsChecksum(SumOf(u)) /\ Shown(u.text) = u.text
    BY <2>3 DEF IsGot
  <2>5. /\ SameSecret' <=> SameSecret
        /\ \A z : WasShown(z)' <=> WasShown(z)
        /\ \A z : IsSent(z)' <=> IsSent(z)
        /\ \A z : SumOf(z)' = SumOf(z)
        /\ \A z, c : Confirms(z, c)' <=> Confirms(z, c)
    BY <1>1, SameOfPlan
  <2>6. ShownInv'
    BY <1>0, <2>1, <2>2, <2>4, <2>5 DEF ShownInv
  <2>7. ASSUME NEW k \in air'
        PROVE  \/ k.to = plan'.reader /\ IsSent(k.packet)'
               \/ k.to = plan'.writer /\ \E z \in shown' : (Confirms(k.packet, SumOf(z)))'
    <3>1. CASE k \in air
      BY <1>0, <1>1, <2>1, <2>5, <3>1 DEF AirInv
    <3>2. CASE k \notin air
      <4>1. PICK a \in {b \in Answers(env, t) : ~IsError(b)} :
              k = [to |-> plan.writer, packet |-> a.hex.packet]
        BY <2>1, <3>2
      <4>2. k.to = plan.writer /\ k.packet = a.hex.packet
        BY <4>1
      <4>3. Confirms(a.hex.packet, SumOf(u))
        BY <1>0, <1>6, <2>4, <2>2, <4>1, AnswersConfirm
      <4>4. u \in shown'
        BY <2>1, <2>2
      <4>5. (Confirms(k.packet, SumOf(u)))'
        BY <2>5, <4>2, <4>3
      <4>6. QED
        BY <1>1, <4>2, <4>4, <4>5
    <3>3. QED
      BY <3>1, <3>2
  <2>8. AirInv'
    BY <2>7 DEF AirInv
  <2>9. QED
    BY <2>1, <2>6, <2>8
<1>10. QED
  BY <1>8, <1>9

-----------------------------------------------------------------------------
(* Noticing. *)
LEMMA IntTellsChecksums ==
  ASSUME plan \in Plans, NEW c, IsChecksum(c), NEW d, IsChecksum(d),
         AsInt(c) \in {d, AsInt(d)}
  PROVE  c = d
<1> DEFINE m == UintModulus
           l == plan.writer.limit
<1>1. m \in Nat /\ m > 0 /\ l \in Nat
  BY OperationsAssumption, PlanFacts
<1>2. c \in 0 .. m - 1 /\ d \in 0 .. m - 1
  BY DEF IsChecksum
<1>3. AsInt(c) = (IF c < l THEN c ELSE c - m) /\ AsInt(d) = (IF d < l THEN d ELSE d - m)
  BY DEF AsInt
<1> HIDE DEF m, l
<1>4. QED
  BY <1>1, <1>2, <1>3

IsOf(t, a) ==
  /\ t.text = Shown(plan.text) /\ t.timestamp = Uint32(a.ts) /\ t.attempt = a.attempt % 4

LEMMA ChecksumSettles ==
  ASSUME plan \in Plans, NEW t, WasShown(t), NEW a, IsAttempt(a),
         a.expect = [crc |-> AsInt(SumOf(t))]
  PROVE  IsOf(t, a)
<1> DEFINE c == SumOf(t)
<1>1. PICK ts \in Seconds, n \in 0 .. plan.maxAttempts - 1 :
        t.text = Shown(plan.text) /\ t.timestamp = Uint32(ts) /\ t.attempt = n % 4
  BY DEF WasShown
<1>2. a.ts \in Seconds /\ a.attempt \in Nat /\ n \in Nat
  <2>1. plan.maxAttempts \in Nat
    BY SidesOfPlan DEF IsPlan
  <2>2. QED
    BY <2>1 DEF IsAttempt
<1>3. c = Awaited(ts, n, Shown(plan.text)) /\ IsChecksum(c)
  BY <1>1, <1>2, SumOfShown
<1> HIDE DEF c
<1>4. a.expect = [crc |-> AsInt(c)]
  BY DEF c
<1>5. DOMAIN a.expect = {"crc"} /\ a.expect.crc = AsInt(c)
  BY <1>4
<1>6. ~IsError(a.expect)
  BY <1>5 DEF IsError
<1>7. PICK x \in Texts : a.expect \in {[crc |-> Awaited(a.ts, a.attempt, x)],
                                       [crc |-> AsInt(Awaited(a.ts, a.attempt, x))]}
  BY <1>6 DEF IsAttempt, Expects
<1> DEFINE d == Awaited(a.ts, a.attempt, x)
<1>8. Shown(plan.text) \in Texts
  BY DEF Texts
<1>9. /\ IsChecksum(d)
      /\ d = Awaited(ts, n, Shown(plan.text)) => Uint32(a.ts) = Uint32(ts) /\ a.attempt % 4 = n % 4
  BY <1>2, <1>8, SumsOfPlan
<1>10. a.expect.crc \in {d, AsInt(d)}
  <2> HIDE DEF d
  <2>1. a.expect \in {[crc |-> d], [crc |-> AsInt(d)]}
    BY <1>7 DEF d
  <2>2. QED
    BY <2>1
<1> HIDE DEF d
<1>11. AsInt(c) \in {d, AsInt(d)}
  BY <1>5, <1>10, Zenon
<1>12. c = d
  BY <1>3, <1>9, <1>11, IntTellsChecksums
<1>13. Uint32(a.ts) = Uint32(ts) /\ a.attempt % 4 = n % 4
  BY <1>3, <1>9, <1>12
<1>14. QED
  BY <1>1, <1>13, Zenon DEF IsOf

LEMMA ConfirmsIsAnswer ==
  ASSUME NEW p, NEW c, Confirms(p, c)
  PROVE  /\ IsChecksum(c) /\ p.Route \in {RouteFlood, RouteDirect}
         /\ p = PacketOf(p.Route, p.Type, p.PathHashSize, p.Path, p.Payload)
         /\ Laid(p.Route, p.Type, p.PathHashSize, p.Path)
         /\ p.PathHashSize \in 1 .. 3
         /\ IsAnswer(p.Type, p.Payload, p.PathHashSize, c)
<1>1. /\ IsChecksum(c) /\ p.Route \in {RouteFlood, RouteDirect}
      /\ p = PacketOf(p.Route, p.Type, p.PathHashSize, << >>, p.Payload)
      /\ Laid(p.Route, p.Type, p.PathHashSize, << >>)
      /\ IsAnswer(p.Type, p.Payload, p.PathHashSize, c)
  BY DEF Confirms, IsAnswer
<1>2. p.PathHashSize \in 1 .. 3
  BY <1>1, SizeOfLaid
<1>3. p.Path = << >>
  <2>1. PacketOf(p.Route, p.Type, p.PathHashSize, << >>, p.Payload).Path = << >>
    BY DEF PacketOf
  <2>2. QED
    BY <1>1, <2>1, Zenon
<1>4. QED
  BY <1>1, <1>2, <1>3

LEMMA NoticeTells ==
  ASSUME ConversationInv, NEW m \in air, Notice(m)
  PROVE  \E r, size : \E t \in shown :
           /\ Tells(r, size, SumOf(t))
           /\ confirmed' = confirmed \union
                {k \in DOMAIN written : written[k].expect = [crc |-> ChecksumIn(r)]}
           /\ route' = IF Is("path", r)
                       THEN [known |-> TRUE, path |-> r.path, size |-> size]
                       ELSE route
<1>0. PlaceInv /\ AirInv /\ plan \in Plans /\ m.to = plan.writer
  BY DEF ConversationInv, PlaceInv, Notice
<1>1. PICK t \in shown : Confirms(m.packet, SumOf(t))
  BY <1>0, ReaderGetsTexts
<1>2. PICK p \in Arrivals(m) :
        \E env \in {Envelope(m.to, p)} : \E answer \in {AnswerIn(env)} :
          /\ ~IsError(answer)
          /\ confirmed' = confirmed \union
               {k \in DOMAIN written : written[k].expect = [crc |-> ChecksumIn(answer)]}
          /\ route' = IF Is("path", answer)
                      THEN [known |-> TRUE, path |-> answer.path, size |-> env.pathHashSize]
                      ELSE route
  BY DEF Notice
<1> DEFINE env == Envelope(m.to, p)
           r   == AnswerIn(env)
           c   == SumOf(t)
<1>3. /\ ~IsError(r)
      /\ confirmed' = confirmed \union
           {k \in DOMAIN written : written[k].expect = [crc |-> ChecksumIn(r)]}
      /\ route' = IF Is("path", r)
                  THEN [known |-> TRUE, path |-> r.path, size |-> env.pathHashSize]
                  ELSE route
  BY <1>2
<1>4. /\ IsChecksum(c) /\ m.packet.Route \in {RouteFlood, RouteDirect}
      /\ m.packet = PacketOf(m.packet.Route, m.packet.Type, m.packet.PathHashSize,
                             m.packet.Path, m.packet.Payload)
      /\ m.packet.PathHashSize \in 1 .. 3
      /\ IsAnswer(m.packet.Type, m.packet.Payload, m.packet.PathHashSize, c)
  BY <1>1, ConfirmsIsAnswer
<1>5. /\ env.payloadHex = [payload |-> m.packet.Payload]
      /\ env.typeCode = m.packet.Type
      /\ env.pathHashSize = m.packet.PathHashSize
  BY <1>0, <1>4, ArrivedEnvelope
<1> HIDE DEF env, c
<1>6. IsAnswer(env.typeCode, m.packet.Payload, env.pathHashSize, c)
  BY <1>4, <1>5, Zenon
<1>7. Tells(r, env.pathHashSize, c)
  BY <1>0, <1>3, <1>4, <1>5, <1>6, AnswerTells
<1> HIDE DEF r
<1>8. QED
  BY <1>3, <1>7, Zenon DEF c

LEMMA NoticeKeeps ==
  ASSUME ConversationInv, NEW m \in air, Notice(m)
  PROVE  AirInv' /\ ConfirmedInv' /\ RouteInv'
<1>0. /\ PlaceInv /\ AirInv /\ WrittenInv /\ ShownInv /\ ConfirmedInv /\ RouteInv
      /\ plan \in Plans
  BY DEF ConversationInv, PlaceInv
<1>1. plan' = plan /\ shown' = shown /\ written' = written /\ air' = air \ {m}
  BY DEF Notice
<1>2. AirInv'
  BY <1>0, <1>1, FewerInAir
<1>3. PICK r, size : \E u \in shown :
        /\ Tells(r, size, SumOf(u))
        /\ confirmed' = confirmed \union
             {k \in DOMAIN written : written[k].expect = [crc |-> ChecksumIn(r)]}
        /\ route' = IF Is("path", r)
                    THEN [known |-> TRUE, path |-> r.path, size |-> size]
                    ELSE route
  BY NoticeTells
<1>4. PICK t \in shown :
        /\ Tells(r, size, SumOf(t))
        /\ confirmed' = confirmed \union
             {k \in DOMAIN written : written[k].expect = [crc |-> ChecksumIn(r)]}
        /\ route' = IF Is("path", r)
                    THEN [known |-> TRUE, path |-> r.path, size |-> size]
                    ELSE route
  BY <1>3
<1>5. ChecksumIn(r) = AsInt(SumOf(t)) /\ (Is("path", r) => IsWay(r.path, size))
  BY <1>4 DEF Tells
<1>6. ASSUME NEW path, NEW w PROVE IsWay(path, w)' <=> IsWay(path, w)
  BY <1>1, SameOfPlan
<1>7. RouteInv'
  <2>1. CASE Is("path", r)
    <3>1. route'.path = r.path /\ route'.size = size
      BY <1>4, <2>1
    <3>2. IsWay(r.path, size)'
      BY <1>5, <1>6, <2>1
    <3>3. QED
      BY <1>1, <1>5, <2>1, <3>1 DEF RouteInv, IsWay
  <2>2. CASE ~Is("path", r)
    <3>1. route' = route
      BY <1>4, <2>2
    <3>2. QED
      BY <1>0, <1>1, <3>1 DEF RouteInv, IsWay
  <2>3. QED
    BY <2>1, <2>2
<1>8. ASSUME NEW k \in confirmed'
      PROVE  k \in DOMAIN written /\ \E u \in shown : IsOf(u, written[k])
  <2>1. CASE k \in confirmed
    BY <1>0, <2>1 DEF ConfirmedInv, AcknowledgedWasRead, IsOf
  <2>2. CASE k \notin confirmed
    <3>1. k \in DOMAIN written /\ written[k].expect = [crc |-> AsInt(SumOf(t))]
      BY <1>4, <1>5, <2>2
    <3>2. IsAttempt(written[k]) /\ WasShown(t)
      BY <1>0, <3>1 DEF WrittenInv, ShownInv
    <3>3. IsOf(t, written[k])
      BY <1>0, <3>1, <3>2, ChecksumSettles
    <3>4. QED
      BY <3>1, <3>3
  <2>3. QED
    BY <2>1, <2>2
<1>9. ConfirmedInv'
  BY <1>1, <1>8 DEF ConfirmedInv, AcknowledgedWasRead, IsOf
<1>10. QED
  BY <1>2, <1>7, <1>9

-----------------------------------------------------------------------------
(* Keys that give one secret. *)
ScalarIn(form, public) ==
  IF form = "legacy" THEN ScalarOf(public) ELSE ScalarOf(Montgomery(public))

LEMMA SecretIs ==
  ASSUME NEW scalar, NEW public, ECDH(scalar, public).err = Ok
  PROVE  ECDH(scalar, public).secret = {scalar, ScalarOf(public)}
<1>1. NoKeys("ECDH").err # Ok
  BY DEF NoKeys, Ok
<1>2. ECDH(scalar, public) = Secret({scalar, ScalarOf(public)})
  BY <1>1, Zenon DEF ECDH
<1>3. QED
  BY <1>2 DEF Secret

LEMMA ScalarSecretIs ==
  ASSUME NEW scalar, NEW public, sharedSecretFromScalar(scalar, public).err = Ok
  PROVE  sharedSecretFromScalar(scalar, public).secret = {scalar, ScalarOf(Montgomery(public))}
<1>1. NoKeys("InvalidPeerKey").err # Ok
  BY DEF NoKeys, Ok
<1>2. sharedSecretFromScalar(scalar, public) = ECDH(scalar, Montgomery(public))
  BY <1>1, Zenon DEF sharedSecretFromScalar
<1>3. QED
  BY <1>2, SecretIs, Zenon

LEMMA SecretOfSide ==
  ASSUME NEW side, side.form \in Forms, KeysOf(side).err = Ok
  PROVE  KeysOf(side).secret = {OwnScalar(side), ScalarIn(side.form, PeerOf(side).key)}
<1> DEFINE k == side.private
           p == PeerOf(side)
           s == KeysOf(side)
<1>1. NoKeys("KeySize").err # Ok /\ s.err = Ok
  BY DEF NoKeys, Ok
<1>2. CASE side.form = "seed"
  <2>1. s = identitySharedSecret(k, p)
    BY <1>2 DEF KeysOf
  <2> HIDE DEF s, k, p
  <2>2. s = IdentitySecret(k.key, p.key)
    BY <1>1, <2>1, Zenon DEF identitySharedSecret
  <2>3. s = sharedSecretFromScalar(Expanded(k.key), p.key)
    BY <2>2 DEF IdentitySecret, IdentityFromSeed
  <2>4. s.secret = {Expanded(k.key), ScalarOf(Montgomery(p.key))}
    BY <1>1, <2>3, ScalarSecretIs, Zenon
  <2>5. OwnScalar(side) = Expanded(k.key) /\ ScalarIn(side.form, p.key) = ScalarOf(Montgomery(p.key))
    BY <1>2 DEF OwnScalar, ScalarIn, k
  <2>6. QED
    BY <2>4, <2>5 DEF s, p
<1>3. CASE side.form = "expanded"
  <2>1. s = SharedSecretFromExpanded(k, p)
    BY <1>3 DEF KeysOf
  <2> HIDE DEF s, k, p
  <2>2. s = sharedSecretFromScalar(k.key, p.key)
    BY <1>1, <2>1, Zenon DEF SharedSecretFromExpanded
  <2>3. s.secret = {k.key, ScalarOf(Montgomery(p.key))}
    BY <1>1, <2>2, ScalarSecretIs, Zenon
  <2>4. OwnScalar(side) = k.key /\ ScalarIn(side.form, p.key) = ScalarOf(Montgomery(p.key))
    BY <1>3 DEF OwnScalar, ScalarIn, k
  <2>5. QED
    BY <2>3, <2>4 DEF s, p
<1>4. CASE side.form = "legacy"
  <2>1. s = keysAndSecret(k, p)
    BY <1>4 DEF KeysOf
  <2> HIDE DEF s, k, p
  <2>2. s = ECDH(k.key, p.key)
    BY <1>1, <2>1, Zenon DEF keysAndSecret, LegacySecret
  <2>3. s.secret = {k.key, ScalarOf(p.key)}
    BY <1>1, <2>2, SecretIs, Zenon
  <2>4. OwnScalar(side) = k.key /\ ScalarIn(side.form, p.key) = ScalarOf(p.key)
    BY <1>4 DEF OwnScalar, ScalarIn, k
  <2>5. QED
    BY <2>3, <2>4 DEF s, p
<1>5. QED
  BY <1>2, <1>3, <1>4 DEF Forms

LEMMA ScalarTells ==
  ASSUME NEW public
  PROVE  /\ public[1] = "ed" => /\ ScalarOf(Montgomery(public)) = Expanded(public[2])
                                /\ ScalarOf(public)[1] = "log"
         /\ public[1] # "ed" => ScalarOf(Montgomery(public))[1] = "log"
         /\ public[1] = "x"  => ScalarOf(public) = public[2]
         /\ public[1] # "x"  => ScalarOf(public)[1] = "log"
BY DEF ScalarOf, Montgomery, XPublic

(* One side finds the scalar of the other in its public key. *)
LEMMA ScalarFound ==
  ASSUME NEW a, IsSide(a), NEW b, IsSide(b), ScalarIn(a.form, b.public) = OwnScalar(b)
  PROVE  /\ a.form = "legacy" => b.form = "legacy" /\ Genuine(b)
         /\ a.form # "legacy" /\ b.form # "legacy" => Genuine(b)
<1>1. /\ b.form \in Forms /\ OwnScalar(b)[1] # "log"
      /\ b.public = <<b.public[1], b.public[2]>>
      /\ b.form # "legacy" => b.public[1] = "ed"
  BY Zenon DEF IsSide
<1>2. CASE a.form = "legacy"
  <2>1. ScalarOf(b.public) = OwnScalar(b)
    BY <1>2 DEF ScalarIn
  <2>2. b.public[1] = "x" /\ b.public[2] = OwnScalar(b)
    BY <1>1, <2>1, ScalarTells
  <2>3. b.form = "legacy"
    BY <1>1, <2>2
  <2>4. OwnScalar(b) = b.private.key
    BY <2>3 DEF OwnScalar
  <2>5. XPublic(b.private.key) = b.public
    BY <1>1, <2>2, <2>4, Zenon DEF XPublic
  <2>6. QED
    BY <1>2, <2>3, <2>5 DEF Genuine
<1>3. CASE a.form # "legacy" /\ b.form # "legacy"
  <2>1. ScalarOf(Montgomery(b.public)) = OwnScalar(b) /\ b.public[1] = "ed"
    BY <1>1, <1>3 DEF ScalarIn
  <2>2. OwnScalar(b) = Expanded(b.public[2])
    BY <2>1, ScalarTells
  <2>3. CASE b.form = "seed"
    <3>1. Expanded(b.private.key) = Expanded(b.public[2])
      BY <2>2, <2>3 DEF OwnScalar
    <3>2. b.private.key = b.public[2]
      BY <3>1 DEF Expanded
    <3>3. EdPublic(b.private.key) = b.public
      BY <1>1, <2>1, <3>2, Zenon DEF EdPublic
    <3>4. QED
      BY <1>3, <2>3, <3>3 DEF Genuine
  <2>4. CASE b.form = "expanded"
    <3>1. b.private.key = Expanded(b.public[2])
      BY <2>2, <2>4 DEF OwnScalar
    <3>2. QED
      BY <1>3, <2>4, <3>1 DEF Genuine
  <2>5. QED
    BY <1>1, <1>3, <2>3, <2>4 DEF Forms
<1>4. QED
  BY <1>2, <1>3

LEMMA SecretPairs ==
  ASSUME plan \in Plans, SameSecret
  PROVE  Paired
<1> DEFINE w == plan.writer
           r == plan.reader
           a == ScalarIn(w.form, r.public)
           b == ScalarIn(r.form, w.public)
<1>1. IsSide(w) /\ IsSide(r) /\ w.form \in Forms /\ r.form \in Forms
  BY SidesOfPlan
<1>2. OwnScalar(w) # OwnScalar(r)
  BY SidesOfPlan DEF IsPlan
<1>3. PeerOf(w).key = r.public /\ PeerOf(r).key = w.public
  BY PeersOfPlan, IsKeyOf, Zenon
<1>4. KeysOf(w).secret = {OwnScalar(w), a}
  BY <1>1, <1>3, SecretOfSide, Zenon DEF SameSecret
<1>5. KeysOf(r).secret = {OwnScalar(r), b}
  BY <1>1, <1>3, SecretOfSide, Zenon DEF SameSecret
<1>6. {OwnScalar(w), a} = {OwnScalar(r), b}
  BY <1>4, <1>5, Zenon DEF SameSecret
<1> HIDE DEF a, b
<1>7. a = OwnScalar(r) /\ b = OwnScalar(w)
  BY <1>2, <1>6
<1>8. /\ w.form = "legacy" => r.form = "legacy" /\ Genuine(r)
      /\ w.form # "legacy" /\ r.form # "legacy" => Genuine(r)
  BY <1>1, <1>7, ScalarFound DEF a
<1>9. /\ r.form = "legacy" => w.form = "legacy" /\ Genuine(w)
      /\ r.form # "legacy" /\ w.form # "legacy" => Genuine(w)
  BY <1>1, <1>7, ScalarFound DEF b
<1>10. QED
  BY <1>8, <1>9 DEF Paired

LEMMA ScalarIsFound ==
  ASSUME NEW a, IsSide(a), NEW b, IsSide(b), Genuine(b), a.form = "legacy" <=> b.form = "legacy"
  PROVE  ScalarIn(a.form, b.public) = OwnScalar(b)
<1>1. /\ b.form \in Forms
      /\ b.form # "legacy" => b.public[1] = "ed"
  BY Zenon DEF IsSide
<1>2. CASE b.form = "legacy"
  <2>1. b.public = XPublic(b.private.key) /\ OwnScalar(b) = b.private.key
    BY <1>2 DEF Genuine, OwnScalar
  <2>2. b.public[1] = "x" /\ b.public[2] = b.private.key
    BY <2>1 DEF XPublic
  <2>3. ScalarIn(a.form, b.public) = ScalarOf(b.public)
    BY <1>2 DEF ScalarIn
  <2>4. QED
    BY <2>1, <2>2, <2>3, ScalarTells, Zenon
<1>3. CASE b.form # "legacy"
  <2>1. ScalarIn(a.form, b.public) = Expanded(b.public[2])
    <3>1. ScalarIn(a.form, b.public) = ScalarOf(Montgomery(b.public))
      BY <1>3 DEF ScalarIn
    <3>2. QED
      BY <1>1, <1>3, <3>1, ScalarTells, Zenon
  <2>2. CASE b.form = "seed"
    <3>1. b.public = EdPublic(b.private.key) /\ OwnScalar(b) = Expanded(b.private.key)
      BY <2>2 DEF Genuine, OwnScalar
    <3>2. b.public[2] = b.private.key
      BY <3>1 DEF EdPublic
    <3>3. QED
      BY <2>1, <3>1, <3>2, Zenon
  <2>3. CASE b.form = "expanded"
    <3>1. b.private.key = Expanded(b.public[2]) /\ OwnScalar(b) = b.private.key
      BY <2>3 DEF Genuine, OwnScalar
    <3>2. QED
      BY <2>1, <3>1, Zenon
  <2>4. QED
    BY <1>1, <1>3, <2>2, <2>3 DEF Forms
<1>4. QED
  BY <1>2, <1>3

(* The three forms of keys: when both sides find a secret, it is the same  *)
(* exactly if each private key belongs to the public key that the peer     *)
(* has, and both are identities, as seeds or scalars, or both are of the   *)
(* older kind (keys.go:74-161, txtmsg.go:180-207).                         *)
THEOREM PairedKeysShareOneSecret ==
  ASSUME plan \in Plans, KeysOf(plan.writer).err = Ok, KeysOf(plan.reader).err = Ok
  PROVE  KeysOf(plan.writer).secret = KeysOf(plan.reader).secret <=> Paired
<1> DEFINE w == plan.writer
           r == plan.reader
<1>1. IsSide(w) /\ IsSide(r) /\ w.form \in Forms /\ r.form \in Forms
  BY SidesOfPlan
<1>2. ASSUME KeysOf(w).secret = KeysOf(r).secret
      PROVE  Paired
  BY <1>2, SecretPairs DEF SameSecret
<1>3. ASSUME Paired
      PROVE  KeysOf(w).secret = KeysOf(r).secret
  <2>1. Genuine(w) /\ Genuine(r) /\ (w.form = "legacy" <=> r.form = "legacy")
    BY <1>3 DEF Paired
  <2>2. ScalarIn(w.form, r.public) = OwnScalar(r) /\ ScalarIn(r.form, w.public) = OwnScalar(w)
    <3> HIDE DEF w, r
    <3>1. QED
      BY <1>1, <2>1, ScalarIsFound
  <2>3. PeerOf(w).key = r.public /\ PeerOf(r).key = w.public
    BY PeersOfPlan, IsKeyOf, Zenon
  <2>4. KeysOf(w).secret = {OwnScalar(w), OwnScalar(r)}
    BY <1>1, <2>2, <2>3, SecretOfSide, Zenon
  <2>5. KeysOf(r).secret = {OwnScalar(r), OwnScalar(w)}
    BY <1>1, <2>2, <2>3, SecretOfSide, Zenon
  <2>6. QED
    BY <2>4, <2>5
<1>4. QED
  BY <1>2, <1>3

-----------------------------------------------------------------------------
(* What an action leaves alone. *)
LEMMA WrittenStays ==
  ASSUME WrittenInv, plan' = plan, written' = written
  PROVE  WrittenInv'
<1>1. \A a : IsAttempt(a)' <=> IsAttempt(a)
  BY SameOfPlan
<1>2. \A k \in DOMAIN written' : IsAttempt(written[k])
  BY DEF WrittenInv
<1>3. \A k \in DOMAIN written' : (IsAttempt(written[k]))'
  <2> SUFFICES ASSUME NEW k \in DOMAIN written'
               PROVE  (IsAttempt(written[k]))'
    OBVIOUS
  <2>1. PICK a : a = written[k]
    OBVIOUS
  <2>2. IsAttempt(a)'
    BY <1>1, <1>2, <2>1
  <2>3. a = written'[k]
    BY <2>1
  <2>4. QED
    BY <2>2, <2>3 DEF IsAttempt, Expects
<1>4. \E S : written' \in Seq(S)
  BY DEF WrittenInv
<1>5. QED
  BY <1>3, <1>4 DEF WrittenInv

LEMMA ShownStays ==
  ASSUME ShownInv, plan' = plan, shown' = shown
  PROVE  ShownInv'
<1>1. (\A t : WasShown(t)' <=> WasShown(t)) /\ (SameSecret' <=> SameSecret)
  BY SameOfPlan
<1>2. QED
  BY <1>1, Zenon DEF ShownInv

LEMMA RouteStays ==
  ASSUME RouteInv, plan' = plan, route' = route
  PROVE  RouteInv'
<1>1. \A path, size : IsWay(path, size)' <=> IsWay(path, size)
  BY SameOfPlan
<1>2. QED
  BY <1>1 DEF RouteInv, IsWay

LEMMA ConfirmedStays ==
  ASSUME ConfirmedInv, plan' = plan, confirmed' = confirmed, shown \subseteq shown',
         confirmed' \subseteq DOMAIN written', \A k \in confirmed' : written'[k] = written[k]
  PROVE  ConfirmedInv'
<1>1. ASSUME NEW k \in confirmed'
      PROVE  \E t \in shown' : /\ t.text = Shown(plan'.text)
                               /\ t.timestamp = Uint32(written'[k].ts)
                               /\ t.attempt = written'[k].attempt % 4
  <2>1. PICK t \in shown : /\ t.text = Shown(plan.text)
                           /\ t.timestamp = Uint32(written[k].ts)
                           /\ t.attempt = written[k].attempt % 4
    BY Zenon DEF ConfirmedInv, AcknowledgedWasRead
  <2>2. QED
    BY <2>1
<1>2. AcknowledgedWasRead'
  BY <1>1 DEF AcknowledgedWasRead
<1>3. QED
  BY <1>2 DEF ConfirmedInv

(* All of it. *)
Talk == AirInv /\ WrittenInv /\ ShownInv /\ ConfirmedInv /\ RouteInv

LEMMA TalkStays ==
  ASSUME Talk, UNCHANGED <<plan, written, shown, confirmed, route>>, air' \subseteq air
  PROVE  Talk'
<1>1. AirInv'
  BY FewerInAir DEF Talk
<1>2. WrittenInv' /\ ShownInv' /\ RouteInv'
  BY WrittenStays, ShownStays, RouteStays DEF Talk
<1>3. confirmed' \subseteq DOMAIN written' /\ \A k \in confirmed' : written'[k] = written[k]
  BY DEF Talk, ConfirmedInv
<1>4. ConfirmedInv'
  BY <1>3, ConfirmedStays DEF Talk
<1>5. QED
  BY <1>1, <1>2, <1>4 DEF Talk

-----------------------------------------------------------------------------
Frames ==
  /\ plan' = plan
  /\ Tick \/ tick' = tick
  /\ (\E m \in air : Lose(m)) \/ lost' = lost
  /\ (\E r \in Routes : StartTrace(r)) \/ PassTrace \/ ShowTrace \/ trace' = trace
  /\ (\E c \in plan.calls : Ask(c)) \/ (\E a \in asked : Look(a)) \/ asked' = asked

LEMMA NextFrames ==
  ASSUME [Next]_vars
  PROVE  Frames
<1>1. Tick => Frames
  BY DEF Tick, Frames
<1>2. Write => Frames
  BY DEF Write, Frames
<1>3. ASSUME NEW m \in air, Read(m) \/ Notice(m) \/ Lose(m) PROVE Frames
  BY <1>3 DEF Read, Notice, Lose, Frames
<1>4. ASSUME NEW r \in Routes, StartTrace(r) PROVE Frames
  BY <1>4 DEF StartTrace, conversation, Frames
<1>5. PassTrace => Frames
  <2>1. PassTrace => UNCHANGED <<conversation, plan, asked>>
    BY Zenon DEF PassTrace
  <2>2. QED
    BY <2>1 DEF conversation, Frames
<1>6. ShowTrace => Frames
  BY DEF ShowTrace, conversation, Frames
<1>7. ASSUME NEW c \in plan.calls, Ask(c) PROVE Frames
  BY <1>7 DEF Ask, conversation, Frames
<1>8. ASSUME NEW a \in asked, Look(a) PROVE Frames
  <2>1. UNCHANGED <<conversation, plan, trace>>
    BY <1>8, Zenon DEF Look
  <2>2. \E b \in asked : Look(b)
    BY <1>8
  <2>3. QED
    BY <2>1, <2>2 DEF conversation, Frames
<1>9. UNCHANGED vars => Frames
  BY DEF vars, Frames
<1>10. QED
  BY <1>1, <1>2, <1>3, <1>4, <1>5, <1>6, <1>7, <1>8, <1>9, Zenon DEF Next

LEMMA PlaceStays ==
  ASSUME PlaceInv, [Next]_vars
  PROVE  PlaceInv'
<1>1. CASE Tick
  <2>1. plan.times \in Seq(Nat) /\ plan' = plan /\ tick < Len(plan.times) /\ tick' = tick + 1
    BY <1>1, SidesOfPlan, Zenon DEF IsPlan, PlaceInv, Tick
  <2> DEFINE ts == plan.times
  <2>2. tick' \in DOMAIN ts
    <3>1. ts \in Seq(Nat) /\ tick \in DOMAIN ts /\ tick < Len(ts) /\ tick' = tick + 1
      BY <2>1 DEF PlaceInv
    <3> HIDE DEF ts
    <3>2. QED
      BY <3>1
  <2>3. QED
    BY <2>1, <2>2 DEF PlaceInv
<1>2. CASE ~Tick
  <2>1. plan' = plan /\ tick' = tick
    BY <1>2, NextFrames, Zenon DEF Frames
  <2>2. QED
    BY <2>1, Zenon DEF PlaceInv
<1>3. QED
  BY <1>1, <1>2

(* The TRACE and the calls have the phases of their actions. *)
Phases == {"none", "passing", "dropped", "shown"}

LEMMA TracePhase ==
  ASSUME trace.phase \in Phases, [Next]_vars
  PROVE  trace'.phase \in Phases
<1>1. CASE \E r \in Routes : StartTrace(r)
  <2>1. PICK r \in Routes : StartTrace(r)
    BY <1>1
  <2>2. trace'.phase = "passing"
    BY <2>1 DEF StartTrace
  <2>3. QED
    BY <2>2 DEF Phases
<1>2. CASE PassTrace
  <2> DEFINE hop  == Len(trace.packet.Path) + 1
             mark == <<trace.nodes[hop], ContentHashOf(trace.packet)>>
             q    == Encoded([trace.packet EXCEPT !.Path = Append(@, ByteOf(Snr(hop)))])
  <2>1. /\ trace.phase = "passing"
        /\ trace' = IF mark \in trace.seen \/ IsError(q)
                    THEN [trace EXCEPT !.phase = "dropped"]
                    ELSE [trace EXCEPT !.packet = q.hex.packet, !.seen = @ \union {mark}]
    BY <1>2, Zenon DEF PassTrace
  <2> HIDE DEF hop, mark, q
  <2>2. \/ trace' = [trace EXCEPT !.phase = "dropped"]
        \/ trace' = [trace EXCEPT !.packet = q.hex.packet, !.seen = @ \union {mark}]
    BY <2>1, Zenon
  <2>3. trace'.phase \in {"dropped", trace.phase}
    <3>1. CASE trace' = [trace EXCEPT !.phase = "dropped"]
      <4>1. PICK t : t = trace
        OBVIOUS
      <4>2. trace' = [t EXCEPT !.phase = "dropped"]
        BY <3>1, <4>1
      <4>3. trace'.phase \in {"dropped", t.phase}
        BY <4>2
      <4>4. QED
        BY <4>1, <4>3
    <3>2. CASE trace' = [trace EXCEPT !.packet = q.hex.packet, !.seen = @ \union {mark}]
      <4>1. "phase" # "packet" /\ "phase" # "seen"
        OBVIOUS
      <4>2. trace'.phase = trace.phase
        BY <3>2, <4>1, <2>1
      <4>3. QED
        BY <4>2
    <3>3. QED
      BY <2>2, <3>1, <3>2
  <2>4. QED
    BY <2>3 DEF Phases
<1>3. CASE ShowTrace
  <2>1. trace'.phase = "shown"
    BY <1>3 DEF ShowTrace
  <2>2. QED
    BY <2>1 DEF Phases
<1>4. CASE ~((\E r \in Routes : StartTrace(r)) \/ PassTrace \/ ShowTrace)
  <2>1. trace' = trace
    BY <1>4, NextFrames, Zenon DEF Frames
  <2>2. QED
    BY <2>1
<1>5. QED
  BY <1>1, <1>2, <1>3, <1>4

IsAsked(a) == a.call \in plan.calls /\ a.phase \in {"written", "read"}

LEMMA AskedPhase ==
  ASSUME \A a \in asked : IsAsked(a), plan' = plan, [Next]_vars
  PROVE  \A a \in asked' : IsAsked(a)'
<1>1. CASE \E c \in plan.calls : Ask(c)
  <2>1. PICK c \in plan.calls : Ask(c)
    BY <1>1
  <2>2. PICK r : asked' = {[call |-> c, phase |-> "written", result |-> r]}
    BY <2>1 DEF Ask
  <2>3. QED
    BY <2>2 DEF IsAsked
<1>2. CASE \E a \in asked : Look(a)
  <2>1. PICK a \in asked : Look(a)
    BY <1>2
  <2>2. PICK r : asked' = {[a EXCEPT !.phase = "read", !.result = r]}
    BY <2>1, Zenon DEF Look
  <2>3. a.call \in plan'.calls
    BY DEF IsAsked
  <2> DEFINE b == [a EXCEPT !.phase = "read", !.result = r]
  <2>4. "call" # "phase" /\ "call" # "result" /\ "phase" # "result"
    OBVIOUS
  <2>5. b.call = a.call /\ b.phase \in {"read", a.phase}
    BY <2>4
  <2>6. asked' = {b}
    BY <2>2
  <2> HIDE DEF b
  <2>7. QED
    BY <2>3, <2>5, <2>6 DEF IsAsked
<1>3. CASE ~((\E c \in plan.calls : Ask(c)) \/ \E a \in asked : Look(a))
  <2>1. asked' = asked
    BY <1>3, NextFrames, Zenon DEF Frames
  <2>2. QED
    BY <2>1 DEF IsAsked
<1>4. QED
  BY <1>1, <1>2, <1>3

LEMMA LostCounts ==
  ASSUME plan \in Plans, lost \in 0 .. plan.maxLost, [Next]_vars
  PROVE  lost' \in 0 .. plan.maxLost
<1>1. CASE \E m \in air : Lose(m)
  <2>1. lost < plan.maxLost /\ lost' = lost + 1
    BY <1>1 DEF Lose
  <2>2. plan.maxLost \in Nat
    BY SidesOfPlan DEF IsPlan
  <2>3. QED
    BY <2>1, <2>2
<1>2. CASE ~ \E m \in air : Lose(m)
  <2>1. lost' = lost
    BY <1>2, NextFrames, Zenon DEF Frames
  <2>2. QED
    BY <2>1
<1>3. QED
  BY <1>1, <1>2

LEMMA OtherStays ==
  ASSUME PlaceInv, OtherInv, [Next]_vars
  PROVE  OtherInv'
<1>1. plan \in Plans /\ plan' = plan
  <2>1. plan' = plan
    BY NextFrames, Zenon DEF Frames
  <2>2. QED
    BY <2>1 DEF PlaceInv
<1>2. lost' \in 0 .. plan'.maxLost
  BY <1>1, LostCounts DEF OtherInv
<1>3. trace'.phase \in {"none", "passing", "dropped", "shown"}
  BY TracePhase DEF OtherInv, Phases
<1>4. \A a \in asked' : a.call \in plan'.calls /\ a.phase \in {"written", "read"}
  BY <1>1, AskedPhase DEF OtherInv, IsAsked
<1>5. QED
  BY <1>2, <1>3, <1>4 DEF OtherInv

-----------------------------------------------------------------------------
LEMMA TextBelongsToWay ==
  ASSUME plan \in Plans, NEW m, m.to = plan.reader, IsSent(m.packet), m.packet.Route = RouteDirect
  PROVE  Arrivals(m) # {}
<1> DEFINE p == m.packet
           ws == {w \in WaysTo(m.to) : Hashes(w, p.PathHashSize) = p.Path}
<1>1. IsWay(p.Path, p.PathHashSize)
  BY DEF IsSent
<1>2. PICK way \in plan.ways : Hashes(way, p.PathHashSize) = p.Path
  BY <1>1 DEF IsWay
<1>3. WaysTo(m.to) = plan.ways
  BY DEF WaysTo
<1>4. way \in ws
  BY <1>2, <1>3
<1>5. RouteDirect # RouteFlood
  BY DEF RouteDirect, RouteFlood
<1>6. Arrivals(m) = {[p EXCEPT !.Path = << >>] : w \in ws}
  BY <1>5, Zenon DEF Arrivals
<1> HIDE DEF ws
<1>7. QED
  BY <1>4, <1>6

(* What is in the air could be encoded, and is made of bytes. *)
IsOnAir(p) ==
  /\ ValidateWire([p EXCEPT !.Payload = << >>]) = Nil
  /\ p.Payload.head \in Seq(Byte) /\ p.Payload.plain \in Seq(Byte)

LEMMA LaidIsValid ==
  ASSUME NEW p, NEW type, p = PacketOf(p.Route, type, p.PathHashSize, p.Path, p.Payload),
         Laid(p.Route, type, p.PathHashSize, p.Path)
  PROVE  ValidateWire([p EXCEPT !.Payload = << >>]) = Nil
<1> DEFINE r == p.Route
           size == p.PathHashSize
           path == p.Path
           b == p.Payload
           q == PacketOf(r, type, size, path, b)
<1>1. [q EXCEPT !.Payload = << >>] = PacketOf(r, type, size, path, << >>)
  BY OtherPayload
<1>2. p = q
  OBVIOUS
<1> HIDE DEF q, r, size, path, b
<1>3. [p EXCEPT !.Payload = << >>] = PacketOf(r, type, size, path, << >>)
  BY <1>1, <1>2, Zenon
<1>4. ValidateWire(PacketOf(r, type, size, path, << >>)) = Nil
  BY Zenon DEF Laid, r, size, path
<1>5. QED
  BY <1>3, <1>4, Zenon

LEMMA SentIsOnAir ==
  ASSUME plan \in Plans, NEW p, IsSent(p)
  PROVE  IsOnAir(p)
<1>1. ValidateWire([p EXCEPT !.Payload = << >>]) = Nil
  <2>1. /\ p = PacketOf(p.Route, PayloadTxtMsg, p.PathHashSize, p.Path, p.Payload)
        /\ Laid(p.Route, PayloadTxtMsg, p.PathHashSize, p.Path)
    BY Zenon DEF IsSent
  <2>2. QED
    BY <2>1, LaidIsValid, Zenon
<1> DEFINE b == p.Payload
           s == KeysOf(plan.writer).secret
<1>2. PICK ts \in Seconds, n \in 0 .. plan.maxAttempts - 1 : IsTextBytes(b, s, ts, n)
  BY Zenon DEF IsSent
<1>3. PICK x \in Texts, mine \in DOMAIN PublicBytes, peer \in DOMAIN PublicBytes :
        b = TextPayload(s, mine, peer, x, ts, n)
  BY <1>2 DEF IsTextBytes
<1>4. x \in Seq(Byte) /\ ts \in Int /\ n \in Nat
  BY TextsOfPlan, SecondsOfPlan
<1>5. LET c == TextPayload(s, mine, peer, x, ts, n)
      IN  c.head \in Seq(Byte) /\ c.plain \in Seq(Byte)
  BY <1>4, TextBytes
<1>6. b.head \in Seq(Byte) /\ b.plain \in Seq(Byte)
  BY <1>3, <1>5
<1>7. QED
  BY <1>1, <1>6 DEF IsOnAir

LEMMA AnswerIsOnAir ==
  ASSUME plan \in Plans, NEW p, NEW c, Confirms(p, c)
  PROVE  IsOnAir(p)
<1>1. /\ IsChecksum(c) /\ IsAnswer(p.Type, p.Payload, p.PathHashSize, c)
      /\ p = PacketOf(p.Route, p.Type, p.PathHashSize, p.Path, p.Payload)
      /\ Laid(p.Route, p.Type, p.PathHashSize, p.Path)
  BY ConfirmsIsAnswer
<1> DEFINE type == p.Type
<1>2. ValidateWire([p EXCEPT !.Payload = << >>]) = Nil
  BY <1>1, LaidIsValid, Zenon
<1>3. p.Payload.head \in Seq(Byte) /\ p.Payload.plain \in Seq(Byte)
  BY <1>1, AnswerBytes
<1>4. QED
  BY <1>2, <1>3 DEF IsOnAir

LEMMA WayIsAligned ==
  ASSUME plan \in Plans, NEW path, NEW size, IsWay(path, size)
  PROVE  Len(path) % size = 0
<1> DEFINE q == [Path |-> path, PathHashSize |-> size]
<1>1. PICK way \in plan.ways : Hashes(way, size) = path
  BY DEF IsWay
<1>2. size \in 1 .. 3 /\ q.Path = Hashes(way, size) /\ q.PathHashSize = size
  BY <1>1 DEF IsWay
<1>3. Len(q.Path) % size = 0
  <2> HIDE DEF q
  <2>1. QED
    BY <1>2, WayIsHops
<1>4. QED
  BY <1>3

LEMMA ConversationTypes ==
  ASSUME ConversationInv
  PROVE  TypeOK
<1>1. plan \in Plans /\ tick \in DOMAIN plan.times
  BY DEF ConversationInv, PlaceInv
<1>2. ASSUME NEW m \in air
      PROVE  m.to \in {plan.writer, plan.reader} /\ IsOnAir(m.packet)
  <2>1. \/ m.to = plan.reader /\ IsSent(m.packet)
        \/ m.to = plan.writer /\ \E t \in shown : Confirms(m.packet, SumOf(t))
    BY DEF ConversationInv, AirInv
  <2>2. QED
    BY <1>1, <2>1, SentIsOnAir, AnswerIsOnAir
<1>3. \A k \in DOMAIN written : written[k].attempt \in 0 .. plan.maxAttempts - 1
  BY DEF ConversationInv, WrittenInv, IsAttempt
<1>4. confirmed \subseteq DOMAIN written
  BY DEF ConversationInv, ConfirmedInv
<1>5. route.known => Len(route.path) % route.size = 0
  BY <1>1, WayIsAligned DEF ConversationInv, RouteInv
<1>6. OtherInv
  BY DEF ConversationInv
<1>7. \A m \in air : /\ m.to \in {plan.writer, plan.reader}
                     /\ ValidateWire([m.packet EXCEPT !.Payload = << >>]) = Nil
                     /\ m.packet.Payload.head \in Seq(Byte)
                     /\ m.packet.Payload.plain \in Seq(Byte)
  BY <1>2, Zenon DEF IsOnAir
<1>8. QED
  BY <1>1, <1>3, <1>4, <1>5, <1>6, <1>7, Zenon DEF TypeOK, OtherInv

-----------------------------------------------------------------------------
(* The invariant holds in every behaviour of the pages. *)
LEMMA ConversationBegins ==
  ASSUME Init
  PROVE  ConversationInv
<1>1. plan \in Plans /\ plan.times \in Seq(Nat) /\ plan.times # << >> /\ plan.maxLost \in Nat
  BY SidesOfPlan DEF Init, IsPlan
<1>2. PlaceInv
  <2> DEFINE ts == plan.times
  <2>1. ts \in Seq(Nat) /\ ts # << >>
    BY <1>1
  <2> HIDE DEF ts
  <2>2. 1 \in DOMAIN ts
    BY <2>1
  <2>3. QED
    BY <1>1, <2>2 DEF PlaceInv, Init, ts
<1>3. AirInv /\ ShownInv
  BY DEF Init, AirInv, ShownInv
<1>4. WrittenInv
  <2>1. written = << >> /\ written \in Seq(Nat) /\ DOMAIN written = {}
    BY DEF Init
  <2>2. \E S : written \in Seq(S)
    BY <2>1, Zenon
  <2>3. QED
    BY <2>1, <2>2 DEF WrittenInv
<1>5. ConfirmedInv /\ RouteInv
  BY DEF Init, ConfirmedInv, AcknowledgedWasRead, RouteInv, NoRoute
<1>6. OtherInv
  BY <1>1 DEF Init, OtherInv, NoTrace
<1>7. QED
  BY <1>2, <1>3, <1>4, <1>5, <1>6 DEF ConversationInv

LEMMA ConversationGoesOn ==
  ASSUME ConversationInv, [Next]_vars
  PROVE  ConversationInv'
<1>1. PlaceInv' /\ OtherInv' /\ Talk
  BY PlaceStays, OtherStays DEF ConversationInv, Talk
<1>2. CASE Write
  <2>1. AirInv' /\ WrittenInv' /\ confirmed' \subseteq DOMAIN written'
          /\ (\A k \in confirmed' : written'[k] = written[k])
    BY <1>2, WriteKeeps
  <2>2. UNCHANGED <<plan, shown, confirmed, route>>
    BY <1>2 DEF Write
  <2>3. ShownInv' /\ RouteInv' /\ ConfirmedInv'
    BY <1>1, <2>1, <2>2, ShownStays, RouteStays, ConfirmedStays DEF Talk
  <2>4. QED
    BY <1>1, <2>1, <2>3 DEF ConversationInv
<1>3. ASSUME NEW m \in air, Read(m)
      PROVE  ConversationInv'
  <2>1. AirInv' /\ ShownInv' /\ shown \subseteq shown'
    BY <1>3, ReadKeeps
  <2>2. UNCHANGED <<plan, written, confirmed, route>>
    BY <1>3 DEF Read
  <2>3. confirmed' \subseteq DOMAIN written' /\ \A k \in confirmed' : written'[k] = written[k]
    BY <1>1, <2>2 DEF Talk, ConfirmedInv
  <2>4. WrittenInv' /\ RouteInv' /\ ConfirmedInv'
    BY <1>1, <2>1, <2>2, <2>3, WrittenStays, RouteStays, ConfirmedStays DEF Talk
  <2>5. QED
    BY <1>1, <2>1, <2>4 DEF ConversationInv
<1>4. ASSUME NEW m \in air, Notice(m)
      PROVE  ConversationInv'
  <2>1. AirInv' /\ ConfirmedInv' /\ RouteInv'
    BY <1>4, NoticeKeeps
  <2>2. UNCHANGED <<plan, written, shown>>
    BY <1>4 DEF Notice
  <2>3. WrittenInv' /\ ShownInv'
    BY <1>1, <2>2, WrittenStays, ShownStays DEF Talk
  <2>4. QED
    BY <1>1, <2>1, <2>3 DEF ConversationInv
<1>5. CASE UNCHANGED <<plan, written, shown, confirmed, route>> /\ air' \subseteq air
  <2>1. Talk'
    BY <1>1, <1>5, TalkStays
  <2>2. QED
    BY <1>1, <2>1 DEF ConversationInv, Talk
<1>6. ASSUME NEW m \in air, Lose(m)
      PROVE  UNCHANGED <<plan, written, shown, confirmed, route>> /\ air' \subseteq air
  BY <1>6 DEF Lose
<1>7. ASSUME Tick \/ (\E r \in Routes : StartTrace(r)) \/ PassTrace \/ ShowTrace
               \/ (\E c \in plan.calls : Ask(c)) \/ (\E a \in asked : Look(a)) \/ UNCHANGED vars
      PROVE  UNCHANGED <<plan, written, shown, confirmed, route>> /\ air' \subseteq air
  BY <1>7 DEF Tick, StartTrace, PassTrace, ShowTrace, Ask, Look, conversation, vars
<1>8. QED
  BY <1>2, <1>3, <1>4, <1>5, <1>6, <1>7, Zenon DEF Next

LEMMA ConversationHolds == Spec => []ConversationInv
<1>1. Init => ConversationInv
  BY ConversationBegins
<1>2. ConversationInv /\ [Next]_vars => ConversationInv'
  BY ConversationGoesOn
<1>3. QED
  BY <1>1, <1>2, PTL DEF Spec

(* Every packet in the air could be encoded and is made of bytes, attempts *)
(* and losses keep their bounds, only written attempts are acknowledged,   *)
(* and a learned path is a whole number of hashes (packet.go:182-210,      *)
(* ops.go:295-328, 966-1036).                                              *)
THEOREM PagesTypes == Spec => []TypeOK
<1>1. ConversationInv => TypeOK
  BY ConversationTypes
<1>2. QED
  BY <1>1, ConversationHolds, PTL

(* An attempt is acknowledged only when the reader was shown that text of  *)
(* that second and that attempt, for all plans, keys, ways and builds: the *)
(* checksum that comes back as an ACK, in a MULTIPART or with a path, and  *)
(* in an int of either size, is that of no other attempt (ops.go:480-494,  *)
(* 1043-1054, 1116-1133, 958-1036, 1418-1448).                             *)
THEOREM PagesAcknowledgeWhatWasRead == Spec => []AcknowledgedWasRead
<1>1. ConversationInv => AcknowledgedWasRead
  BY DEF ConversationInv, ConfirmedInv
<1>2. QED
  BY <1>1, ConversationHolds, PTL

(* A text is shown only when the keys of both sides belong together: equal *)
(* secrets are one pair of scalars, and nobody finds a scalar that is not  *)
(* his or that of the public key (keys.go:104-161, txtmsg.go:180-207,      *)
(* 256-274).                                                               *)
THEOREM PagesNeedTheKeys == Spec => []ReadOnlyWithItsKeys
<1>1. ConversationInv => ReadOnlyWithItsKeys
  BY SecretPairs DEF ConversationInv, PlaceInv, ShownInv, ReadOnlyWithItsKeys
<1>2. QED
  BY <1>1, ConversationHolds, PTL

(* A text that does not flood is on a way to the reader: the path and the  *)
(* hash size that an answer taught are those of a way (ops.go:295-328,     *)
(* 373-400, 966-1036).                                                     *)
THEOREM PagesFollowTheWay == Spec => []TextFollowsTheWay
<1>1. ASSUME ConversationInv
      PROVE  TextFollowsTheWay
  <2>1. PlaceInv /\ AirInv /\ plan \in Plans
    BY <1>1 DEF ConversationInv, PlaceInv
  <2>2. QED
    BY <2>1, ReaderGetsTexts, TextBelongsToWay DEF TextFollowsTheWay
<1>2. QED
  BY <1>1, ConversationHolds, PTL
=============================================================================
