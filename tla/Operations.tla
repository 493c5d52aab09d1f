------------------------------ MODULE Operations ------------------------------
(***************************************************************************)
(* The operations of ops.go, and CallJSON of call.go, through which pages  *)
(* and apps call them.                                                     *)
(*                                                                         *)
(* A JSON value is a record with one field that tells its kind: a number,  *)
(* micro (a number that is not whole, in millionths), a text that is no    *)
(* hex string, null, or a hex string of bytes, of a key, of a channel      *)
(* secret, of a payload or of a packet.  The arguments of a call are a     *)
(* sequence of them; a JSON text that is no array is left out, and so are  *)
(* the names of types and routes in the results.                           *)
(*                                                                         *)
(* What an operation takes from its surroundings is env: the second that   *)
(* time.Now returns, what rand.Reader returns, and the least number above  *)
(* those an int holds, which is half of UintModulus where an int has 32    *)
(* bits (TinyGo on wasm, gomobile on 32-bit phones) and beyond it          *)
(* elsewhere.                                                              *)
(***************************************************************************)
EXTENDS Payloads, ContentHash, Keys

CONSTANTS
  Nobody,        \* who signs what is not signed with the key of the advert
  UintModulus,   \* 2^32 in the code
  PublicBytes,   \* PublicBytes[k]: the 32 bytes of the public key k
  Checksum(_)    \* the number of an acknowledgement that TextAckCRC describes

ASSUME OperationsAssumption ==
  /\ UintModulus \in Nat \ {0} /\ UintModulus - 1 \in Word
  /\ \A k \in DOMAIN PublicBytes : PublicBytes[k] \in [1 .. KeySize -> Byte]
  /\ \A j, k \in DOMAIN PublicBytes : PublicBytes[j] = PublicBytes[k] => j = k

A == INSTANCE Advert WITH Key <- DOMAIN PublicBytes, TimestampModulus <- UintModulus

Hash(public) == PublicBytes[public][1]

PublicOf(bytes) == CHOOSE k \in DOMAIN PublicBytes : PublicBytes[k] = bytes

(* Conversions of Go. *)
Uint32(n) == n % UintModulus
BadUint16OfByte(n) == n % 256
Uint16Of(n) == n % 65536
ByteOf(n) == n % 256

(* int(u) of an unsigned number of 32 bits: negative when it does not fit. *)
BadIntUnsigned(env, n) == n
Int32Or64(env, n) == IF n < env.intLimit THEN n ELSE n - UintModulus

-----------------------------------------------------------------------------
(* JSON.  A byte that is no UTF-8 becomes the replacement character.       *)
Replacement == 4
InvalidByte == 5
Shown(text) == [i \in DOMAIN text |-> IF text[i] = InvalidByte THEN Replacement ELSE text[i]]

Null == [null |-> TRUE]
Number(n) == [number |-> n]
Text(t) == [text |-> t]
Bytes(b) == [bytes |-> b]

HexStrings == {"bytes", "key", "secret", "payload", "packet"}

Is(kind, value) == kind \in DOMAIN value
IsHex(value) == DOMAIN value \cap HexStrings # {} \/ value = Text(<< >>)

Holds(env, n) == n \in -env.intLimit .. env.intLimit - 1

(* A null is what the Go variable was before: empty, or 0. *)
Fits(env, kind, value) ==
  \/ value = Null
  \/ kind = "String" /\ (Is("text", value) \/ IsHex(value))
  \/ kind = "Hex" /\ IsHex(value)
  \/ kind = "Int" /\ Is("number", value) /\ Holds(env, value.number)
  \/ kind = "Float" /\ (Is("number", value) \/ Is("micro", value))

Argument(kind, value) ==
  CASE kind = "String" -> IF value = Null THEN Text(<< >>)
                          ELSE IF Is("text", value) THEN Text(Shown(value.text)) ELSE value
    [] kind = "Hex"    -> IF value \in {Null, Text(<< >>)} THEN Bytes(<< >>) ELSE value
    [] kind = "Int"    -> IF value = Null THEN 0 ELSE value.number
    [] kind = "Float"  -> IF value = Null THEN 0
                          ELSE IF Is("micro", value) THEN value.micro
                          ELSE 1000000 * value.number

Failed(why) == [error |-> why]

(* F(x) where x is evaluated once: TLC evaluates the argument of an        *)
(* operator wherever it is used when it looks for an enabled action.       *)
Of(F(_), x) == CHOOSE y \in {F(z) : z \in {x}} : TRUE

(* ParseOpArgs, and then Run of the operation. *)
WithArgs(env, raw, kinds, Run(_)) ==
  IF Len(raw) # Len(kinds)                              THEN Failed("ArgCount")
  ELSE IF \E i \in DOMAIN raw : ~Fits(env, kinds[i], raw[i]) THEN Failed("ArgType")
  ELSE Of(Run, [i \in DOMAIN raw |-> Argument(kinds[i], raw[i])])

-----------------------------------------------------------------------------
(* What the operations share. *)
LengthOf(payload) == IF Is("app", payload) THEN 100 + Len(payload.app) ELSE SizeOf(payload)

(* EncodePacket, of which the payload matters by its length. *)
Encoded(packet) ==
  Of(LAMBDA p :
       LET err == ValidateWire([p EXCEPT !.Payload = Zeros(LengthOf(p.Payload))])
       IN  IF err # Nil THEN Failed(err) ELSE [hex |-> [packet |-> Normalised(p)]],
     WithDefaultHashSize(packet))

PacketOf(route, type, size, path, payload) ==
  [Route |-> route, Type |-> type, Version |-> CurrentPayloadVer,
   TransportCodes |-> <<0, 0>>, PathHashSize |-> size, Path |-> path, Payload |-> payload]

Flood(type, payload) == Encoded(PacketOf(RouteFlood, type, DefaultPathHashSize, << >>, payload))

WithSecret(keys, Run(_)) ==
  Of(LAMBDA k : IF k.err # Ok THEN Failed(k.err) ELSE Run(k.secret), keys)

(* secret[:ChannelSecretLen] *)
ChannelSecretLen == 16
WithChannelSecret(arg, Run(_)) ==
  IF ~Is("secret", arg) \/ arg.size < ChannelSecretLen THEN Failed("SecretTooShort")
  ELSE Run(arg.secret)

(* A packet in a hex string: one of this model, or any bytes. *)
Received(arg) ==
  IF Is("packet", arg) THEN [err |-> Nil, packet |-> arg.packet]
  ELSE LET d == DecodePacket(arg.bytes)
       IN  [err |-> d.err, packet |-> [d.packet EXCEPT !.Payload = Clear(@)]]

PayloadIn(arg) == IF Is("payload", arg) THEN arg.payload ELSE Clear(arg.bytes)

(* Run of a decoder ends in an error or in the fields of its result. *)
Shows(decoded, Fields(_)) ==
  IF decoded.err # Nil THEN Failed(decoded.err) ELSE Fields(decoded.value)

-----------------------------------------------------------------------------
(* Channels. *)
GroupTextPacket(secret, sender, text, now) ==
  Flood(PayloadGrpTxt, GroupTextPayload(secret, sender, text, Uint32(now)))

GrpDataPacket(secret, dataType, data) ==
  IF Len(data) > 255 THEN Failed("DataTooLong")
  ELSE Flood(PayloadGrpData, GrpDataPayload(secret, Uint16Of(dataType), data))

encodeGroupText(env, raw) ==
  WithArgs(env, raw, <<"String", "String", "String">>, LAMBDA a :
    GroupTextPacket(DeriveChannelSecret(a[1].text), a[2].text, a[3].text, env.now))

encodeGroupTextSecret(env, raw) ==
  WithArgs(env, raw, <<"Hex", "String", "String">>, LAMBDA a :
    WithChannelSecret(a[1], LAMBDA s : GroupTextPacket(s, a[2].text, a[3].text, env.now)))

encodeGrpData(env, raw) ==
  WithArgs(env, raw, <<"String", "Int", "Hex">>, LAMBDA a :
    GrpDataPacket(DeriveChannelSecret(a[1].text), a[2], a[3].bytes))

encodeGrpDataSecret(env, raw) ==
  WithArgs(env, raw, <<"Hex", "Int", "Hex">>, LAMBDA a :
    WithChannelSecret(a[1], LAMBDA s : GrpDataPacket(s, a[2], a[3].bytes)))

opGroupTextResult(gt, secret) ==
  [sender |-> Shown(gt.sender), text |-> Shown(gt.text), timestamp |-> gt.timestamp,
   txtType |-> gt.txtType, attempt |-> gt.attempt, channelHash |-> ChannelHash(secret)]

ReadGroupText(secret, payload) ==
  Shows(DecodeGroupTextPayload(secret, payload), LAMBDA gt : opGroupTextResult(gt, secret))

decodeGroupText(env, raw) ==
  WithArgs(env, raw, <<"Hex", "String">>, LAMBDA a :
    ReadGroupText(DeriveChannelSecret(a[2].text), PayloadIn(a[1])))

decodeGroupTextSecret(env, raw) ==
  WithArgs(env, raw, <<"Hex", "Hex">>, LAMBDA a :
    WithChannelSecret(a[2], LAMBDA s : ReadGroupText(s, PayloadIn(a[1]))))

opGrpDataResult(payload, gd) ==
  [channelHash |-> payload.head[1], dataType |-> gd.dataType, dataHex |-> gd.data]

ReadGrpData(secret, payload) ==
  Shows(DecodeGrpDataPayload(secret, payload), LAMBDA gd : opGrpDataResult(payload, gd))

decodeGrpData(env, raw) ==
  WithArgs(env, raw, <<"Hex", "String">>, LAMBDA a :
    ReadGrpData(DeriveChannelSecret(a[2].text), PayloadIn(a[1])))

decodeGrpDataSecret(env, raw) ==
  WithArgs(env, raw, <<"Hex", "Hex">>, LAMBDA a :
    WithChannelSecret(a[2], LAMBDA s : ReadGrpData(s, PayloadIn(a[1]))))

-----------------------------------------------------------------------------
(* Direct texts.  The three forms of keys: a seed and its identity, an     *)
(* expanded key with the public key that belongs to it, and an older pair. *)
Flooding(size) == [route |-> RouteFlood, path |-> << >>, size |-> size]
BadAlong(path, size) == [route |-> RouteDirect, path |-> path, size |-> DefaultPathHashSize]
Along(path, size) == [route |-> RouteDirect, path |-> path, size |-> size]

(* directTextPacketWithRoute: the secret, who writes to whom, what, and on *)
(* which way.                                                              *)
DirectTextPacket(secret, mine, peer, text, ts, attempt, way) ==
  IF way.size \notin 1 .. 3 THEN Failed("UnsupportedPathHashSize")
  ELSE Encoded(PacketOf(way.route, PayloadTxtMsg, way.size, way.path,
         PairPayload(secret, Hash(peer), Hash(mine),
           DirectTextPlaintext(text, Flags(0, ByteOf(attempt)), Uint32(ts)))))

DirectTextPacketFromIdentity(seed, peer, text, ts, attempt, way) ==
  WithSecret(identitySharedSecret(seed, peer), LAMBDA s :
    DirectTextPacket(s, IdentityFromSeed(seed.key).PublicKey, peer.key, text, ts, attempt, way))

DirectTextPacketFromExpanded(expanded, mine, peer, text, ts, attempt, way) ==
  WithSecret(expandedIdentityContext(expanded, mine, peer), LAMBDA s :
    DirectTextPacket(s, mine.key, peer.key, text, ts, attempt, way))

encodeDirectText(env, raw) ==
  WithArgs(env, raw, <<"String", "String", "String">>, LAMBDA a :
    WithSecret(keysAndSecret(a[1], a[2]), LAMBDA s :
      DirectTextPacket(s, PublicKeyFromPrivate(a[1]), a[2].key, a[3].text, env.now, 0,
                       Flooding(DefaultPathHashSize))))

encodeDirectTextIdentity(env, raw) ==
  WithArgs(env, raw, <<"Hex", "Hex", "String", "Int", "Int">>, LAMBDA a :
    DirectTextPacketFromIdentity(a[1], a[2], a[3].text, a[4], a[5],
                                 Flooding(DefaultPathHashSize)))

encodeDirectTextIdentityPath(env, raw) ==
  WithArgs(env, raw, <<"Hex", "Hex", "String", "Int", "Int", "Hex", "Int">>, LAMBDA a :
    DirectTextPacketFromIdentity(a[1], a[2], a[3].text, a[4], a[5],
                                 Along(a[6].bytes, a[7])))

encodeDirectTextExpanded(env, raw) ==
  WithArgs(env, raw, <<"Hex", "Hex", "Hex", "String", "Int", "Int">>, LAMBDA a :
    DirectTextPacketFromExpanded(a[1], a[2], a[3], a[4].text, a[5], a[6],
                                 Flooding(DefaultPathHashSize)))

encodeDirectTextExpandedPath(env, raw) ==
  WithArgs(env, raw, <<"Hex", "Hex", "Hex", "String", "Int", "Int", "Hex", "Int">>, LAMBDA a :
    DirectTextPacketFromExpanded(a[1], a[2], a[3], a[4].text, a[5], a[6],
                                 Along(a[7].bytes, a[8])))

directTextResult(dt) ==
  [destHash |-> dt.DestHash, srcHash |-> dt.SrcHash, text |-> Shown(dt.Text),
   timestamp |-> dt.Timestamp, txtType |-> dt.TxtType, attempt |-> dt.Attempt]

ReadDirectText(keys, payload) ==
  WithSecret(keys, LAMBDA s :
    LET d == DecodeDirectTextPayload(s, Pair(payload))
    IN  IF d.err # Nil THEN Failed(d.err) ELSE directTextResult(d.text))

decodeDirectText(env, raw) ==
  WithArgs(env, raw, <<"Hex", "String", "String">>, LAMBDA a :
    ReadDirectText(keysAndSecret(a[2], a[3]), PayloadIn(a[1])))

decodeDirectTextExpanded(env, raw) ==
  WithArgs(env, raw, <<"Hex", "String", "String">>, LAMBDA a :
    ReadDirectText(SharedSecretFromExpanded(a[2], a[3]), PayloadIn(a[1])))

decodeDirectTextIdentity(env, raw) ==
  WithArgs(env, raw, <<"Hex", "String", "String">>, LAMBDA a :
    ReadDirectText(identitySharedSecret(a[2], a[3]), PayloadIn(a[1])))

-----------------------------------------------------------------------------
(* Acknowledgements: an ACK, a MULTIPART that repeats it, or the extra of  *)
(* a returned path.                                                        *)
AckNumber(timestamp, attempt, text, public) ==
  Checksum(TextAckCRC(Uint32(timestamp), ByteOf(attempt), text, PublicBytes[public]))

AckPacket(crc) == Flood(PayloadAck, Clear(Uint32Bytes(Uint32(crc))))

encodeAck(env, raw) == WithArgs(env, raw, <<"Int">>, LAMBDA a : AckPacket(a[1]))

encodeTextAck(env, raw) ==
  WithArgs(env, raw, <<"Int", "Int", "String", "Hex">>, LAMBDA a :
    IF ~HasBytes(a[4], KeySize) THEN Failed("KeySize")
    ELSE AckPacket(AckNumber(a[1], a[2], a[3].text, a[4].key)))

(* A key of another length than 32 bytes is no error here, and not used.   *)
textAckCrc(env, raw) ==
  WithArgs(env, raw, <<"Int", "Int", "String", "Hex">>, LAMBDA a :
    [crc |-> Int32Or64(env, AckNumber(a[1], a[2], a[3].text, a[4].key))])

encodeMultipartAck(env, raw) ==
  WithArgs(env, raw, <<"Int", "Int">>, LAMBDA a :
    Encoded(PacketOf(RouteDirect, PayloadMultipart, DefaultPathHashSize, << >>,
                     MultipartAckPayload(ByteOf(a[1]), Uint32(a[2])))))

(* PathTextAckReturnPacketFromIdentity and its counterpart: the checksum   *)
(* is over the peer's public key, since the peer has written the text.     *)
PathTextAck(env, secret, mine, peer, timestamp, attempt, text, path, size) ==
  LET err == PathReturnError(path, size)
      ack == Uint32Bytes(AckNumber(timestamp, attempt, text, peer))
  IN  IF err # Nil THEN Failed(err)
      ELSE Encoded(PacketOf(RouteFlood, PayloadPath, size, << >>,
             PairPayload(secret, Hash(peer), Hash(mine),
               PathPlaintext(path, size, PayloadAck, AckExtra(ack, env.random)))))

encodePathTextAckIdentity(env, raw) ==
  WithArgs(env, raw, <<"Hex", "Hex", "Int", "Int", "String", "Hex", "Int">>, LAMBDA a :
    WithSecret(identitySharedSecret(a[1], a[2]), LAMBDA s :
      PathTextAck(env, s, IdentityFromSeed(a[1].key).PublicKey, a[2].key,
                  a[3], a[4], a[5].text, a[6].bytes, a[7])))

encodePathTextAckExpanded(env, raw) ==
  WithArgs(env, raw, <<"Hex", "Hex", "Hex", "Int", "Int", "String", "Hex", "Int">>, LAMBDA a :
    WithSecret(expandedIdentityContext(a[1], a[2], a[3]), LAMBDA s :
      PathTextAck(env, s, a[2].key, a[3].key, a[4], a[5], a[6].text, a[7].bytes, a[8])))

decodeAck(env, raw) ==
  WithArgs(env, raw, <<"Hex">>, LAMBDA a :
    Shows(DecodeAck(PayloadIn(a[1])), LAMBDA v : [crc |-> Int32Or64(env, v.crc)]))

decodeMultipart(env, raw) ==
  WithArgs(env, raw, <<"Hex">>, LAMBDA a :
    Shows(DecodeMultipartPayload(PayloadIn(a[1])), LAMBDA v :
      LET ack == DecodeAck(Clear(v.innerPayload))
      IN  IF v.innerType = PayloadAck /\ ack.err = Nil
          THEN [remaining |-> v.remaining, innerTypeCode |-> v.innerType,
                innerPayloadHex |-> v.innerPayload, ackCrc |-> Int32Or64(env, ack.value.crc)]
          ELSE [remaining |-> v.remaining, innerTypeCode |-> v.innerType,
                innerPayloadHex |-> v.innerPayload]))

(* The checksum in a returned path, 0 without one.  The hash size of the   *)
(* path is not among the fields.                                           *)
AckCrcIn(env, rp) ==
  IF ConfirmedBy(rp) = {} THEN 0 ELSE Int32Or64(env, Uint32At(rp.Extra, 1))

ReadPath(keys, payload, Fields(_)) ==
  WithSecret(keys, LAMBDA s :
    LET d == DecodePathPayload(s, Pair(payload))
    IN  IF d.err # Nil THEN Failed(d.err) ELSE Fields(d.path))

PathFields(env, rp) ==
  [destHash |-> rp.DestHash, srcHash |-> rp.SrcHash, path |-> rp.Path,
   extraType |-> rp.ExtraType, extra |-> rp.Extra, ackCrc |-> AckCrcIn(env, rp)]

decodePathIdentity(env, raw) ==
  WithArgs(env, raw, <<"Hex", "String", "String">>, LAMBDA a :
    ReadPath(identitySharedSecret(a[2], a[3]), PayloadIn(a[1]), LAMBDA rp : PathFields(env, rp)))

decodePathExpanded(env, raw) ==
  WithArgs(env, raw, <<"Hex", "String", "String">>, LAMBDA a :
    ReadPath(SharedSecretFromExpanded(a[2], a[3]), PayloadIn(a[1]),
             LAMBDA rp : PathFields(env, rp)))

(* PathHashes is one string for every byte, whatever the hash size.        *)
decodePath(env, raw) ==
  WithArgs(env, raw, <<"Hex", "String", "String">>, LAMBDA a :
    ReadPath(keysAndSecret(a[2], a[3]), PayloadIn(a[1]), LAMBDA rp :
      [destHash |-> rp.DestHash, srcHash |-> rp.SrcHash,
       path |-> [i \in DOMAIN rp.Path |-> <<rp.Path[i]>>],
       extraType |-> rp.ExtraType, extraHex |-> rp.Extra]))

-----------------------------------------------------------------------------
(* Requests. *)
encodeReq(env, raw) ==
  WithArgs(env, raw, <<"String", "String", "Int", "Hex">>, LAMBDA a :
    WithSecret(keysAndSecret(a[1], a[2]), LAMBDA s :
      Flood(PayloadReq,
        ReqPayload(s, Hash(a[2].key), Hash(PublicKeyFromPrivate(a[1])), ByteOf(a[3]),
                   a[4].bytes, Uint32(env.now)))))

decodeReq(env, raw) ==
  WithArgs(env, raw, <<"Hex", "String", "String">>, LAMBDA a :
    WithSecret(keysAndSecret(a[2], a[3]), LAMBDA s :
      Shows(DecodeReqPayload(s, PayloadIn(a[1])), LAMBDA v :
        [destHash |-> v.destHash, srcHash |-> v.srcHash, timestamp |-> v.timestamp,
         reqType |-> v.reqType, dataHex |-> v.data])))

decodeResponse(env, raw) ==
  WithArgs(env, raw, <<"Hex", "String", "String">>, LAMBDA a :
    WithSecret(keysAndSecret(a[2], a[3]), LAMBDA s :
      Shows(DecodeResponsePayload(s, PayloadIn(a[1])), LAMBDA v :
        [destHash |-> v.destHash, srcHash |-> v.srcHash, dataHex |-> v.data])))

encodeAnonReq(env, raw) ==
  WithArgs(env, raw, <<"Hex", "String", "Hex">>, LAMBDA a :
    WithSecret(keysAndSecret(a[2], a[1]), LAMBDA s :
      Flood(PayloadAnonReq,
        AnonReqPayload(s, Hash(a[1].key), PublicBytes[PublicKeyFromPrivate(a[2])],
                       a[3].bytes, Uint32(env.now)))))

(* The secret comes from the key in the payload. *)
decodeAnonReq(env, raw) ==
  WithArgs(env, raw, <<"Hex", "String">>, LAMBDA a :
    LET payload == PayloadIn(a[1])
    IN  IF SizeOf(payload) < 1 + KeySize + CipherMACSize THEN Failed("PayloadTooShort")
        ELSE WithSecret(LegacySecret(a[2], HexKey(PublicOf(SenderKey(payload)))), LAMBDA s :
          Shows(DecodeAnonReqPayload(s, payload), LAMBDA v :
            [destHash |-> v.destHash, senderPubKey |-> HexKey(PublicOf(v.senderKey)),
             timestamp |-> v.timestamp, dataHex |-> v.data])))

-----------------------------------------------------------------------------
(* Discovery, traces, and packets as they are. *)
encodeDiscoverReq(env, raw) ==
  WithArgs(env, raw, <<"Int", "Int", "Int", "Int">>, LAMBDA a :
    Flood(PayloadControl,
      DiscoverReqPayload(ByteOf(a[1]), Uint32(a[2]), Uint32(a[3]), a[4] # 0)))

(* The tag of a response is not among the fields. *)
ControlBody(env, decoded) ==
  LET v == decoded.value
  IN  CASE decoded.as = "DiscoverReq"  ->
             [discoverTag |-> Int32Or64(env, v.tag), discoverTypeFilter |-> v.typeFilter,
              discoverSince |-> Int32Or64(env, v.since)]
        [] decoded.as = "DiscoverResp" ->
             [discoverNodeType |-> v.nodeType, discoverSNR |-> v.snr, discoverPubKey |-> v.pubKey]
        [] OTHER -> << >>

decodeControl(env, raw) ==
  WithArgs(env, raw, <<"Hex">>, LAMBDA a :
    LET payload == PayloadIn(a[1])
        decoded == DecodeControlPayload(payload)
    IN  IF decoded.err # Nil THEN Failed(decoded.err)
        ELSE [subType |-> payload.head[1] \div 16, flags |-> payload.head[1],
              dataHex |-> From(payload.head, 2)] @@ ControlBody(env, decoded))

TracePacket(tag, authCode, flags, route) ==
  Encoded(PacketOf(RouteDirect, PayloadTrace, 1, << >>,
                   TracePayload(Uint32(tag), Uint32(authCode), ByteOf(flags), route)))

encodeTrace(env, raw) ==
  WithArgs(env, raw, <<"Int", "Int", "Int", "Hex">>, LAMBDA a :
    TracePacket(a[1], a[2], a[3], a[4].bytes))

BadTraceSNRs(path) == path
TraceSNRs(path) == [i \in DOMAIN path |-> Signed8(path[i])]

(* This decoder takes a packet.  SNRs are in quarters of a dB. *)
decodeTrace(env, raw) ==
  WithArgs(env, raw, <<"Hex">>, LAMBDA a :
    LET r == Received(a[1])
    IN  IF r.err # Nil THEN Failed(r.err)
        ELSE IF r.packet.Type # PayloadTrace THEN Failed("NoTrace")
        ELSE Shows(DecodeTracePayload(r.packet.Payload), LAMBDA v :
          [tag |-> Int32Or64(env, v.tag), authCode |-> Int32Or64(env, v.authCode),
           flags |-> r.packet.Payload.head[9], hashWidth |-> 2 ^ (r.packet.Payload.head[9] % 4),
           routeHashes |-> v.routeHashes, snrs |-> TraceSNRs(r.packet.Path),
           hopCount |-> Len(r.packet.Path)]))

encodeRaw(env, raw) ==
  WithArgs(env, raw, <<"Int", "Int", "Int", "Int", "Hex">>, LAMBDA a :
    Encoded([PacketOf(ByteOf(a[1]), ByteOf(a[2]), a[4], << >>, PayloadIn(a[5]))
               EXCEPT !.Version = ByteOf(a[3])]))

decodeEnvelope(env, raw) ==
  WithArgs(env, raw, <<"Hex">>, LAMBDA a :
    LET r == Received(a[1])
        p == r.packet
        fields ==
          [routeCode |-> p.Route, typeCode |-> p.Type, version |-> p.Version,
           pathHashSize |-> p.PathHashSize, hopCount |-> HopCount(p), hops |-> Hops(p),
           payloadHex |-> [payload |-> p.Payload], isTransport |-> IsTransport(p.Route)]
    IN  IF r.err # Nil THEN Failed(r.err)
        ELSE IF IsTransport(p.Route) THEN [transportCodes |-> p.TransportCodes] @@ fields
        ELSE fields)

(* The digest of a sealed payload is as good as the payload itself.        *)
ContentHashOf(p) ==
  <<ContentDigest([p EXCEPT !.Payload = @.head]), p.Payload.secret, p.Payload.plain>>

computeContentHash(env, raw) ==
  WithArgs(env, raw, <<"Hex">>, LAMBDA a :
    LET r == Received(a[1])
    IN  IF r.err # Nil THEN Failed(r.err) ELSE [hash |-> ContentHashOf(r.packet)])

-----------------------------------------------------------------------------
(* Adverts.  The operation gives no timestamp, and a signature that is not *)
(* empty is that of somebody else over something else.                     *)
SignatureFrom(bytes) ==
  IF \A i \in DOMAIN bytes : bytes[i] = 0 THEN A!Unsigned ELSE [by |-> Nobody, of |-> bytes]

AdvertNodeChat == 1

encodeAdvert(env, raw) ==
  WithArgs(env, raw, <<"Hex", "Hex", "String", "Int", "Float", "Float">>, LAMBDA a :
    IF ~HasBytes(a[1], KeySize) THEN Failed("KeySize")
    ELSE Flood(PayloadAdvert,
           A!EncodeAdvertPayload(
             [PublicKey |-> a[1].key, Timestamp |-> A!NoTime, Signature |-> SignatureFrom(a[2].bytes),
              NodeType |-> AdvertNodeChat, HasGPS |-> a[4] # 0, Lat |-> a[5], Lon |-> a[6],
              HasFeat1 |-> FALSE, Feature1 |-> 0, HasFeat2 |-> FALSE, Feature2 |-> 0,
              Name |-> a[3].text], env.now)))

AdvertFields(adv) ==
  [publicKey |-> HexKey(adv.PublicKey), timestamp |-> adv.Timestamp, name |-> Shown(adv.Name),
   nodeType |-> adv.NodeType, hasGPS |-> adv.HasGPS, sigVerified |-> adv.Signature # A!Unsigned]
    @@ (IF adv.HasGPS THEN [lat |-> adv.Lat, lon |-> adv.Lon] ELSE << >>)
    @@ (IF adv.HasFeat1 THEN [feat1 |-> adv.Feature1] ELSE << >>)
    @@ (IF adv.HasFeat2 THEN [feat2 |-> adv.Feature2] ELSE << >>)

decodeAdvert(env, raw) ==
  WithArgs(env, raw, <<"Hex">>, LAMBDA a :
    LET payload == PayloadIn(a[1])
        err     == A!DecodeAdvertError(payload)
    IN  IF err # Nil THEN Failed(err) ELSE AdvertFields(A!DecodedAdvert(payload)))

(* Keys and secrets. *)
generateKeypair(env, raw) == WithArgs(env, raw, << >>, LAMBDA a : Generate(env.fresh))

deriveChannelSecret(env, raw) ==
  WithArgs(env, raw, <<"String">>, LAMBDA a :
    [hex |-> [secret |-> DeriveChannelSecret(a[1].text), size |-> ChannelSecretLen]])

sharedSecret(env, raw) ==
  WithArgs(env, raw, <<"String", "String">>, LAMBDA a :
    WithSecret(LegacySecret(a[1], a[2]), LAMBDA s : [hex |-> [secret |-> s, size |-> 32]]))

-----------------------------------------------------------------------------
(* CallJSON: the operation of that name, if there is one. *)
CallJSON(env, name, raw) ==
  CASE name = "encodeGroupText"              -> encodeGroupText(env, raw)
    [] name = "encodeGroupTextSecret"        -> encodeGroupTextSecret(env, raw)
    [] name = "encodeGrpData"                -> encodeGrpData(env, raw)
    [] name = "encodeGrpDataSecret"          -> encodeGrpDataSecret(env, raw)
    [] name = "encodeDirectText"             -> encodeDirectText(env, raw)
    [] name = "encodeDirectTextIdentity"     -> encodeDirectTextIdentity(env, raw)
    [] name = "encodeDirectTextIdentityPath" -> encodeDirectTextIdentityPath(env, raw)
    [] name = "encodeDirectTextExpanded"     -> encodeDirectTextExpanded(env, raw)
    [] name = "encodeDirectTextExpandedPath" -> encodeDirectTextExpandedPath(env, raw)
    [] name = "encodeAdvert"                 -> encodeAdvert(env, raw)
    [] name = "encodeAck"                    -> encodeAck(env, raw)
    [] name = "encodeTextAck"                -> encodeTextAck(env, raw)
    [] name = "encodePathTextAckIdentity"    -> encodePathTextAckIdentity(env, raw)
    [] name = "encodePathTextAckExpanded"    -> encodePathTextAckExpanded(env, raw)
    [] name = "encodeReq"                    -> encodeReq(env, raw)
    [] name = "encodeAnonReq"                -> encodeAnonReq(env, raw)
    [] name = "encodeDiscoverReq"            -> encodeDiscoverReq(env, raw)
    [] name = "encodeTrace"                  -> encodeTrace(env, raw)
    [] name = "encodeMultipartAck"           -> encodeMultipartAck(env, raw)
    [] name = "encodeRaw"                    -> encodeRaw(env, raw)
    [] name = "computeContentHash"           -> computeContentHash(env, raw)
    [] name = "decodeEnvelope"               -> decodeEnvelope(env, raw)
    [] name = "decodeGroupText"              -> decodeGroupText(env, raw)
    [] name = "decodeGroupTextSecret"        -> decodeGroupTextSecret(env, raw)
    [] name = "decodeDirectText"             -> decodeDirectText(env, raw)
    [] name = "decodeDirectTextExpanded"     -> decodeDirectTextExpanded(env, raw)
    [] name = "decodeDirectTextIdentity"     -> decodeDirectTextIdentity(env, raw)
    [] name = "decodePathIdentity"           -> decodePathIdentity(env, raw)
    [] name = "decodePathExpanded"           -> decodePathExpanded(env, raw)
    [] name = "textAckCrc"                   -> textAckCrc(env, raw)
    [] name = "decodeAdvert"                 -> decodeAdvert(env, raw)
    [] name = "decodeAck"                    -> decodeAck(env, raw)
    [] name = "decodeGrpData"                -> decodeGrpData(env, raw)
    [] name = "decodeGrpDataSecret"          -> decodeGrpDataSecret(env, raw)
    [] name = "decodeReq"                    -> decodeReq(env, raw)
    [] name = "decodeResponse"               -> decodeResponse(env, raw)
    [] name = "decodePath"                   -> decodePath(env, raw)
    [] name = "decodeAnonReq"                -> decodeAnonReq(env, raw)
    [] name = "decodeControl"                -> decodeControl(env, raw)
    [] name = "decodeTrace"                  -> decodeTrace(env, raw)
    [] name = "decodeMultipart"              -> decodeMultipart(env, raw)
    [] name = "generateKeypair"              -> generateKeypair(env, raw)
    [] name = "deriveChannelSecret"          -> deriveChannelSecret(env, raw)
    [] name = "sharedSecret"                 -> sharedSecret(env, raw)
    [] OTHER                                 -> Failed("UnknownOp")

IsError(result) == "error" \in DOMAIN result
===============================================================================
