------------------------------ MODULE Payloads ------------------------------
(***************************************************************************)
(* The payloads that DecodePayload of registry.go tells apart, beside      *)
(* those of DirectMessage: GRP_TXT (grptxt.go), GRP_DATA (grpdata.go), REQ *)
(* and RESPONSE (req.go), ANON_REQ (anonreq.go), TRACE (trace.go),         *)
(* MULTIPART (multipart.go) and CONTROL (control.go).                      *)
(*                                                                         *)
(* A payload is what stands in the clear (head) and, when it is sealed,    *)
(* the plaintext with the secret that its MAC fits; NoSecret is fitted by  *)
(* no MAC, and is what shorter slices than a key count for.  A text of     *)
(* characters is a sequence of numbers.                                    *)
(***************************************************************************)
EXTENDS DirectMessage

CONSTANT ChannelHashOf   \* ChannelHashOf[name]: the first byte of SHA256(secret)

PayloadReq       == 0
PayloadResponse  == 1
PayloadAdvert    == 4
PayloadGrpTxt    == 5
PayloadGrpData   == 6
PayloadAnonReq   == 7
PayloadControl   == 11
PayloadRawCustom == 15

NoSecret == {}

(* A MAC that fits nothing. *)
Broken == {"nobody"}

DeriveChannelSecret(name) == {name}

ChannelHash(secret) == ChannelHashOf[CHOOSE name \in secret : TRUE]

(* A caller that passes shared[:16]: the key of AES is right, that of the  *)
(* MAC is half zeros and fits nothing.                                     *)
FirstHalf(secret) == secret \union {"first 16 bytes"}

Clear(bytes) == [head |-> bytes, secret |-> NoSecret, plain |-> << >>]
Sealed(head, secret, plain) == [head |-> head, secret |-> secret, plain |-> Padded(plain)]

SizeOf(payload) ==
  Len(payload.head) + Len(payload.plain) +
    (IF payload.secret = NoSecret THEN 0 ELSE CipherMACSize)

From(seq, i) == SubSeq(seq, i, Len(seq))

Result(as, value) == [err |-> Nil, as |-> as, value |-> value]
Failure(err) == [err |-> err, as |-> "nothing", value |-> [raw |-> Clear(<< >>)]]

-----------------------------------------------------------------------------
(* GRP_TXT: "Sender: Text".  Two numbers stand for the characters of ": ". *)
Colon == 58
Blank == 32

GroupTextPlaintext(sender, text, ts) ==
  Uint32Bytes(ts) \o <<0>> \o sender \o <<Colon, Blank>> \o text

GroupTextPayload(secret, sender, text, ts) ==
  Sealed(<<ChannelHash(secret)>>, secret, GroupTextPlaintext(sender, text, ts))

(* Where strings.Index finds ": ". *)
Separators(body) == {i \in 1 .. Len(body) - 1 : body[i] = Colon /\ body[i + 1] = Blank}

GroupText(plain) ==
  LET body == TrimNuls(From(plain, 6))
      cuts == Separators(body)
      cut  == CHOOSE i \in cuts : \A j \in cuts : i <= j
  IN  [timestamp |-> Uint32At(plain, 1),
       txtType   |-> plain[5] \div 4,
       attempt   |-> plain[5] % 4,
       sender    |-> IF cuts = {} THEN << >> ELSE SubSeq(body, 1, cut - 1),
       text      |-> IF cuts = {} THEN body ELSE From(body, cut + 2)]

BadGroupError(secret, payload, least) ==
  IF SizeOf(payload) <= least                     THEN "PayloadTooShort"
  ELSE IF payload.head[1] # ChannelHash(secret)   THEN "ChannelHashMismatch"
  ELSE IF ~Opens(secret, payload)                 THEN "WrongSecret"
  ELSE Nil

GroupError(secret, payload, least) ==
  IF SizeOf(payload) < least                      THEN "PayloadTooShort"
  ELSE IF payload.head[1] # ChannelHash(secret)   THEN "ChannelHashMismatch"
  ELSE IF ~Opens(secret, payload)                 THEN "WrongSecret"
  ELSE Nil

DecodeGroupTextPayload(secret, payload) ==
  LET err == GroupError(secret, payload, 1 + CipherMACSize + CipherKeySize)
  IN  IF err # Nil THEN Failure(err) ELSE Result("GroupText", GroupText(payload.plain))

(* GRP_DATA: the length of the data is in the plaintext, so that the       *)
(* padding is not taken for data.                                          *)
GrpDataPayload(secret, dataType, data) ==
  Sealed(<<ChannelHash(secret)>>, secret,
         <<dataType % 256, dataType \div 256, Len(data)>> \o data)

BadGrpDataBytes(plain) == Len(plain) - 3
GrpDataBytes(plain) ==
  IF plain[3] > Len(plain) - 3 THEN Len(plain) - 3 ELSE plain[3]

DecodeGrpDataPayload(secret, payload) ==
  LET err   == GroupError(secret, payload, 1 + CipherMACSize)
      plain == payload.plain
  IN  IF err # Nil THEN Failure(err)
      ELSE IF Len(plain) < 3 THEN Failure("PlaintextTooShort")
      ELSE Result("GrpData",
             [dataType |-> Uint16At(plain, 1),
              data     |-> SubSeq(plain, 4, 3 + GrpDataBytes(plain))])

-----------------------------------------------------------------------------
(* REQ, RESPONSE, TXT_MSG and PATH share an envelope, that of              *)
(* DirectMessage.                                                          *)
PairPayload(secret, dest, src, plain) == Sealed(<<dest, src>>, secret, plain)

Pair(payload) ==
  [dest |-> payload.head[1], src |-> payload.head[2],
   secret |-> payload.secret, plain |-> payload.plain]

ReqPayload(secret, dest, src, reqType, data, ts) ==
  PairPayload(secret, dest, src, Uint32Bytes(ts) \o <<reqType>> \o data)

EnvelopeError(secret, payload) ==
  IF SizeOf(payload) < 2 + CipherMACSize THEN "PayloadTooShort"
  ELSE IF ~Opens(secret, payload)        THEN "WrongSecret"
  ELSE Nil

DecodeReqPayload(secret, payload) ==
  LET err  == EnvelopeError(secret, payload)
      data == From(payload.plain, 5)
  IN  IF err # Nil THEN Failure(err)
      ELSE IF Len(payload.plain) < 4 THEN Failure("PlaintextTooShort")
      ELSE Result("Req",
             [destHash  |-> payload.head[1],
              srcHash   |-> payload.head[2],
              timestamp |-> Uint32At(payload.plain, 1),
              reqType   |-> IF data = << >> THEN 0 ELSE data[1],
              data      |-> data])

DecodeResponsePayload(secret, payload) ==
  LET err == EnvelopeError(secret, payload)
  IN  IF err # Nil THEN Failure(err)
      ELSE Result("Response",
             [destHash |-> payload.head[1], srcHash |-> payload.head[2],
              data |-> payload.plain])

(* ANON_REQ carries the key of its sender, from which the recipient        *)
(* derives the secret.  A public key is its first byte and its owner.      *)
KeySize == 32
AnonHead(dest, senderKey) == <<dest>> \o senderKey

AnonReqPayload(secret, dest, senderKey, data, ts) ==
  Sealed(AnonHead(dest, senderKey), secret, Uint32Bytes(ts) \o data)

SenderKey(payload) == SubSeq(payload.head, 2, 1 + KeySize)

(* The secret is that of the recipient and the key in the payload.         *)
DecodeAnonReqPayload(secret, payload) ==
  IF SizeOf(payload) < 1 + KeySize + CipherMACSize THEN Failure("PayloadTooShort")
  ELSE IF ~Opens(secret, payload)                  THEN Failure("WrongSecret")
  ELSE IF Len(payload.plain) < 4                   THEN Failure("PlaintextTooShort")
  ELSE Result("AnonReq",
         [destHash  |-> payload.head[1],
          senderKey |-> SenderKey(payload),
          timestamp |-> Uint32At(payload.plain, 1),
          data      |-> From(payload.plain, 5)])

-----------------------------------------------------------------------------
(* ACK: a checksum. *)
DecodeAck(payload) ==
  IF Len(payload.head) < 4 THEN Failure("PayloadTooShort")
  ELSE Result("Ack", [crc |-> Uint32At(payload.head, 1)])

(* MULTIPART repeats an ACK.  The descriptor keeps four bits of remaining. *)
BadMultipartAckPayload(remaining, crc) ==
  Clear(<<remaining * 16 + PayloadAck>> \o Uint32Bytes(crc))
MultipartAckPayload(remaining, crc) ==
  Clear(<<((remaining * 16) % 256) + PayloadAck>> \o Uint32Bytes(crc))

DecodeMultipartPayload(payload) ==
  IF Len(payload.head) < 1 THEN Failure("PayloadTooShort")
  ELSE Result("Multipart",
         [remaining    |-> payload.head[1] \div 16,
          innerType    |-> payload.head[1] % 16,
          innerPayload |-> From(payload.head, 2)])

(* TRACE: tag, auth code, flags and the hashes of the route. *)
TracePayload(tag, authCode, flags, route) ==
  Clear(Uint32Bytes(tag) \o Uint32Bytes(authCode) \o <<flags>> \o route)

RouteHashes(flags, route) ==
  LET width == 2 ^ (flags % 4)
  IN  [i \in 1 .. Len(route) \div width |-> SubSeq(route, (i - 1) * width + 1, i * width)]

DecodeTracePayload(payload) ==
  LET bytes == payload.head
  IN  IF Len(bytes) < 9 THEN Failure("PayloadTooShort")
      ELSE Result("Trace",
             [tag         |-> Uint32At(bytes, 1),
              authCode    |-> Uint32At(bytes, 5),
              routeHashes |-> RouteHashes(bytes[9], From(bytes, 10))])

-----------------------------------------------------------------------------
(* CONTROL: a sub-type, four flags, and data. *)
SubDiscoverReq  == 8
SubDiscoverResp == 9

DiscoverReqPayload(typeFilter, tag, since, prefixOnly) ==
  Clear(<<SubDiscoverReq * 16 + (IF prefixOnly THEN 1 ELSE 0), typeFilter>>
          \o Uint32Bytes(tag) \o Uint32Bytes(since))

Signed8(byte) == IF byte >= 128 THEN byte - 256 ELSE byte

DiscoverReq(flags, data) ==
  Result("DiscoverReq",
    [prefixOnly |-> flags % 2 = 1,
     typeFilter |-> data[1],
     tag        |-> Uint32At(data, 2),
     since      |-> IF Len(data) >= 9 THEN Uint32At(data, 6) ELSE 0])

(* All of the key, or the first eight bytes of it, or what there is. *)
KeyPrefix(key) ==
  IF Len(key) >= KeySize THEN SubSeq(key, 1, KeySize)
  ELSE IF Len(key) >= 8 THEN SubSeq(key, 1, 8)
  ELSE key

DiscoverResp(flags, data) ==
  Result("DiscoverResp",
    [nodeType |-> flags % 16,
     snr      |-> Signed8(data[1]),
     tag      |-> Uint32At(data, 2),
     pubKey   |-> KeyPrefix(From(data, 6))])

(* A DISCOVER body that is too short is a Control without one, and no      *)
(* error.                                                                  *)
DecodeControlPayload(payload) ==
  LET flags == payload.head[1]
      data  == From(payload.head, 2)
      sub   == flags \div 16
  IN  IF Len(payload.head) < 1 THEN Failure("PayloadTooShort")
      ELSE IF sub = SubDiscoverReq /\ Len(data) >= 5  THEN DiscoverReq(flags, data)
      ELSE IF sub = SubDiscoverResp /\ Len(data) >= 5 THEN DiscoverResp(flags, data)
      ELSE Result("Control", [subType |-> sub, flags |-> flags, data |-> data])
=============================================================================
