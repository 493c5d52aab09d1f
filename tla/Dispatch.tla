------------------------------ MODULE Dispatch ------------------------------
(***************************************************************************)
(* An application that reads what it receives with DecodePayload           *)
(* (registry.go).                                                          *)
(*                                                                         *)
(* It keeps every packet, and tries it again as it comes to know more      *)
(* channels and peers, and registers decoders of its own: a packet that is *)
(* opaque today may be read tomorrow, and a packet that one secret does    *)
(* not open may be for another one with the same hash byte.  What its      *)
(* peers write they build with the packet functions of the library; a      *)
(* radio may cut the end of a payload off, which the frame does not tell.  *)
(***************************************************************************)
EXTENDS Payloads

CONSTANTS
  Me,         \* the identity of the application
  KeyOf,      \* KeyOf[n]: the public key of identity n, 32 bytes
  Messages,   \* what peers write
  Decoders,   \* the body decoders that the application may register
  MaxSent,    \* bound: messages written in one behaviour
  MaxCut      \* bound: bytes missing at the end of a payload

Identity == DOMAIN KeyOf
Channel  == DOMAIN ChannelHashOf

-----------------------------------------------------------------------------
(* What peers can write, by the type of the payload: the arguments of its  *)
(* builder.  The appdata of an advert is any bytes, since SignAdvertPayload *)
(* takes any, and need not say what it promises.                           *)
ToChannel ==
  [type : {PayloadGrpTxt}, channel : Channel, sender : Seq(Byte), text : Seq(Byte),
   ts : Word] \union
  [type : {PayloadGrpData}, channel : Channel, dataType : Uint16, data : Seq(Byte)]

ToPeer ==
  [type : {PayloadTxtMsg}, from : Identity, to : Identity, text : Seq(Byte),
   attempt : Nat, ts : Word] \union
  [type : {PayloadReq}, from : Identity, to : Identity, reqType : Byte,
   data : Seq(Byte), ts : Word] \union
  [type : {PayloadResponse}, from : Identity, to : Identity, data : Seq(Byte)] \union
  [type : {PayloadPath}, from : Identity, to : Identity, path : Seq(Byte), size : Nat] \union
  [type : {PayloadAnonReq}, from : Identity, to : Identity, data : Seq(Byte), ts : Word]

(* A DISCOVER response has a key, or the first eight bytes of one.         *)
OfControl ==
  [type : {PayloadControl}, sub : {SubDiscoverReq}, typeFilter : Byte, tag : Word,
   since : Word, prefixOnly : BOOLEAN] \union
  [type : {PayloadControl}, sub : {SubDiscoverResp}, nodeType : 0 .. 15, snr : -128 .. 127,
   tag : Word, pubKey : {key \in Seq(Byte) : Len(key) \in {8, KeySize}}] \union
  [type : {PayloadControl}, sub : 0 .. 15 \ {SubDiscoverReq, SubDiscoverResp},
   data : Seq(Byte)]

InTheClear ==
  [type : {PayloadAck}, crc : Word] \union
  [type : {PayloadAdvert}, from : Identity, ts : Word, signed : BOOLEAN,
   appdata : Seq(Byte)] \union
  {m \in [type : {PayloadTrace}, tag : Word, authCode : Word, flags : Byte,
          hops : Seq(Seq(Byte))] :
     \A i \in DOMAIN m.hops : Len(m.hops[i]) = 2 ^ (m.flags % 4)} \union
  [type : {PayloadMultipart}, remaining : Byte, crc : Word] \union
  [type : {PayloadRawCustom}, data : Seq(Byte)]

Message == ToChannel \union ToPeer \union OfControl \union InTheClear

Decoder == [map : {"RequestDecoders", "ResponseDecoders", "ControlDecoders", "CustomDecoders"},
            key : Byte, accepts : BOOLEAN]

(* Identities are as different as their keys, and neither a channel nor    *)
(* "nobody", which fits no secret.                                         *)
ASSUME DispatchAssumption ==
  /\ Me \in Identity
  /\ \A n \in Identity : KeyOf[n] \in [1 .. KeySize -> Byte]
  /\ \A n, o \in Identity : KeyOf[n] = KeyOf[o] => n = o
  /\ \A name \in Channel : ChannelHashOf[name] \in Byte
  /\ Identity \intersect Channel = {} /\ "nobody" \notin Identity \union Channel
  /\ Messages \subseteq Message
  /\ Decoders \subseteq Decoder
  /\ MaxSent \in Nat
  /\ MaxCut \in Nat

(* ADVERT: the functions of advert.go, for the keys of 32 bytes. *)
A == INSTANCE Advert
       WITH Key <- [1 .. KeySize -> Byte], Nobody <- << >>, TimestampModulus <- 256 * 16777216

VARIABLES
  sent,      \* the messages written
  store,     \* the packets received, each with the message it comes from
  held,      \* the secrets that the application has
  registry,  \* the body decoders that it has registered
  read       \* what it has read, and of which packet

vars == <<sent, store, held, registry, read>>

-----------------------------------------------------------------------------
(* Writing: the builders of each type. *)
Hash(n) == KeyOf[n][1]

PairSecret(m) == SharedSecret(m.from, m.to)

AdvertOf(m) ==
  LET plain == [pub |-> KeyOf[m.from], ts |-> m.ts, sig |-> A!Unsigned, app |-> m.appdata]
  IN  IF m.signed THEN A!SignAdvertPayload(plain, KeyOf[m.from]) ELSE plain

(* A signature is no number; all of it stands in each of its 64 bytes.     *)
SignatureAt == KeySize + 5 .. KeySize + 68
AdvertBytes(adv) ==
  adv.pub \o Uint32Bytes(adv.ts) \o [i \in 1 .. 64 |-> adv.sig] \o adv.app

BadRegistered(reg, map, key) == {d \in reg : d.map = map}
Registered(reg, map, key) == {d \in reg : d.map = map /\ d.key = key}

PayloadOf(m) ==
  CASE m.type = PayloadAck       -> Clear(Uint32Bytes(m.crc))
    [] m.type = PayloadAdvert    -> Clear(AdvertBytes(AdvertOf(m)))
    [] m.type = PayloadGrpTxt    ->
         GroupTextPayload(DeriveChannelSecret(m.channel), m.sender, m.text, m.ts)
    [] m.type = PayloadGrpData   ->
         GrpDataPayload(DeriveChannelSecret(m.channel), m.dataType, m.data)
    [] m.type = PayloadTxtMsg    ->
         PairPayload(PairSecret(m), Hash(m.to), Hash(m.from),
                     DirectTextPlaintext(m.text, Flags(0, m.attempt), m.ts))
    [] m.type = PayloadReq       ->
         ReqPayload(PairSecret(m), Hash(m.to), Hash(m.from), m.reqType, m.data, m.ts)
    [] m.type = PayloadResponse  ->
         PairPayload(PairSecret(m), Hash(m.to), Hash(m.from), m.data)
    [] m.type = PayloadPath      ->
         PairPayload(PairSecret(m), Hash(m.to), Hash(m.from),
                     PathPlaintext(m.path, m.size, 0, << >>))
    [] m.type = PayloadAnonReq   ->
         AnonReqPayload(PairSecret(m), Hash(m.to), KeyOf[m.from], m.data, m.ts)
    [] m.type = PayloadTrace     ->
         TracePayload(m.tag, m.authCode, m.flags, FlattenSeq(m.hops))
    [] m.type = PayloadMultipart -> MultipartAckPayload(m.remaining, m.crc)
    [] m.type = PayloadControl   ->
         CASE m.sub = SubDiscoverReq  ->
                DiscoverReqPayload(m.typeFilter, m.tag, m.since, m.prefixOnly)
           [] m.sub = SubDiscoverResp ->
                Clear(<<SubDiscoverResp * 16 + m.nodeType, m.snr % 256>>
                        \o Uint32Bytes(m.tag) \o m.pubKey)
           [] OTHER -> Clear(<<m.sub * 16>> \o m.data)
    [] m.type = PayloadRawCustom -> Clear(m.data)

WriteError(m) ==
  IF m.type = PayloadPath /\ PathReturnError(m.path, m.size) # Nil
  THEN PathReturnError(m.path, m.size)
  ELSE IF m.type = PayloadGrpData /\ Len(m.data) > 255 THEN "DataTooLong"
  ELSE IF SizeOf(PayloadOf(m)) > MaxPayloadBytes        THEN "ErrPayloadTooLong"
  ELSE Nil

-----------------------------------------------------------------------------
(* Reading. *)
Raw(p) == Result("Raw", [raw |-> p.payload])

AdvertIn(bytes) ==
  [pub |-> SubSeq(bytes, 1, KeySize), ts |-> Uint32At(bytes, KeySize + 1),
   sig |-> bytes[KeySize + 5], app |-> From(bytes, KeySize + 69)]

DecodeAdvert(payload) ==
  LET adv == AdvertIn(payload.head)
      err == A!DecodeAdvertError(adv)
  IN  IF Len(payload.head) < KeySize + 68 THEN Failure("ErrAdvertTooShort")
      ELSE IF err # Nil                   THEN Failure(err)
      ELSE Result("Advert", A!DecodedAdvert(adv))

(* A registered decoder takes the body, or fails. *)
Body(reg, map, key, body, otherwise) ==
  LET decoders == Registered(reg, map, key)
      decoder  == CHOOSE d \in decoders : TRUE
  IN  IF decoders = {} THEN otherwise
      ELSE IF decoder.accepts
      THEN Result("Decoded", [map |-> map, key |-> decoder.key, body |-> body])
      ELSE Failure("BodyDecoder")

DecodeReq(p, ctx) ==
  LET r == DecodeReqPayload(ctx.shared16, p.payload)
  IN  IF r.err = Nil /\ r.value.data # << >>
      THEN Body(ctx.registry, "RequestDecoders", r.value.reqType, r.value.data, r)
      ELSE r

DecodeControl(p, ctx) ==
  LET r == DecodeControlPayload(p.payload)
  IN  IF r.as = "Control"
      THEN Body(ctx.registry, "ControlDecoders", r.value.subType, r.value.data, r)
      ELSE r

DecodeText(p, ctx) ==
  LET d == DecodeDirectTextPayload(ctx.shared16, Pair(p.payload))
  IN  IF d.err # Nil THEN Failure(d.err) ELSE Result("DirectText", d.text)

DecodePath(p, ctx) ==
  LET d == DecodePathPayload(ctx.shared16, Pair(p.payload))
  IN  IF d.err # Nil THEN Failure(d.err) ELSE Result("ReturnedPath", d.path)

ForChannel == {PayloadGrpTxt, PayloadGrpData}
ForPair == {PayloadTxtMsg, PayloadReq, PayloadResponse, PayloadPath}

(* Without the secret it takes, and for the types that are opaque, a       *)
(* payload is returned as it is.  ResponseDecoders and CustomDecoders are  *)
(* not consulted.                                                          *)
DecodePayload(p, ctx) ==
  IF \/ p.type \in ForChannel /\ ctx.channelSecret = NoSecret
     \/ p.type \in ForPair /\ ctx.shared16 = NoSecret
  THEN Raw(p)
  ELSE CASE p.type = PayloadAck       -> DecodeAck(p.payload)
         [] p.type = PayloadAdvert    -> DecodeAdvert(p.payload)
         [] p.type = PayloadGrpTxt    -> DecodeGroupTextPayload(ctx.channelSecret, p.payload)
         [] p.type = PayloadGrpData   -> DecodeGrpDataPayload(ctx.channelSecret, p.payload)
         [] p.type = PayloadTxtMsg    -> DecodeText(p, ctx)
         [] p.type = PayloadReq       -> DecodeReq(p, ctx)
         [] p.type = PayloadResponse  -> DecodeResponsePayload(ctx.shared16, p.payload)
         [] p.type = PayloadPath      -> DecodePath(p, ctx)
         [] p.type = PayloadTrace     -> DecodeTracePayload(p.payload)
         [] p.type = PayloadMultipart -> DecodeMultipartPayload(p.payload)
         [] p.type = PayloadControl   -> DecodeControl(p, ctx)
         [] OTHER                     -> Raw(p)

(* An application that has got an ANON_REQ as it is tries its own key.     *)
SecretWith(key) == {n \in Identity : KeyOf[n] = key} \union {Me}

Reading(p, ctx) ==
  IF p.type = PayloadAnonReq /\ DecodePayload(p, ctx) = Raw(p)
  THEN DecodeAnonReqPayload(SecretWith(SenderKey(p.payload)), p.payload)
  ELSE DecodePayload(p, ctx)

Context(shared16, channelSecret, reg) ==
  [shared16 |-> shared16, channelSecret |-> channelSecret, registry |-> reg]

(* The contexts that an application can make of what it has. *)
Contexts ==
  LET peers    == {s \in held : Me \in s}
      channels == held \ peers
  IN  {Context(s, c, registry) : s \in peers \union {NoSecret},
                                 c \in channels \union {NoSecret}}

(* The secrets that somebody can give to the application. *)
Secrets ==
  {SharedSecret(Me, n) : n \in Identity \ {Me}} \union
    {DeriveChannelSecret(name) : name \in Channel}

-----------------------------------------------------------------------------
Init ==
  /\ sent = {}
  /\ store = {}
  /\ held = {}
  /\ registry = {}
  /\ read = {}

(* EncodePacket refuses what does not fit once it is sealed. *)
Write(m) ==
  /\ m \notin sent
  /\ Cardinality(sent) < MaxSent
  /\ WriteError(m) = Nil
  /\ sent' = sent \union {m}
  /\ store' = store \union
                {[msg |-> m, whole |-> TRUE, type |-> m.type, payload |-> PayloadOf(m)]}
  /\ UNCHANGED <<held, registry, read>>

(* The end of a payload is lost; a MAC does not fit the rest.              *)
CutOff(payload, k) ==
  IF payload.secret = NoSecret
  THEN Clear(SubSeq(payload.head, 1, Len(payload.head) - k))
  ELSE [payload EXCEPT !.plain = SubSeq(@, 1, Len(@) - k), !.secret = Broken]

CutShort(p, k) ==
  /\ p.whole
  /\ k <= Len(IF p.payload.secret = NoSecret THEN p.payload.head ELSE p.payload.plain)
  /\ store' = (store \ {p}) \union
                {[p EXCEPT !.whole = FALSE, !.payload = CutOff(@, k)]}
  /\ UNCHANGED <<sent, held, registry, read>>

(* The application joins a channel or gets to know a peer. *)
Learn(secret) ==
  /\ held' = held \union {secret}
  /\ UNCHANGED <<sent, store, registry, read>>

(* A map has one decoder for a key; the last one counts. *)
Register(d) ==
  /\ registry' = (registry \ Registered(registry, d.map, d.key)) \union {d}
  /\ UNCHANGED <<sent, store, held, read>>

(* Trying a packet; only what is read leaves a trace. *)
Read(p, ctx) ==
  LET r == Reading(p, ctx)
  IN  /\ r.err = Nil /\ r.as # "Raw"
      /\ read' = read \union {[msg |-> p.msg, whole |-> p.whole, as |-> r.as, value |-> r.value]}
      /\ UNCHANGED <<sent, store, held, registry>>

Next ==
  \/ \E m \in Messages : Write(m)
  \/ \E p \in store, k \in 1 .. MaxCut : CutShort(p, k)
  \/ \E secret \in Secrets : Learn(secret)
  \/ \E d \in Decoders : Register(d)
  \/ \E p \in store, ctx \in Contexts : Read(p, ctx)

Spec == Init /\ [][Next]_vars

-----------------------------------------------------------------------------
(* Bytes, but for the signature of an advert. *)
Signature == [by : Seq(Byte), of : {<< >>} \union (Seq(Byte) \X Word \X Seq(Byte))]

IsPayload(type, payload) ==
  /\ \A i \in DOMAIN payload.head :
       payload.head[i] \in IF type = PayloadAdvert /\ i \in SignatureAt THEN Signature ELSE Byte
  /\ payload.plain \in Seq(Byte)

TypeOK ==
  /\ sent \subseteq Messages
  /\ \A p \in store : p.msg \in sent /\ IsPayload(p.type, p.payload)
  /\ held \subseteq Secrets
  /\ registry \subseteq Decoders
  /\ \A r \in read : r.msg \in sent /\ r.as # "Raw"

(* bytes is what was written, and the zeros that fill the last block. *)
IsPaddingOf(bytes, written) ==
  /\ IsPrefix(written, bytes)
  /\ Len(bytes) - Len(written) < BlockSize
  /\ \A i \in Len(written) + 1 .. Len(bytes) : bytes[i] = 0

(* All of what was written, or its beginning when the end is missing. *)
IsWhatIsLeft(r, part, all) == IF r.whole THEN part = all ELSE IsPrefix(part, all)

Bare == A!parseAdvertAppdata(<< >>)

SameFields(v, w, fields) == \A f \in fields : v[f] = w[f]

NameIn(app) == SubSeq(app, A!NameAt(app), Len(app))

IsStartOf(name, all) ==
  \E n \in 0 .. Len(all) : name = A!TrimSpace(A!UpToNul(SubSeq(all, 1, n)))

(* Nothing tells that an unsigned advert has lost its end: it has lost all *)
(* its appdata then, or the end of its name only.                          *)
SaysAdvert(r, m, v) ==
  LET all  == A!parseAdvertAppdata(m.appdata)
      lost == ~r.whole /\ ~m.signed
  IN  /\ v.PublicKey = KeyOf[m.from] /\ v.Timestamp = m.ts
      /\ \/ lost /\ SameFields(v, Bare, DOMAIN Bare)
         \/ /\ SameFields(v, all, DOMAIN Bare \ {"Name"})
            /\ \/ v.Name = all.Name
               \/ lost /\ IsStartOf(v.Name, NameIn(m.appdata))

SaysGroupText(m, v) ==
  /\ v.timestamp = m.ts /\ v.txtType = 0 /\ v.attempt = 0
  /\ v.sender \o <<Colon, Blank>> \o v.text
       = TrimNuls(m.sender \o <<Colon, Blank>> \o m.text)
  /\ Separators(m.sender) = {} => v.sender = m.sender

SaysDiscoverReq(r, m, v) ==
  /\ v.prefixOnly = m.prefixOnly /\ v.typeFilter = m.typeFilter /\ v.tag = m.tag
  /\ v.since \in {m.since} \union (IF r.whole THEN {} ELSE {0})

SaysDiscoverResp(r, m, v) ==
  /\ v.nodeType = m.nodeType /\ v.snr = m.snr /\ v.tag = m.tag
  /\ IsWhatIsLeft(r, v.pubKey, m.pubKey)

SaysTrace(r, m, v) ==
  /\ v.tag = m.tag /\ v.authCode = m.authCode
  /\ IsWhatIsLeft(r, v.routeHashes, m.hops)

SaysMultipart(r, m, v) ==
  /\ v.remaining = m.remaining % 16 /\ v.innerType = PayloadAck
  /\ IsWhatIsLeft(r, v.innerPayload, Uint32Bytes(m.crc))

SaysReq(m, v) ==
  /\ v.destHash = Hash(m.to) /\ v.srcHash = Hash(m.from)
  /\ v.timestamp = m.ts /\ v.reqType = m.reqType
  /\ IsPaddingOf(v.data, <<m.reqType>> \o m.data)

SaysAnonReq(m, v) ==
  /\ m.to = Me /\ v.senderKey = KeyOf[m.from] /\ v.timestamp = m.ts
  /\ IsPaddingOf(v.data, m.data)

SaysControl(r, m, v) ==
  /\ v.subType = m.sub
  /\ m.sub \in {SubDiscoverReq, SubDiscoverResp} => ~r.whole

SaysWhatWasWritten(r) ==
  LET m == r.msg
      v == r.value
  IN  /\ r.as = "Ack" => v.crc = m.crc
      /\ r.as = "Advert" => SaysAdvert(r, m, v)
      /\ r.as = "GroupText" => SaysGroupText(m, v)
      /\ r.as = "GrpData" => v.dataType = m.dataType /\ v.data = m.data
      /\ r.as = "DirectText" => v.Text = TrimNuls(m.text) /\ v.Timestamp = m.ts
      /\ r.as = "ReturnedPath" => v.Path = m.path /\ ConfirmedBy(v) = {}
      /\ r.as = "Req" => SaysReq(m, v)
      /\ r.as = "Response" => IsPaddingOf(v.data, m.data)
      /\ r.as = "AnonReq" => SaysAnonReq(m, v)
      /\ r.as = "Trace" => SaysTrace(r, m, v)
      /\ r.as = "Multipart" => SaysMultipart(r, m, v)
      /\ r.as = "DiscoverReq" => SaysDiscoverReq(r, m, v)
      /\ r.as = "DiscoverResp" => SaysDiscoverResp(r, m, v)
      /\ r.as = "Control" => SaysControl(r, m, v)

(* Whatever is read of a packet, at any time and with whatever secrets,    *)
(* is what its author put in: all of it, the end of it missing when the    *)
(* radio lost the end of a payload in clear, and followed by zeros where   *)
(* the plaintext does not tell its length.  A group text may change the    *)
(* place where sender and text part only when the sender holds a ": ", and *)
(* a MULTIPART tells remaining modulo 16.  A PATH that was given no extra  *)
(* is sent with one, which acknowledges nothing (the parsers of grptxt.go, *)
(* grpdata.go, req.go, anonreq.go, trace.go, multipart.go, control.go and  *)
(* advert.go).                                                             *)
ReadIsWritten == \A r \in read : SaysWhatWasWritten(r)

SecretOf(m) ==
  IF m.type \in ForChannel THEN DeriveChannelSecret(m.channel) ELSE PairSecret(m)

WasOpened(r, secrets) ==
  /\ r.msg.type \in ForChannel \union ForPair => SecretOf(r.msg) \in secrets /\ r.whole
  /\ r.msg.type = PayloadAnonReq => r.msg.to = Me /\ r.whole

(* Nothing that was sealed is read without the secret it was sealed with,  *)
(* nor after its end was lost, although the channel hash and the hashes of *)
(* peers are bytes that others share (openMAC of crypto.go and its         *)
(* callers).                                                               *)
SealedStaysSealed == \A r \in read : WasOpened(r, held)

IsForRequests(r) ==
  LET m == r.msg
      v == r.value
  IN  /\ v.map = "RequestDecoders" /\ m.type = PayloadReq
      /\ v.key = m.reqType
      /\ IsPaddingOf(v.body, <<m.reqType>> \o m.data)

IsForControl(r) ==
  LET m == r.msg
      v == r.value
  IN  /\ v.map = "ControlDecoders" /\ m.type = PayloadControl
      /\ v.key = m.sub
      /\ IF m.sub \in {SubDiscoverReq, SubDiscoverResp}
         THEN ~r.whole /\ Len(v.body) < 5
         ELSE IsWhatIsLeft(r, v.body, m.data)

(* A registered decoder gets the body of a message of the kind it was      *)
(* registered for, whole or padded, and a CONTROL decoder gets a DISCOVER  *)
(* body only when it is too short to be one (registry.go:107-115 and       *)
(* 141-149).                                                               *)
DecodersGetTheirKind ==
  \A r \in read : r.as = "Decoded" => IsForRequests(r) \/ IsForControl(r)

Fits(ctx, m) ==
  /\ m.type \in ForChannel => ctx.channelSecret = SecretOf(m)
  /\ m.type \in ForPair => ctx.shared16 = SecretOf(m)
  /\ m.type = PayloadAnonReq => m.to = Me

(* The appdata has all that its flags promise, at a place on earth.        *)
IsComplete(app) ==
  app # << >> => /\ A!NameAt(app) - 1 <= Len(app)
                 /\ A!GPS(app) => /\ A!Int32In(app, 2) \in A!Latitude
                                  /\ A!Int32In(app, 6) \in A!Longitude

ReadsWell(p, r) ==
  /\ IF p.type = PayloadAdvert
     THEN r.err = Nil <=> IsComplete(p.msg.appdata)
     ELSE r.err \in {Nil, "BodyDecoder"}
  /\ r.as = "Raw" <=> p.type = PayloadRawCustom

(* A packet that arrived whole can be read as soon as the application has  *)
(* its secret, however long it was kept as opaque, whatever other secrets  *)
(* and decoders came in between, and whatever its size: an error is due to *)
(* a lost end, to another secret or to a registered decoder, and an opaque *)
(* answer means RAW_CUSTOM (the length checks and DecodePayload).  Only an *)
(* ADVERT, which is written with any appdata, is refused for what it says: *)
(* exactly when a field that its flags promise is missing or its place is  *)
(* not on earth (parseAdvertAppdata, advert.go:291).                       *)
FittingContextReads ==
  \A p \in store, ctx \in Contexts :
    p.whole /\ Fits(ctx, p.msg) => ReadsWell(p, Reading(p, ctx))

(* The context of README.md:117, with the first 16 bytes of the shared     *)
(* secret, reads what a peer wrote.                                        *)
ReadmeContextReads ==
  \A p \in store :
    p.whole /\ p.type \in ForPair /\ SecretOf(p.msg) \in held =>
      DecodePayload(p, Context(FirstHalf(SecretOf(p.msg)), NoSecret, {})).err = Nil
=============================================================================
