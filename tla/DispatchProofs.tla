--------------------------- MODULE DispatchProofs ---------------------------
(***************************************************************************)
(* Whatever an application reads is what was written, for all messages     *)
(* that the builders take, all losses of the end of a payload, and all     *)
(* secrets and decoders that come in between.                              *)
(***************************************************************************)
EXTENDS Dispatch, PacketProofs

-----------------------------------------------------------------------------
(* What is padded begins with what was written. *)
LEMMA FillIsPadding ==
  ASSUME NEW x \in Seq(Byte), NEW z, IsFill(z)
  PROVE  IsPaddingOf(x \o z, x)
<1> DEFINE s == x \o z
<1>1. z \in Seq(Byte) /\ Len(z) <= 15 /\ Len(z) \in Nat /\ Len(x) \in Nat
  BY DEF IsFill
<1>2. \A i \in 1 .. Len(z) : z[i] = 0
  BY <1>1, ZerosFacts DEF IsFill
<1>3. /\ Len(s) = Len(x) + Len(z)
      /\ \A i \in 1 .. Len(z) : s[Len(x) + i] = z[i]
  BY <1>1, TwoParts
<1>4. IsPrefix(x, s)
  BY <1>1, PrefixOfConcat
<1> HIDE DEF s
<1>5. ASSUME NEW i \in Len(x) + 1 .. Len(s) PROVE s[i] = 0
  <2> DEFINE j == i - Len(x)
  <2>1. j \in 1 .. Len(z) /\ Len(x) + j = i
    BY <1>1, <1>3
  <2>2. s[Len(x) + j] = 0
    BY <1>2, <1>3, <2>1
  <2>3. QED
    BY <2>1, <2>2
<1>6. Len(s) - Len(x) < BlockSize
  BY <1>1, <1>3 DEF BlockSize
<1>7. IsPaddingOf(s, x)
  BY <1>4, <1>5, <1>6 DEF IsPaddingOf
<1>8. QED
  BY <1>7 DEF s

LEMMA PaddedIsBytes ==
  ASSUME NEW plain \in Seq(Byte)
  PROVE  Padded(plain) \in Seq(Byte) /\ IsPaddingOf(Padded(plain), plain)
<1>1. PICK z : IsFill(z) /\ Padded(plain) = plain \o z
  BY PaddedWith
<1>2. plain \o z \in Seq(Byte)
  BY <1>1, TwoParts DEF IsFill
<1>3. QED
  BY <1>1, <1>2, FillIsPadding

(* A plaintext that begins with a timestamp. *)
LEMMA WordThenPadded ==
  ASSUME NEW n \in Word, NEW x \in Seq(Byte)
  PROVE  \E z : LET all == Padded(Uint32Bytes(n) \o x)
                IN  /\ IsFill(z)
                    /\ x \o z \in Seq(Byte)
                    /\ all \in Seq(Byte)
                    /\ Len(all) = 4 + Len(x \o z)
                    /\ Len(all) >= CipherKeySize
                    /\ Uint32At(all, 1) = n
                    /\ \A i \in 1 .. Len(x \o z) : all[4 + i] = (x \o z)[i]
                    /\ From(all, 5) = x \o z
                    /\ IsPaddingOf(x \o z, x)
<1> DEFINE u     == Uint32Bytes(n)
           plain == u \o x
           all   == Padded(plain)
<1>1. u \in Seq(Byte) /\ plain \in Seq(Byte) /\ Len(plain) = 4 + Len(x)
  BY WordThen
<1> HIDE DEF u
<1>2. Len(plain) > 0
  BY <1>1
<1>3. PICK z : IsFill(z) /\ all = plain \o z
  BY <1>1, PaddedWith
<1>4. all \in Seq(Byte) /\ Len(all) >= CipherKeySize
  BY <1>1, <1>2, PaddedIsBytes, PaddedSize
<1>5. z \in Seq(Byte)
  BY <1>3 DEF IsFill
<1> DEFINE rest == x \o z
<1>6. rest \in Seq(Byte)
  BY <1>5, TwoParts
<1>7. all = u \o rest
  BY <1>1, <1>3, <1>5, ConcatAssociative
<1>8. IsPaddingOf(rest, x)
  BY <1>3, FillIsPadding
<1> HIDE DEF all, rest
<1>9. /\ Len(all) = 4 + Len(rest) /\ Uint32At(all, 1) = n
      /\ \A i \in 1 .. Len(rest) : all[4 + i] = rest[i]
      /\ From(all, 5) = rest
  BY <1>6, <1>7, WordThen DEF u
<1>10. QED
  BY <1>3, <1>4, <1>6, <1>8, <1>9 DEF all, rest, u

-----------------------------------------------------------------------------
(* What peers write, by its type. *)
LEMMA MessageFields ==
  ASSUME NEW m \in Message
  PROVE  /\ m.type = PayloadAck => m.crc \in Word
         /\ m.type = PayloadAdvert =>
              /\ m.from \in Identity /\ m.ts \in Word /\ m.signed \in BOOLEAN
              /\ m.appdata \in Seq(Byte)
         /\ m.type = PayloadGrpTxt =>
              /\ m.channel \in Channel /\ m.sender \in Seq(Byte)
              /\ m.text \in Seq(Byte) /\ m.ts \in Word
         /\ m.type = PayloadGrpData =>
              m.channel \in Channel /\ m.dataType \in Uint16 /\ m.data \in Seq(Byte)
         /\ m.type \in ForPair \union {PayloadAnonReq} => m.from \in Identity /\ m.to \in Identity
         /\ m.type = PayloadTxtMsg =>
              m.text \in Seq(Byte) /\ m.attempt \in Nat /\ m.ts \in Word
         /\ m.type = PayloadReq => m.reqType \in Byte /\ m.data \in Seq(Byte) /\ m.ts \in Word
         /\ m.type = PayloadResponse => m.data \in Seq(Byte)
         /\ m.type = PayloadPath => m.path \in Seq(Byte) /\ m.size \in Nat
         /\ m.type = PayloadAnonReq => m.data \in Seq(Byte) /\ m.ts \in Word
         /\ m.type = PayloadTrace =>
              /\ m.tag \in Word /\ m.authCode \in Word /\ m.flags \in Byte
              /\ m.hops \in Seq(Seq(Byte))
              /\ \A i \in DOMAIN m.hops : Len(m.hops[i]) = 2 ^ (m.flags % 4)
         /\ m.type = PayloadMultipart => m.remaining \in Byte /\ m.crc \in Word
         /\ m.type = PayloadRawCustom => m.data \in Seq(Byte)
         /\ m.type \in {PayloadAck, PayloadAdvert, PayloadTrace, PayloadMultipart,
                        PayloadControl, PayloadRawCustom, PayloadAnonReq}
                         \union ForChannel \union ForPair
<1> USE DEF PayloadAck, PayloadAdvert, PayloadGrpTxt, PayloadGrpData, PayloadTxtMsg, PayloadReq,
            PayloadResponse, PayloadPath, PayloadAnonReq, PayloadTrace, PayloadMultipart,
            PayloadControl, PayloadRawCustom, ForPair, ForChannel
<1>1. CASE m \in ToChannel
  BY <1>1 DEF ToChannel
<1>2. CASE m \in ToPeer
  BY <1>2 DEF ToPeer
<1>3. CASE m \in OfControl
  BY <1>3 DEF OfControl
<1>4. CASE m \in InTheClear
  <2>1. CASE m.type = PayloadTrace
    <3>1. /\ m \in [type : {PayloadTrace}, tag : Word, authCode : Word, flags : Byte,
                    hops : Seq(Seq(Byte))]
          /\ \A i \in DOMAIN m.hops : Len(m.hops[i]) = 2 ^ (m.flags % 4)
      BY <1>4, <2>1 DEF InTheClear
    <3>2. m.tag \in Word /\ m.authCode \in Word /\ m.flags \in Byte /\ m.hops \in Seq(Seq(Byte))
      BY <3>1
    <3>3. QED
      BY <2>1, <3>1, <3>2
  <2>2. CASE m.type # PayloadTrace
    BY <1>4, <2>2 DEF InTheClear
  <2>3. QED
    BY <2>1, <2>2
<1>5. QED
  BY <1>1, <1>2, <1>3, <1>4 DEF Message

LEMMA ControlFields ==
  ASSUME NEW m \in Message, m.type = PayloadControl
  PROVE  /\ m.sub \in 0 .. 15
         /\ m.sub = SubDiscoverReq =>
              /\ m.typeFilter \in Byte /\ m.tag \in Word
              /\ m.since \in Word /\ m.prefixOnly \in BOOLEAN
         /\ m.sub = SubDiscoverResp =>
              /\ m.nodeType \in 0 .. 15 /\ m.snr \in -128 .. 127 /\ m.tag \in Word
              /\ m.pubKey \in Seq(Byte) /\ Len(m.pubKey) \in {8, KeySize}
         /\ m.sub \notin {SubDiscoverReq, SubDiscoverResp} => m.data \in Seq(Byte)
<1>1. m \in OfControl
  BY DEF Message, ToChannel, ToPeer, InTheClear, PayloadAck, PayloadAdvert, PayloadGrpTxt,
         PayloadGrpData, PayloadTxtMsg, PayloadReq, PayloadResponse, PayloadPath,
         PayloadAnonReq, PayloadTrace, PayloadMultipart, PayloadControl, PayloadRawCustom
<1>2. QED
  BY <1>1 DEF OfControl, SubDiscoverReq, SubDiscoverResp

LEMMA PayloadByType ==
  ASSUME NEW m
  PROVE  /\ m.type = PayloadAck => PayloadOf(m) = Clear(Uint32Bytes(m.crc))
         /\ m.type = PayloadAdvert => PayloadOf(m) = Clear(AdvertBytes(AdvertOf(m)))
         /\ m.type = PayloadGrpTxt =>
              PayloadOf(m) =
                GroupTextPayload(DeriveChannelSecret(m.channel), m.sender, m.text, m.ts)
         /\ m.type = PayloadGrpData =>
              PayloadOf(m) = GrpDataPayload(DeriveChannelSecret(m.channel), m.dataType, m.data)
         /\ m.type = PayloadTxtMsg =>
              PayloadOf(m) =
                PairPayload(PairSecret(m), Hash(m.to), Hash(m.from),
                            DirectTextPlaintext(m.text, Flags(0, m.attempt), m.ts))
         /\ m.type = PayloadReq =>
              PayloadOf(m) =
                ReqPayload(PairSecret(m), Hash(m.to), Hash(m.from), m.reqType, m.data, m.ts)
         /\ m.type = PayloadResponse =>
              PayloadOf(m) = PairPayload(PairSecret(m), Hash(m.to), Hash(m.from), m.data)
         /\ m.type = PayloadPath =>
              PayloadOf(m) =
                PairPayload(PairSecret(m), Hash(m.to), Hash(m.from),
                            PathPlaintext(m.path, m.size, 0, << >>))
         /\ m.type = PayloadAnonReq =>
              PayloadOf(m) =
                AnonReqPayload(PairSecret(m), Hash(m.to), KeyOf[m.from], m.data, m.ts)
         /\ m.type = PayloadTrace =>
              PayloadOf(m) = TracePayload(m.tag, m.authCode, m.flags, FlattenSeq(m.hops))
         /\ m.type = PayloadMultipart => PayloadOf(m) = MultipartAckPayload(m.remaining, m.crc)
         /\ m.type = PayloadControl =>
              PayloadOf(m) =
                CASE m.sub = SubDiscoverReq  ->
                       DiscoverReqPayload(m.typeFilter, m.tag, m.since, m.prefixOnly)
                  [] m.sub = SubDiscoverResp ->
                       Clear(<<SubDiscoverResp * 16 + m.nodeType, m.snr % 256>>
                               \o Uint32Bytes(m.tag) \o m.pubKey)
                  [] OTHER -> Clear(<<m.sub * 16>> \o m.data)
         /\ m.type = PayloadRawCustom => PayloadOf(m) = Clear(m.data)
BY DEF PayloadOf, PayloadAck, PayloadAdvert, PayloadGrpTxt, PayloadGrpData, PayloadTxtMsg,
       PayloadReq, PayloadResponse, PayloadPath, PayloadAnonReq, PayloadTrace,
       PayloadMultipart, PayloadControl, PayloadRawCustom

LEMMA WrittenFits ==
  ASSUME NEW m, WriteError(m) = Nil
  PROVE  /\ m.type = PayloadPath => PathReturnError(m.path, m.size) = Nil
         /\ m.type = PayloadGrpData => ~ (Len(m.data) > 255)
<1>1. ~ (m.type = PayloadPath /\ PathReturnError(m.path, m.size) # Nil)
  BY Zenon DEF WriteError
<1>2. ASSUME m.type = PayloadGrpData, Len(m.data) > 255
      PROVE  FALSE
  <2>1. m.type # PayloadPath
    BY <1>2 DEF PayloadGrpData, PayloadPath
  <2>2. WriteError(m) = "DataTooLong"
    BY <1>2, <2>1, Zenon DEF WriteError
  <2>3. QED
    BY <2>2 DEF Nil
<1>3. QED
  BY <1>1, <1>2

-----------------------------------------------------------------------------
(* A packet in the store: what was written, or the beginning of it.        *)
EndOf(payload) == IF payload.secret = NoSecret THEN payload.head ELSE payload.plain

IsReceived(p) ==
  /\ p = [msg |-> p.msg, whole |-> p.whole, type |-> p.msg.type, payload |-> p.payload]
  /\ p.msg \in Messages
  /\ WriteError(p.msg) = Nil
  /\ p.whole \in BOOLEAN
  /\ p.whole => p.payload = PayloadOf(p.msg)
  /\ ~p.whole => \E k \in 0 .. Len(EndOf(PayloadOf(p.msg))) :
                    p.payload = CutOff(PayloadOf(p.msg), k)

LEMMA ReceivedFacts ==
  ASSUME NEW p, IsReceived(p)
  PROVE  /\ p.msg \in Message /\ p.type = p.msg.type /\ p.whole \in BOOLEAN
         /\ WriteError(p.msg) = Nil
<1>1. p.msg \in Message
  BY DispatchAssumption DEF IsReceived
<1>2. p.type = p.msg.type
  BY DEF IsReceived
<1>3. QED
  BY <1>1, <1>2 DEF IsReceived

LEMMA ClearFields ==
  ASSUME NEW head
  PROVE  /\ Clear(head).head = head
         /\ Clear(head).secret = NoSecret
         /\ Clear(head).plain = << >>
BY DEF Clear

LEMMA ClearLeftOf ==
  ASSUME NEW p, IsReceived(p), NEW S, NEW head \in Seq(S), PayloadOf(p.msg) = Clear(head)
  PROVE  \E n \in 0 .. Len(head) : /\ p.payload = Clear(SubSeq(head, 1, n))
                                   /\ p.whole => n = Len(head)
<1>1. Len(head) \in Nat /\ p.whole \in BOOLEAN
  BY DEF IsReceived
<1>2. CASE p.whole
  <2>1. p.payload = Clear(head)
    BY <1>2 DEF IsReceived
  <2>2. p.payload = Clear(SubSeq(head, 1, Len(head)))
    BY <2>1, SubSeqFull
  <2>3. Len(head) \in 0 .. Len(head)
    BY <1>1
  <2>4. QED
    BY <2>2, <2>3, Zenon
<1>3. CASE ~p.whole
  <2>1. PICK k \in 0 .. Len(EndOf(Clear(head))) : p.payload = CutOff(Clear(head), k)
    BY <1>3 DEF IsReceived
  <2>2. EndOf(Clear(head)) = head
    BY ClearFields DEF EndOf
  <2>3. CutOff(Clear(head), k) = Clear(SubSeq(head, 1, Len(head) - k))
    BY ClearFields DEF CutOff
  <2>4. Len(head) - k \in 0 .. Len(head)
    BY <1>1, <2>1, <2>2
  <2>5. QED
    BY <1>3, <2>1, <2>3, <2>4
<1>4. QED
  BY <1>1, <1>2, <1>3

LEMMA ClearLeft ==
  ASSUME NEW p, IsReceived(p), NEW head \in Seq(Byte), PayloadOf(p.msg) = Clear(head)
  PROVE  \E n \in 0 .. Len(head) : /\ p.payload = Clear(SubSeq(head, 1, n))
                                   /\ p.whole => n = Len(head)
BY ClearLeftOf

LEMMA SealedFields ==
  ASSUME NEW head, NEW secret, NEW plain
  PROVE  /\ Sealed(head, secret, plain).head = head
         /\ Sealed(head, secret, plain).secret = secret
         /\ Sealed(head, secret, plain).plain = Padded(plain)
BY DEF Sealed

LEMMA SealedLeft ==
  ASSUME NEW p, IsReceived(p), NEW head, NEW secret, secret # NoSecret,
         NEW plain \in Seq(Byte),
         PayloadOf(p.msg) = Sealed(head, secret, plain)
  PROVE  /\ p.payload.head = head
         /\ p.payload.plain \in Seq(Byte)
         /\ p.payload.secret = IF p.whole THEN secret ELSE Broken
         /\ p.whole => p.payload = Sealed(head, secret, plain) /\ p.payload.plain = Padded(plain)
<1> DEFINE P   == Sealed(head, secret, plain)
           all == Padded(plain)
<1>1. all \in Seq(Byte) /\ p.whole \in BOOLEAN
  BY PaddedIsBytes DEF IsReceived
<1>2. P = [head |-> head, secret |-> secret, plain |-> all]
  BY DEF Sealed
<1>3. PayloadOf(p.msg) = P
  OBVIOUS
<1> HIDE DEF all, P
<1>4. P.head = head /\ P.secret = secret /\ P.plain = all
  BY <1>2
<1>5. CASE p.whole
  <2>1. p.payload = P
    BY <1>3, <1>5 DEF IsReceived
  <2>2. QED
    BY <1>1, <1>4, <1>5, <2>1 DEF P, all
<1>6. CASE ~p.whole
  <2>1. PICK k \in 0 .. Len(EndOf(P)) : p.payload = CutOff(P, k)
    BY <1>3, <1>6 DEF IsReceived
  <2>2. EndOf(P) = all
    BY <1>4 DEF EndOf
  <2>3. p.payload = [P EXCEPT !.plain = SubSeq(@, 1, Len(@) - k), !.secret = Broken]
    BY <1>4, <2>1 DEF CutOff
  <2>4. /\ p.payload.head = head /\ p.payload.secret = Broken
        /\ p.payload.plain = SubSeq(all, 1, Len(all) - k)
    BY <1>2, <2>3
  <2>5. Len(all) - k \in 0 .. Len(all)
    BY <1>1, <2>1, <2>2
  <2>6. SubSeq(all, 1, Len(all) - k) \in Seq(Byte)
    BY <1>1, <2>5, BeginningFacts
  <2>7. QED
    BY <1>6, <2>4, <2>6
<1>7. QED
  BY <1>1, <1>5, <1>6

-----------------------------------------------------------------------------
(* The secrets of an application. *)
IsContext(ctx) ==
  /\ ctx.shared16 = NoSecret \/ ctx.shared16 \in held
  /\ ctx.channelSecret = NoSecret \/ ctx.channelSecret \in held
  /\ ctx.shared16 # Broken /\ ctx.channelSecret # Broken
  /\ ctx.registry \subseteq Decoders

LEMMA SecretsAreNotBroken == Broken \notin Secrets
<1>1. SUFFICES ASSUME Broken \in Secrets PROVE FALSE
  OBVIOUS
<1>2. CASE \E n \in Identity \ {Me} : Broken = {Me, n}
  BY <1>2, DispatchAssumption DEF Broken
<1>3. CASE \E name \in Channel : Broken = {name}
  BY <1>3, DispatchAssumption DEF Broken
<1>4. QED
  BY <1>1, <1>2, <1>3 DEF Secrets, SharedSecret, DeriveChannelSecret

LEMMA ContextFacts ==
  ASSUME TypeOK, NEW ctx \in Contexts
  PROVE  IsContext(ctx)
<1>1. PICK s \in {x \in held : Me \in x} \union {NoSecret},
           c \in (held \ {x \in held : Me \in x}) \union {NoSecret} :
        ctx = Context(s, c, registry)
  BY DEF Contexts
<1>2. ctx.shared16 = s /\ ctx.channelSecret = c /\ ctx.registry = registry
  BY <1>1 DEF Context
<1>3. held \subseteq Secrets /\ registry \subseteq Decoders
  BY DEF TypeOK
<1>4. NoSecret # Broken
  BY DEF NoSecret, Broken
<1>5. QED
  BY <1>1, <1>2, <1>3, <1>4, SecretsAreNotBroken DEF IsContext

LEMMA PairSecretFacts ==
  ASSUME NEW m, m.from \in Identity, m.to \in Identity
  PROVE  /\ PairSecret(m) = {m.from, m.to}
         /\ PairSecret(m) # NoSecret /\ PairSecret(m) # Broken
<1>1. PairSecret(m) = {m.from, m.to}
  BY DEF PairSecret, SharedSecret
<1>2. QED
  BY <1>1, DispatchAssumption DEF NoSecret, Broken

LEMMA HashIsByte ==
  ASSUME NEW n \in Identity
  PROVE  KeyOf[n] \in Seq(Byte) /\ Len(KeyOf[n]) = KeySize /\ Hash(n) \in Byte
<1> DEFINE key == KeyOf[n]
<1>1. key \in [1 .. 32 -> Byte]
  BY DispatchAssumption DEF KeySize
<1> HIDE DEF key
<1>2. key \in Seq(Byte)
  <2>1. 32 \in Nat
    OBVIOUS
  <2>2. QED
    BY <1>1, <2>1, SeqDef
<1>3. Len(key) = 32 /\ key[1] \in Byte
  <2>1. DOMAIN key = 1 .. Len(key) /\ Len(key) \in Nat
    BY <1>2
  <2>2. DOMAIN key = 1 .. 32
    BY <1>1
  <2>3. Len(key) = 32
    <3> DEFINE size == Len(key)
    <3>1. size \in Nat /\ 1 .. size = 1 .. 32
      BY <2>1, <2>2, Zenon
    <3> HIDE DEF size
    <3>2. 32 \in 1 .. size
      <4>1. 32 \in 1 .. 32
        OBVIOUS
      <4>2. QED
        BY <3>1, <4>1, Zenon
    <3>3. size \in 1 .. 32
      <4>1. size \in 1 .. size
        BY <3>1, <3>2
      <4>2. QED
        BY <3>1, <4>1, Zenon
    <3>4. size = 32
      BY <3>1, <3>2, <3>3
    <3>5. QED
      BY <3>4 DEF size
  <2>4. QED
    BY <1>1, <2>3
<1>4. QED
  BY <1>2, <1>3 DEF Hash, KeySize, key

-----------------------------------------------------------------------------
(* Which decoder reads a packet. *)
LEMMA ReadingByType ==
  ASSUME NEW p, NEW ctx
  PROVE  /\ p.type = PayloadAck => Reading(p, ctx) = DecodeAck(p.payload)
         /\ p.type = PayloadAdvert => Reading(p, ctx) = DecodeAdvert(p.payload)
         /\ p.type = PayloadGrpTxt =>
              Reading(p, ctx) = IF ctx.channelSecret = NoSecret THEN Raw(p)
                                ELSE DecodeGroupTextPayload(ctx.channelSecret, p.payload)
         /\ p.type = PayloadGrpData =>
              Reading(p, ctx) = IF ctx.channelSecret = NoSecret THEN Raw(p)
                                ELSE DecodeGrpDataPayload(ctx.channelSecret, p.payload)
         /\ p.type = PayloadTxtMsg =>
              Reading(p, ctx) = IF ctx.shared16 = NoSecret THEN Raw(p) ELSE DecodeText(p, ctx)
         /\ p.type = PayloadReq =>
              Reading(p, ctx) = IF ctx.shared16 = NoSecret THEN Raw(p) ELSE DecodeReq(p, ctx)
         /\ p.type = PayloadResponse =>
              Reading(p, ctx) = IF ctx.shared16 = NoSecret THEN Raw(p)
                                ELSE DecodeResponsePayload(ctx.shared16, p.payload)
         /\ p.type = PayloadPath =>
              Reading(p, ctx) = IF ctx.shared16 = NoSecret THEN Raw(p) ELSE DecodePath(p, ctx)
         /\ p.type = PayloadAnonReq =>
              Reading(p, ctx) =
                DecodeAnonReqPayload(SecretWith(SenderKey(p.payload)), p.payload)
         /\ p.type = PayloadTrace => Reading(p, ctx) = DecodeTracePayload(p.payload)
         /\ p.type = PayloadMultipart => Reading(p, ctx) = DecodeMultipartPayload(p.payload)
         /\ p.type = PayloadControl => Reading(p, ctx) = DecodeControl(p, ctx)
         /\ p.type = PayloadRawCustom => Reading(p, ctx) = Raw(p)
BY DEF Reading, DecodePayload, ForChannel, ForPair, PayloadAck, PayloadAdvert, PayloadGrpTxt,
       PayloadGrpData, PayloadTxtMsg, PayloadReq, PayloadResponse, PayloadPath, PayloadAnonReq,
       PayloadTrace, PayloadMultipart, PayloadControl, PayloadRawCustom

Item(p, r) == [msg |-> p.msg, whole |-> p.whole, as |-> r.as, value |-> r.value]

SecretsIn(ctx) == {ctx.shared16, ctx.channelSecret} \ {NoSecret}

(* What the properties say of one attempt to read a packet. *)
IsRead(p, ctx, r) ==
  /\ r.err = Nil /\ r.as # "Raw" =>
       /\ SaysWhatWasWritten(Item(p, r))
       /\ WasOpened(Item(p, r), SecretsIn(ctx))
       /\ r.as = "Decoded" => IsForRequests(Item(p, r)) \/ IsForControl(Item(p, r))
  /\ p.whole /\ Fits(ctx, p.msg) => ReadsWell(p, r)

(* What can be read, whatever it says. *)
IsReadable(p) == p.type # PayloadRawCustom /\ p.type # PayloadAdvert

LEMMA FailureIsRead ==
  ASSUME NEW p, NEW ctx, NEW e, e # Nil, IsReadable(p),
         p.whole /\ Fits(ctx, p.msg) => e = "BodyDecoder"
  PROVE  IsRead(p, ctx, Failure(e))
<1> DEFINE r == Failure(e)
<1>1. r.err = e /\ r.as = "nothing"
  BY DEF Failure
<1> HIDE DEF r
<1>2. p.whole /\ Fits(ctx, p.msg) => ReadsWell(p, r)
  BY <1>1 DEF ReadsWell, IsReadable
<1>3. ~ (r.err = Nil)
  BY <1>1
<1>4. QED
  BY <1>2, <1>3, Zenon DEF IsRead, r

LEMMA OpaqueIsRead ==
  ASSUME NEW p, NEW ctx, p.whole /\ Fits(ctx, p.msg) => p.type = PayloadRawCustom
  PROVE  IsRead(p, ctx, Raw(p))
<1> DEFINE r == Raw(p)
<1>1. r.err = Nil /\ r.as = "Raw"
  BY DEF Raw, Result
<1> HIDE DEF r
<1>2. p.whole /\ Fits(ctx, p.msg) => ReadsWell(p, r)
  BY <1>1 DEF ReadsWell, PayloadRawCustom, PayloadAdvert
<1>3. QED
  BY <1>1, <1>2, Zenon DEF IsRead, r

LEMMA ResultIsRead ==
  ASSUME NEW p, NEW ctx, NEW r, r.err = Nil, r.as \notin {"Raw", "Decoded"},
         IsReadable(p),
         SaysWhatWasWritten(Item(p, r)),
         WasOpened(Item(p, r), SecretsIn(ctx))
  PROVE  IsRead(p, ctx, r)
<1>1. p.whole /\ Fits(ctx, p.msg) => ReadsWell(p, r)
  BY DEF ReadsWell, IsReadable
<1>2. r.as # "Decoded"
  OBVIOUS
<1>3. QED
  BY <1>1, <1>2, Zenon DEF IsRead

LEMMA ItemFields ==
  ASSUME NEW p, NEW as, NEW v
  PROVE  LET r    == Result(as, v)
             item == Item(p, r)
         IN  /\ r.err = Nil /\ r.as = as /\ r.value = v
             /\ item.msg = p.msg /\ item.whole = p.whole /\ item.as = as /\ item.value = v
BY DEF Result, Item

ClearTypes == {PayloadAck, PayloadTrace, PayloadMultipart, PayloadControl, PayloadAdvert}

LEMMA InClearIsOpen ==
  ASSUME NEW p, NEW r, NEW secrets, p.msg.type \in ClearTypes
  PROVE  WasOpened(Item(p, r), secrets)
<1>1. Item(p, r).msg = p.msg
  BY DEF Item
<1>2. p.msg.type \notin ForChannel \union ForPair \union {PayloadAnonReq}
  BY DEF ClearTypes, ForChannel, ForPair, PayloadAck, PayloadAdvert, PayloadGrpTxt,
       PayloadGrpData, PayloadTxtMsg, PayloadReq, PayloadResponse, PayloadPath, PayloadAnonReq,
       PayloadTrace, PayloadMultipart, PayloadControl
<1>3. QED
  BY <1>1, <1>2 DEF WasOpened

-----------------------------------------------------------------------------
(* ACK: a checksum that is cut is no checksum. *)
LEMMA AckIsRead ==
  ASSUME NEW p, IsReceived(p), p.type = PayloadAck, NEW ctx
  PROVE  IsRead(p, ctx, Reading(p, ctx))
<1> DEFINE m    == p.msg
           head == Uint32Bytes(m.crc)
<1>1. m \in Message /\ m.type = PayloadAck /\ p.whole \in BOOLEAN
  BY ReceivedFacts
<1>2. m.crc \in Word
  BY <1>1, MessageFields
<1>3. head \in Seq(Byte) /\ Len(head) = 4 /\ Uint32At(head, 1) = m.crc
  BY <1>2, WordAlone
<1>4. PayloadOf(m) = Clear(head)
  BY <1>1, PayloadByType
<1> HIDE DEF head
<1>5. PICK n \in 0 .. 4 : p.payload = Clear(SubSeq(head, 1, n)) /\ (p.whole => n = 4)
  BY <1>3, <1>4, ClearLeft
<1> DEFINE part == SubSeq(head, 1, n)
<1>6. Len(part) = n
  BY <1>3, <1>5, BeginningFacts
<1>7. p.payload.head = part
  BY <1>5, ClearFields
<1>8. Reading(p, ctx) = DecodeAck(p.payload)
  BY ReadingByType
<1>9. IsReadable(p)
  BY DEF PayloadAck, PayloadRawCustom, PayloadAdvert, IsReadable
<1>10. CASE n < 4
  <2>1. Reading(p, ctx) = Failure("PayloadTooShort")
    BY <1>6, <1>7, <1>8, <1>10 DEF DecodeAck
  <2>2. ~p.whole /\ "PayloadTooShort" # Nil
    BY <1>5, <1>10 DEF Nil
  <2>3. QED
    BY <1>9, <2>1, <2>2, FailureIsRead
<1>11. CASE n = 4
  <2> DEFINE r    == Result("Ack", [crc |-> m.crc])
             item == Item(p, r)
  <2>1. part = head
    BY <1>3, <1>11, SubSeqFull
  <2>2. Reading(p, ctx) = r
    <3>1. p.payload.head = head
      BY <1>7, <2>1
    <3>2. ~ (Len(head) < 4)
      BY <1>3
    <3>3. QED
      BY <1>3, <1>8, <3>1, <3>2, Zenon DEF DecodeAck
  <2>3. r.err = Nil /\ r.as = "Ack" /\ item.msg = m /\ item.as = "Ack" /\ item.value = [crc |-> m.crc]
    BY ItemFields
  <2> HIDE DEF r, item
  <2>4. SaysWhatWasWritten(item)
    BY <2>3 DEF SaysWhatWasWritten
  <2>5. WasOpened(item, SecretsIn(ctx))
    BY <1>1, InClearIsOpen DEF ClearTypes, item
  <2>6. r.as \notin {"Raw", "Decoded"}
    BY <2>3
  <2>7. QED
    BY <1>9, <2>2, <2>3, <2>4, <2>5, <2>6, ResultIsRead DEF item
<1>12. QED
  BY <1>10, <1>11

LEMMA RawIsRead ==
  ASSUME NEW p, p.type = PayloadRawCustom, NEW ctx
  PROVE  IsRead(p, ctx, Reading(p, ctx))
BY ReadingByType, OpaqueIsRead

(* What is sealed opens with its secret only, and not when it was cut. *)
HoldsSealed(p, head, secret, plain) ==
  /\ IsReceived(p)
  /\ Len(head) \in Nat /\ plain \in Seq(Byte)
  /\ secret # NoSecret /\ secret # Broken
  /\ PayloadOf(p.msg) = Sealed(head, secret, plain)

LEMMA SealedIsOpened ==
  ASSUME NEW p, NEW head, NEW secret, NEW plain, HoldsSealed(p, head, secret, plain),
         NEW key, key # Broken
  PROVE  /\ Opens(key, p.payload) =>
              p.whole /\ key = secret /\ p.payload.plain = Padded(plain)
         /\ p.whole /\ key = secret => Opens(key, p.payload)
         /\ p.payload.head = head
         /\ Len(p.payload.plain) \in Nat
         /\ SizeOf(p.payload) = Len(head) + Len(p.payload.plain) + 2
<1>0. /\ IsReceived(p)
      /\ Len(head) \in Nat /\ plain \in Seq(Byte)
      /\ secret # NoSecret /\ secret # Broken
      /\ PayloadOf(p.msg) = Sealed(head, secret, plain)
  BY DEF HoldsSealed
<1>1. /\ p.payload.head = head
      /\ p.payload.plain \in Seq(Byte)
      /\ p.payload.secret = IF p.whole THEN secret ELSE Broken
      /\ p.whole => p.payload.plain = Padded(plain)
  BY <1>0, SealedLeft
<1>2. p.whole \in BOOLEAN
  BY <1>0 DEF IsReceived
<1>3. Broken # NoSecret
  BY DEF Broken, NoSecret
<1>4. Opens(key, p.payload) <=> p.payload.secret = key
  BY DEF Opens
<1>5. p.payload.secret # NoSecret
  BY <1>0, <1>1, <1>3
<1>6. SizeOf(p.payload) = Len(head) + Len(p.payload.plain) + 2
  BY <1>1, <1>5 DEF SizeOf, CipherMACSize
<1>7. Len(p.payload.plain) \in Nat
  BY <1>1
<1>8. QED
  BY <1>0, <1>1, <1>2, <1>4, <1>6, <1>7

(* What two identities share. *)
LEMMA PairIsOpened ==
  ASSUME NEW p, IsReceived(p), p.type \in ForPair, NEW ctx, IsContext(ctx),
         NEW plain \in Seq(Byte),
         PayloadOf(p.msg) =
           PairPayload(PairSecret(p.msg), Hash(p.msg.to), Hash(p.msg.from), plain)
  PROVE  /\ Opens(ctx.shared16, p.payload) =>
              /\ p.whole /\ p.payload.plain = Padded(plain)
              /\ \A r : ctx.shared16 # NoSecret => WasOpened(Item(p, r), SecretsIn(ctx))
         /\ p.whole /\ Fits(ctx, p.msg) =>
              ctx.shared16 # NoSecret /\ Opens(ctx.shared16, p.payload)
         /\ p.payload.head[1] = Hash(p.msg.to) /\ p.payload.head[2] = Hash(p.msg.from)
         /\ Len(p.payload.plain) \in Nat
         /\ SizeOf(p.payload) = 4 + Len(p.payload.plain)
<1> DEFINE m      == p.msg
           secret == PairSecret(m)
           head   == <<Hash(m.to), Hash(m.from)>>
<1>1. m \in Message /\ m.type \in ForPair
  BY ReceivedFacts
<1>2. m.from \in Identity /\ m.to \in Identity
  BY <1>1, MessageFields
<1>3. secret # NoSecret /\ secret # Broken
  BY <1>2, PairSecretFacts
<1>4. Len(head) = 2 /\ head[1] = Hash(m.to) /\ head[2] = Hash(m.from)
  OBVIOUS
<1>5. PayloadOf(m) = Sealed(head, secret, plain)
  BY DEF PairPayload
<1>6. ctx.shared16 # Broken
  BY DEF IsContext
<1>7. SecretOf(m) = secret /\ m.type \notin ForChannel /\ m.type # PayloadAnonReq
  BY <1>1 DEF SecretOf, ForPair, ForChannel, PayloadGrpTxt, PayloadGrpData, PayloadTxtMsg,
              PayloadReq, PayloadResponse, PayloadPath, PayloadAnonReq
<1>8. Len(head) \in Nat
  BY <1>4
<1> HIDE DEF head, secret
<1>9. /\ Opens(ctx.shared16, p.payload) =>
           p.whole /\ ctx.shared16 = secret /\ p.payload.plain = Padded(plain)
      /\ p.whole /\ ctx.shared16 = secret => Opens(ctx.shared16, p.payload)
      /\ p.payload.head = head
      /\ Len(p.payload.plain) \in Nat
      /\ SizeOf(p.payload) = Len(head) + Len(p.payload.plain) + 2
  <2>1. HoldsSealed(p, head, secret, plain)
    BY <1>3, <1>5, <1>8 DEF HoldsSealed
  <2>2. QED
    BY <1>6, <2>1, SealedIsOpened
<1>10. ASSUME Opens(ctx.shared16, p.payload), NEW r, ctx.shared16 # NoSecret
       PROVE  WasOpened(Item(p, r), SecretsIn(ctx))
  <2>1. Item(p, r).msg = m /\ Item(p, r).whole = p.whole
    BY DEF Item
  <2>2. SecretOf(m) \in SecretsIn(ctx) /\ p.whole
    BY <1>7, <1>9, <1>10 DEF SecretsIn
  <2>3. QED
    BY <1>7, <2>1, <2>2 DEF WasOpened
<1>11. Fits(ctx, m) => ctx.shared16 = secret
  BY <1>1, <1>7 DEF Fits
<1>12. SizeOf(p.payload) = 4 + Len(p.payload.plain)
  BY <1>4, <1>9
<1>13. QED
  BY <1>3, <1>4, <1>9, <1>10, <1>11, <1>12

(* What the members of a channel share. *)
LEMMA GroupIsOpened ==
  ASSUME NEW p, IsReceived(p), p.type \in ForChannel, NEW ctx, IsContext(ctx),
         NEW plain \in Seq(Byte),
         PayloadOf(p.msg) = Sealed(<<ChannelHash(DeriveChannelSecret(p.msg.channel))>>,
                                   DeriveChannelSecret(p.msg.channel), plain),
         p.msg.channel \in Channel, NEW least, least \in Nat,
         Len(Padded(plain)) + 3 >= least
  PROVE  LET err == GroupError(ctx.channelSecret, p.payload, least)
         IN  /\ err = Nil /\ ctx.channelSecret # NoSecret =>
                  /\ p.whole /\ p.payload.plain = Padded(plain)
                  /\ \A r : WasOpened(Item(p, r), SecretsIn(ctx))
             /\ p.whole /\ Fits(ctx, p.msg) => ctx.channelSecret # NoSecret /\ err = Nil
<1> DEFINE m      == p.msg
           secret == DeriveChannelSecret(m.channel)
           hash   == ChannelHash(secret)
           head   == <<hash>>
           key    == ctx.channelSecret
<1>1. m \in Message /\ m.type \in ForChannel /\ p.whole \in BOOLEAN
  BY ReceivedFacts
<1>2. secret # NoSecret /\ secret # Broken
  BY DispatchAssumption DEF DeriveChannelSecret, NoSecret, Broken
<1>3. Len(head) = 1 /\ head[1] = hash
  OBVIOUS
<1>4. key # Broken
  BY DEF IsContext
<1>5. SecretOf(m) = secret /\ m.type \notin ForPair /\ m.type # PayloadAnonReq
  BY <1>1 DEF SecretOf, ForPair, ForChannel, PayloadGrpTxt, PayloadGrpData, PayloadTxtMsg,
              PayloadReq, PayloadResponse, PayloadPath, PayloadAnonReq
<1>6. Len(head) \in Nat /\ PayloadOf(m) = Sealed(head, secret, plain)
  BY <1>3
<1> HIDE DEF head, secret, key
<1>7. /\ Opens(key, p.payload) =>
           p.whole /\ key = secret /\ p.payload.plain = Padded(plain)
      /\ p.whole /\ key = secret => Opens(key, p.payload)
      /\ p.payload.head = head
      /\ SizeOf(p.payload) = Len(head) + Len(p.payload.plain) + 2
  <2>1. HoldsSealed(p, head, secret, plain)
    BY <1>2, <1>6 DEF HoldsSealed
  <2>2. QED
    BY <1>4, <2>1, SealedIsOpened
<1>8. GroupError(key, p.payload, least) = Nil => Opens(key, p.payload)
  BY DEF GroupError, Nil
<1>9. ASSUME Opens(key, p.payload), key # NoSecret, NEW r
      PROVE  WasOpened(Item(p, r), SecretsIn(ctx))
  <2>1. Item(p, r).msg = m /\ Item(p, r).whole = p.whole
    BY DEF Item
  <2>2. SecretOf(m) \in SecretsIn(ctx) /\ p.whole
    BY <1>5, <1>7, <1>9 DEF SecretsIn, key
  <2>3. QED
    BY <1>5, <2>1, <2>2 DEF WasOpened
<1>10. ASSUME p.whole, Fits(ctx, m)
       PROVE  key # NoSecret /\ GroupError(key, p.payload, least) = Nil
  <2>1. key = secret
    BY <1>1, <1>5, <1>10 DEF Fits, key
  <2>2. Opens(key, p.payload) /\ p.payload.plain = Padded(plain)
    BY <1>7, <1>10, <2>1
  <2>3. p.payload.head[1] = ChannelHash(key)
    BY <1>3, <1>7, <2>1
  <2>4. ~ (SizeOf(p.payload) < least)
    <3>1. Padded(plain) \in Seq(Byte)
      BY PaddedIsBytes
    <3>2. Len(Padded(plain)) \in Nat
      BY <3>1
    <3>3. SizeOf(p.payload) = Len(Padded(plain)) + 3
      BY <1>3, <1>7, <2>2, <3>2
    <3>4. QED
      BY <3>2, <3>3
  <2>5. GroupError(key, p.payload, least) = Nil
    BY <2>2, <2>3, <2>4, Zenon DEF GroupError
  <2>6. QED
    BY <1>2, <2>1, <2>5
<1>11. QED
  BY <1>7, <1>8, <1>9, <1>10 DEF key

-----------------------------------------------------------------------------
(* ADVERT: its key, the time, a signature that every byte of it tells, and *)
(* the appdata.                                                            *)
AdvertByte == Byte \union Signature

SignatureFor(m) ==
  IF m.signed THEN [by |-> KeyOf[m.from], of |-> <<KeyOf[m.from], m.ts, m.appdata>>]
  ELSE [by |-> << >>, of |-> << >>]

AdvertUpTo(m, k) ==
  [pub |-> KeyOf[m.from], ts |-> m.ts, sig |-> SignatureFor(m), app |-> SubSeq(m.appdata, 1, k)]

IsAdvert(m) ==
  /\ m.from \in Identity /\ m.ts \in Word /\ m.signed \in BOOLEAN
  /\ m.appdata \in Seq(Byte)

LEMMA AdvertOfMessage ==
  ASSUME NEW m, IsAdvert(m)
  PROVE  /\ AdvertOf(m) = [pub |-> KeyOf[m.from], ts |-> m.ts, sig |-> SignatureFor(m),
                           app |-> m.appdata]
         /\ SignatureFor(m) \in Signature
<1> DEFINE key   == KeyOf[m.from]
           plain == [pub |-> key, ts |-> m.ts, sig |-> A!Unsigned, app |-> m.appdata]
<1>1. key \in Seq(Byte)
  BY HashIsByte DEF IsAdvert
<1>2. A!Unsigned = [by |-> << >>, of |-> << >>]
  BY DEF A!Unsigned
<1>3. A!SignAdvertPayload(plain, key)
        = [plain EXCEPT !.sig = [by |-> key, of |-> <<key, m.ts, m.appdata>>]]
  BY DEF A!SignAdvertPayload, A!SignatureOf, A!advertSignedMessage
<1>4. AdvertOf(m) = IF m.signed THEN A!SignAdvertPayload(plain, key) ELSE plain
  BY DEF AdvertOf
<1>5. AdvertOf(m) = [pub |-> key, ts |-> m.ts, sig |-> SignatureFor(m), app |-> m.appdata]
  BY <1>2, <1>3, <1>4 DEF SignatureFor
<1>6. SignatureFor(m) \in Signature
  BY <1>1 DEF SignatureFor, Signature, IsAdvert
<1>7. QED
  BY <1>5, <1>6

(* Two parts, the first of which has k places.                             *)
AreParts(all, x, y, k, S) ==
  /\ all \in Seq(S) /\ Len(all) = k + Len(y)
  /\ \A i \in 1 .. k : all[i] = x[i]
  /\ \A i \in 1 .. Len(y) : all[k + i] = y[i]
  /\ SubSeq(all, 1, k) = x /\ From(all, k + 1) = y

LEMMA PartsAt ==
  ASSUME NEW S, NEW x \in Seq(S), NEW y \in Seq(S), NEW k, Len(x) = k
  PROVE  AreParts(x \o y, x, y, k, S)
<1> DEFINE all == x \o y
<1>1. /\ all \in Seq(S) /\ Len(all) = Len(x) + Len(y)
      /\ \A i \in 1 .. Len(x) : all[i] = x[i]
      /\ \A i \in 1 .. Len(y) : all[Len(x) + i] = y[i]
  <2>1. all \in Seq(S)
    BY TwoParts, Zenon
  <2>2. Len(all) = Len(x) + Len(y)
    BY TwoParts, Zenon
  <2>3. \A i \in 1 .. Len(x) : all[i] = x[i]
    BY TwoParts, Zenon
  <2>4. ASSUME NEW i \in 1 .. Len(y) PROVE all[Len(x) + i] = y[i]
    BY TwoParts
  <2>5. QED
    BY <2>1, <2>2, <2>3, <2>4, Zenon
<1>2. SubSeq(all, 1, Len(x)) = x
  BY FirstPart, Zenon
<1>3. From(all, Len(x) + 1) = y
  BY FromBehind, Zenon
<1> HIDE DEF all
<1>4. AreParts(all, x, y, Len(x), S)
  BY <1>1, <1>2, <1>3, Zenon DEF AreParts
<1>5. QED
  BY <1>4 DEF all

LEMMA SameWord ==
  ASSUME NEW x, NEW y, NEW i, NEW j,
         x[i] = y[j], x[i + 1] = y[j + 1], x[i + 2] = y[j + 2], x[i + 3] = y[j + 3]
  PROVE  Uint32At(x, i) = Uint32At(y, j)
BY DEF Uint32At

LEMMA AdvertBytesFacts ==
  ASSUME NEW m, IsAdvert(m)
  PROVE  LET b == AdvertBytes(AdvertOf(m))
         IN  /\ b \in Seq(AdvertByte)
             /\ Len(b) = 100 + Len(m.appdata)
             /\ SubSeq(b, 1, 32) = KeyOf[m.from]
             /\ Uint32At(b, 33) = m.ts
             /\ \A i \in 37 .. 100 : b[i] = SignatureFor(m)
             /\ From(b, 101) = m.appdata
             /\ \A i \in 1 .. Len(b) : i \notin 37 .. 100 => b[i] \in Byte
<1> DEFINE key == KeyOf[m.from]
           u   == Uint32Bytes(m.ts)
           sig == SignatureFor(m)
           sg  == [i \in 1 .. 64 |-> sig]
           app == m.appdata
           ku  == key \o u
           kus == ku \o sg
           b   == kus \o app
           S   == AdvertByte
<1>1. AdvertBytes(AdvertOf(m)) = b
  <2> DEFINE adv == AdvertOf(m)
  <2>1. adv.pub = key /\ adv.ts = m.ts /\ adv.sig = sig /\ adv.app = app
    BY AdvertOfMessage
  <2> HIDE DEF adv, key, sig, app
  <2>2. AdvertBytes(adv) = ((key \o Uint32Bytes(m.ts)) \o [i \in 1 .. 64 |-> sig]) \o app
    BY <2>1, Zenon DEF AdvertBytes
  <2>3. QED
    BY <2>2 DEF adv
<1>2. \A x \in Seq(Byte) : x \in Seq(S)
  BY DEF AdvertByte
<1>3. /\ key \in Seq(Byte) /\ Len(key) = 32
      /\ u \in Seq(Byte) /\ Len(u) = 4 /\ Uint32At(u, 1) = m.ts
      /\ app \in Seq(Byte)
  BY HashIsByte, WordAlone DEF IsAdvert, KeySize
<1>4. sg \in Seq(S) /\ Len(sg) = 64 /\ \A i \in 1 .. 64 : sg[i] = sig
  BY AdvertOfMessage DEF AdvertByte
<1> HIDE DEF key, u, sig, sg, app, S
<1>5. /\ key \in Seq(S) /\ u \in Seq(S) /\ app \in Seq(S)
      /\ Len(app) \in Nat
  BY <1>2, <1>3
<1>6. /\ ku \in Seq(S) /\ Len(ku) = 36
      /\ \A i \in 1 .. 32 : ku[i] = key[i]
      /\ \A i \in 1 .. 4 : ku[32 + i] = u[i]
      /\ SubSeq(ku, 1, 32) = key
  <2>1. Len(key) = 32 /\ Len(u) = 4
    BY <1>3
  <2>2. AreParts(ku, key, u, 32, S)
    BY <1>5, <2>1, PartsAt, Zenon
  <2> HIDE DEF ku
  <2>3. QED
    BY <2>1, <2>2 DEF AreParts
<1> HIDE DEF ku
<1>7. /\ kus \in Seq(S) /\ Len(kus) = 100
      /\ \A i \in 1 .. 36 : kus[i] = ku[i]
      /\ \A i \in 1 .. 64 : kus[36 + i] = sg[i]
      /\ SubSeq(kus, 1, 36) = ku
  <2>1. ku \in Seq(S) /\ sg \in Seq(S) /\ Len(ku) = 36 /\ Len(sg) = 64
    BY <1>4, <1>6
  <2>2. AreParts(kus, ku, sg, 36, S)
    BY <2>1, PartsAt, Zenon
  <2> HIDE DEF kus
  <2>3. QED
    BY <2>1, <2>2 DEF AreParts
<1> HIDE DEF kus
<1>8. /\ b \in Seq(S) /\ Len(b) = 100 + Len(app)
      /\ \A i \in 1 .. 100 : b[i] = kus[i]
      /\ \A i \in 1 .. Len(app) : b[100 + i] = app[i]
      /\ SubSeq(b, 1, 100) = kus /\ From(b, 100 + 1) = app
  <2>1. AreParts(b, kus, app, 100, S)
    BY <1>5, <1>7, PartsAt, Zenon
  <2> HIDE DEF b
  <2>2. QED
    BY <2>1 DEF AreParts
<1> HIDE DEF b
<1>9. From(b, 101) = app
  BY <1>8
<1>10. SubSeq(b, 1, 32) = key
  <2>1. SubSeq(kus, 1, 32) = SubSeq(ku, 1, 32)
    <3>1. 36 \in 0 .. Len(kus) /\ 32 \in 0 .. 36
      BY <1>7
    <3>2. SubSeq(SubSeq(kus, 1, 36), 1, 32) = SubSeq(kus, 1, 32)
      BY <1>7, <3>1, BeginningOfBeginning
    <3>3. QED
      BY <1>7, <3>2
  <2>2. SubSeq(b, 1, 32) = SubSeq(kus, 1, 32)
    <3>1. 100 \in 0 .. Len(b) /\ 32 \in 0 .. 100
      BY <1>5, <1>8
    <3>2. SubSeq(SubSeq(b, 1, 100), 1, 32) = SubSeq(b, 1, 32)
      BY <1>8, <3>1, BeginningOfBeginning
    <3>3. QED
      BY <1>8, <3>2
  <2>3. QED
    BY <1>6, <2>1, <2>2
<1>11. Uint32At(b, 33) = m.ts
  <2>1. kus[33] = u[1] /\ kus[34] = u[2] /\ kus[35] = u[3] /\ kus[36] = u[4]
    <3>1. /\ ku[32 + 1] = u[1] /\ ku[32 + 2] = u[2]
          /\ ku[32 + 3] = u[3] /\ ku[32 + 4] = u[4]
      BY <1>6
    <3>2. kus[33] = ku[33] /\ kus[34] = ku[34] /\ kus[35] = ku[35] /\ kus[36] = ku[36]
      BY <1>7
    <3>3. QED
      BY <3>1, <3>2
  <2>2. b[33] = kus[33] /\ b[34] = kus[34] /\ b[35] = kus[35] /\ b[36] = kus[36]
    BY <1>8
  <2>3. /\ b[33] = u[1] /\ b[33 + 1] = u[1 + 1]
        /\ b[33 + 2] = u[1 + 2] /\ b[33 + 3] = u[1 + 3]
    BY <2>1, <2>2
  <2>4. Uint32At(b, 33) = Uint32At(u, 1)
    BY <2>3, SameWord
  <2>5. QED
    BY <1>3, <2>4
<1>12. ASSUME NEW i \in 37 .. 100
       PROVE  b[i] = sig
  <2> DEFINE j == i - 36
  <2>1. j \in 1 .. 64 /\ 36 + j = i /\ i \in 1 .. 100
    OBVIOUS
  <2> HIDE DEF j
  <2>2. kus[36 + j] = sg[j] /\ sg[j] = sig
    BY <1>4, <1>7, <2>1
  <2>3. b[i] = kus[i]
    BY <1>8, <2>1
  <2>4. QED
    BY <2>1, <2>2, <2>3
<1>13. ASSUME NEW i \in 1 .. Len(b), i \notin 37 .. 100
       PROVE  b[i] \in Byte
  <2>1. CASE i \in 1 .. 32
    <3>1. i \in 1 .. 36 /\ i \in 1 .. 100 /\ i \in 1 .. Len(key)
      BY <1>3, <2>1
    <3>2. b[i] = kus[i] /\ kus[i] = ku[i] /\ ku[i] = key[i]
      BY <1>6, <1>7, <1>8, <2>1, <3>1, Zenon
    <3>3. key[i] \in Byte
      BY <1>3, <3>1, ElementOfSeq, Zenon
    <3>4. QED
      BY <3>2, <3>3
  <2>2. CASE i \in 33 .. 36
    <3> DEFINE j == i - 32
    <3>1. /\ j \in 1 .. 4 /\ 32 + j = i /\ i \in 1 .. 36 /\ i \in 1 .. 100
          /\ j \in 1 .. Len(u)
      BY <1>3, <2>2
    <3> HIDE DEF j
    <3>2. ku[32 + j] = u[j]
      BY <1>6, <3>1
    <3>3. u[j] \in Byte
      BY <1>3, <3>1, ElementOfSeq, Zenon
    <3>4. b[i] = kus[i] /\ kus[i] = ku[i]
      BY <1>7, <1>8, <3>1
    <3>5. QED
      BY <3>1, <3>2, <3>3, <3>4
  <2>3. CASE i > 100
    <3> DEFINE j == i - 100
    <3>1. j \in 1 .. Len(app) /\ 100 + j = i
      BY <1>5, <1>8, <2>3
    <3> HIDE DEF j
    <3>2. b[100 + j] = app[j]
      BY <1>8, <3>1
    <3>3. app[j] \in Byte
      BY <1>3, <3>1
    <3>4. QED
      BY <3>1, <3>2, <3>3
  <2>4. i \in 1 .. 32 \/ i \in 33 .. 36 \/ i > 100
    BY <1>5, <1>8, <1>13
  <2>5. QED
    BY <2>1, <2>2, <2>3, <2>4
<1>14. QED
  BY <1>1, <1>8, <1>9, <1>10, <1>11, <1>12, <1>13 DEF key, sig, app, S

(* What is left of an advert, with at least its signature.                 *)
LEMMA AdvertLeft ==
  ASSUME NEW m, IsAdvert(m), NEW n \in Nat, 100 <= n, n <= 100 + Len(m.appdata)
  PROVE  AdvertIn(SubSeq(AdvertBytes(AdvertOf(m)), 1, n)) = AdvertUpTo(m, n - 100)
<1> DEFINE b    == AdvertBytes(AdvertOf(m))
           part == SubSeq(b, 1, n)
<1>1. /\ b \in Seq(AdvertByte)
      /\ Len(b) = 100 + Len(m.appdata)
      /\ SubSeq(b, 1, 32) = KeyOf[m.from]
      /\ Uint32At(b, 33) = m.ts
      /\ b[37] = SignatureFor(m)
      /\ From(b, 101) = m.appdata
  <2>1. 37 \in 37 .. 100
    OBVIOUS
  <2>2. QED
    BY <2>1, AdvertBytesFacts, Zenon
<1>2. Len(m.appdata) \in Nat
  BY DEF IsAdvert
<1> HIDE DEF b
<1>3. n \in 0 .. Len(b) /\ 32 \in 0 .. n /\ 100 \in 0 .. n
  BY <1>1, <1>2
<1>4. \A i \in 1 .. n : part[i] = b[i]
  BY <1>1, <1>3, BeginningFacts
<1>5. SubSeq(part, 1, 32) = KeyOf[m.from]
  BY <1>1, <1>3, BeginningOfBeginning
<1>6. From(part, 100 + 1) = SubSeq(From(b, 100 + 1), 1, n - 100)
  BY <1>1, <1>3, RestOfBeginning
<1>12. n >= 100
  OBVIOUS
<1> HIDE DEF part
<1>7. part[37] = SignatureFor(m)
  <2>1. 37 \in 1 .. n
    BY <1>12
  <2>2. QED
    BY <1>1, <1>4, <2>1, Zenon
<1>8. Uint32At(part, 33) = m.ts
  <2>1. part[33] = b[33] /\ part[33 + 1] = b[33 + 1] /\ part[33 + 2] = b[33 + 2]
        /\ part[33 + 3] = b[33 + 3]
    BY <1>4, <1>12
  <2>2. Uint32At(part, 33) = Uint32At(b, 33)
    BY <2>1, SameWord
  <2>3. QED
    BY <1>1, <2>2
<1>9. From(part, 101) = SubSeq(m.appdata, 1, n - 100)
  <2>1. 100 + 1 = 101
    OBVIOUS
  <2>2. QED
    BY <1>1, <1>6, <2>1, Zenon
<1>10. AdvertIn(part) = AdvertUpTo(m, n - 100)
  <2>1. KeySize + 1 = 33 /\ KeySize + 5 = 37 /\ KeySize + 69 = 101 /\ KeySize = 32
    BY DEF KeySize
  <2>2. AdvertIn(part) =
          [pub |-> SubSeq(part, 1, 32), ts |-> Uint32At(part, 33),
           sig |-> part[37], app |-> From(part, 101)]
    BY <2>1, Zenon DEF AdvertIn
  <2>3. QED
    BY <1>5, <1>7, <1>8, <1>9, <2>2, Zenon DEF AdvertUpTo
<1>11. QED
  BY <1>10 DEF part, b

(* A signature fits all of the advert or nothing.                          *)
LEMMA SignatureOfBeginning ==
  ASSUME NEW m, IsAdvert(m), NEW k \in 0 .. Len(m.appdata)
  PROVE  A!VerifyAdvertSignature(AdvertUpTo(m, k)) <=> ~m.signed \/ k = Len(m.appdata)
<1> DEFINE adv == AdvertUpTo(m, k)
           key == KeyOf[m.from]
           app == SubSeq(m.appdata, 1, k)
<1>1. /\ adv.sig = SignatureFor(m) /\ adv.pub = key
      /\ adv.ts = m.ts /\ adv.app = app
  BY DEF AdvertUpTo
<1>2. app \in Seq(Byte) /\ Len(app) = k
  BY BeginningFacts DEF IsAdvert
<1>3. app = m.appdata <=> k = Len(m.appdata)
  <2>1. k = Len(m.appdata) => app = m.appdata
    BY SubSeqFull DEF IsAdvert
  <2>2. QED
    BY <1>2, <2>1
<1> HIDE DEF adv, app
<1>4. A!VerifyAdvertSignature(adv) <=>
        \/ adv.sig = [by |-> << >>, of |-> << >>]
        \/ adv.sig = [by |-> key, of |-> <<key, m.ts, app>>]
  BY <1>1 DEF A!VerifyAdvertSignature, A!Unsigned, A!SignatureOf, A!advertSignedMessage
<1>5. CASE ~m.signed
  BY <1>1, <1>4, <1>5 DEF SignatureFor, adv
<1>6. CASE m.signed
  <2>1. adv.sig = [by |-> key, of |-> <<key, m.ts, m.appdata>>]
    BY <1>1, <1>6 DEF SignatureFor
  <2>2. key # << >>
    <3>1. Len(key) = 32
      BY HashIsByte DEF IsAdvert, KeySize
    <3>2. Len(<< >>) = 0
      OBVIOUS
    <3>3. 32 # 0
      OBVIOUS
    <3>4. QED
      BY <3>1, <3>2, <3>3, Zenon
  <2>3. A!VerifyAdvertSignature(adv) <=> app = m.appdata
    BY <1>4, <2>1, <2>2
  <2>4. QED
    BY <1>3, <1>6, <2>3 DEF adv
<1>7. QED
  BY <1>5, <1>6

(* What appdata without an error has.                                      *)
LEMMA CompleteAppdata ==
  ASSUME NEW app \in Seq(Byte)
  PROVE  A!AppdataError(app) = Nil <=> IsComplete(app)
<1>1. CASE app = << >>
  BY <1>1, Zenon DEF A!AppdataError, A!Nil, Nil, IsComplete
<1>2. CASE app # << >>
  <2> DEFINE n   == Len(app)
             f1  == A!Feat1At(app)
             f2  == A!Feat2At(app)
             end == A!NameAt(app)
             gps == A!GPS(app)
             h1  == A!Feat1(app)
             h2  == A!Feat2(app)
             on  == A!Int32In(app, 2) \in A!Latitude
             in  == A!Int32In(app, 6) \in A!Longitude
  <2>1. n \in Nat /\ n >= 1
    BY <1>2, EmptySeq
  <2>2. f1 = (IF gps THEN 10 ELSE 2) /\ f2 = (IF h1 THEN f1 + 2 ELSE f1)
        /\ end = (IF h2 THEN f2 + 2 ELSE f2)
    BY DEF A!Feat1At, A!Feat2At, A!NameAt, A!Bit
  <2>3. A!AppdataError(app) = Nil <=>
          /\ ~ (gps /\ n < 9)
          /\ ~ (gps /\ ~on)
          /\ ~ (gps /\ ~in)
          /\ ~ (h1 /\ f1 + 1 > n)
          /\ ~ (h2 /\ f2 + 1 > n)
    BY <1>2 DEF A!AppdataError, A!Nil, Nil
  <2>4. IsComplete(app) <=> end - 1 <= n /\ (gps => on /\ in)
    BY <1>2, Zenon DEF IsComplete
  <2> HIDE DEF n, f1, f2, end, gps, h1, h2, on, in
  <2>5. QED
    BY <2>1, <2>2, <2>3, <2>4
<1>3. QED
  BY <1>1, <1>2

(* The fields of an advert, of which the beginning of the appdata has all  *)
(* but the name when it is complete.                                       *)
FieldNames ==
  {"NodeType", "HasGPS", "Lat", "Lon", "HasFeat1", "Feature1", "HasFeat2", "Feature2", "Name"}

LEMMA NamesOfFields ==
  ASSUME NEW app
  PROVE  DOMAIN A!parseAdvertAppdata(app) = FieldNames
BY DEF A!parseAdvertAppdata, FieldNames

LEMMA FieldsOfBeginning ==
  ASSUME NEW app \in Seq(Byte), NEW k \in 1 .. Len(app), IsComplete(SubSeq(app, 1, k))
  PROVE  LET v   == A!parseAdvertAppdata(SubSeq(app, 1, k))
             all == A!parseAdvertAppdata(app)
         IN  /\ SameFields(v, all, DOMAIN Bare \ {"Name"})
             /\ v.Name = all.Name \/ IsStartOf(v.Name, NameIn(app))
             /\ k = Len(app) => v.Name = all.Name
<1> DEFINE q   == SubSeq(app, 1, k)
           v   == A!parseAdvertAppdata(q)
           all == A!parseAdvertAppdata(app)
           at  == A!NameAt(app)
<1>1. /\ k \in 0 .. Len(app) /\ k \in Nat /\ Len(app) \in Nat /\ app # << >>
      /\ q \in Seq(Byte) /\ Len(q) = k /\ \A i \in 1 .. k : q[i] = app[i]
  <2>1. k \in 0 .. Len(app) /\ k \in Nat /\ Len(app) \in Nat /\ Len(app) # 0
    OBVIOUS
  <2>2. QED
    BY <2>1, BeginningFacts, EmptySeq
<1>2. k = Len(app) => q = app
  BY <1>1, SubSeqFull
<1> HIDE DEF q
<1>3. q # << >> /\ q[1] = app[1]
  BY <1>1, EmptySeq
<1>4. /\ A!GPS(q) = A!GPS(app) /\ A!Feat1(q) = A!Feat1(app)
      /\ A!Feat2(q) = A!Feat2(app) /\ A!Named(q) = A!Named(app)
  BY <1>3 DEF A!GPS, A!Feat1, A!Feat2, A!Named
<1>5. A!Feat1At(q) = A!Feat1At(app) /\ A!Feat2At(q) = A!Feat2At(app) /\ A!NameAt(q) = at
  BY <1>4 DEF A!Feat1At, A!Feat2At, A!NameAt
<1>6. /\ A!Feat1At(app) = IF A!GPS(app) THEN 10 ELSE 2
      /\ A!Feat2At(app) = IF A!Feat1(app) THEN A!Feat1At(app) + 2 ELSE A!Feat1At(app)
      /\ at = IF A!Feat2(app) THEN A!Feat2At(app) + 2 ELSE A!Feat2At(app)
  BY DEF A!Feat1At, A!Feat2At, A!NameAt, A!Bit
<1>7. at - 1 <= k
  <2>1. IsComplete(q)
    BY Zenon DEF q
  <2>2. A!NameAt(q) - 1 <= Len(q)
    BY <1>3, <2>1, Zenon DEF IsComplete
  <2>3. QED
    BY <1>1, <1>5, <2>2
<1>8. A!GPS(app) => /\ A!Int32In(q, 2) = A!Int32In(app, 2)
                    /\ A!Int32In(q, 6) = A!Int32In(app, 6)
  <2>1. SUFFICES ASSUME A!GPS(app)
                 PROVE  /\ A!Int32In(q, 2) = A!Int32In(app, 2)
                        /\ A!Int32In(q, 6) = A!Int32In(app, 6)
    OBVIOUS
  <2>2. k >= 9
    BY <1>1, <1>6, <1>7, <2>1
  <2>3. /\ q[2] = app[2] /\ q[2 + 1] = app[2 + 1] /\ q[2 + 2] = app[2 + 2] /\ q[2 + 3] = app[2 + 3]
        /\ q[6] = app[6] /\ q[6 + 1] = app[6 + 1] /\ q[6 + 2] = app[6 + 2] /\ q[6 + 3] = app[6 + 3]
    BY <1>1, <2>2
  <2>4. QED
    BY <2>3 DEF A!Int32In
<1>9. /\ A!Feat1(app) => A!Uint16In(q, A!Feat1At(app)) = A!Uint16In(app, A!Feat1At(app))
      /\ A!Feat2(app) => A!Uint16In(q, A!Feat2At(app)) = A!Uint16In(app, A!Feat2At(app))
  BY <1>1, <1>6, <1>7 DEF A!Uint16In
<1>10. SameFields(v, all, DOMAIN Bare \ {"Name"})
  <2>1. /\ v.NodeType = all.NodeType /\ v.HasGPS = all.HasGPS
        /\ v.HasFeat1 = all.HasFeat1 /\ v.HasFeat2 = all.HasFeat2
    BY <1>1, <1>3, <1>4 DEF A!parseAdvertAppdata
  <2>2. v.Lat = all.Lat /\ v.Lon = all.Lon
    BY <1>1, <1>3, <1>4, <1>8 DEF A!parseAdvertAppdata
  <2>3. v.Feature1 = all.Feature1 /\ v.Feature2 = all.Feature2
    BY <1>1, <1>3, <1>4, <1>5, <1>9 DEF A!parseAdvertAppdata
  <2>4. DOMAIN Bare = FieldNames
    BY NamesOfFields DEF Bare
  <2> HIDE DEF v, all
  <2>5. QED
    BY <2>1, <2>2, <2>3, <2>4 DEF SameFields, FieldNames
<1>11. /\ v.Name = IF A!Named(app) THEN A!TrimSpace(A!UpToNul(SubSeq(q, at, k))) ELSE << >>
       /\ all.Name = IF A!Named(app) THEN A!TrimSpace(A!UpToNul(NameIn(app))) ELSE << >>
  BY <1>1, <1>3, <1>4, <1>5 DEF A!parseAdvertAppdata, NameIn
<1>12. SubSeq(q, at, k) = SubSeq(NameIn(app), 1, k - (at - 1))
       /\ k - (at - 1) \in 0 .. Len(NameIn(app))
  <2> DEFINE j == at - 1
  <2>1. j \in 0 .. k /\ at = j + 1
    BY <1>1, <1>6, <1>7
  <2> HIDE DEF j, at
  <2>2. From(q, j + 1) = SubSeq(From(app, j + 1), 1, k - j)
    BY <1>1, <2>1, RestOfBeginning DEF q
  <2>3. From(q, j + 1) = SubSeq(q, at, k) /\ From(app, j + 1) = NameIn(app)
    BY <1>1, <2>1 DEF From, NameIn, at
  <2>4. Len(NameIn(app)) = Len(app) - j
    <3>1. j \in Nat /\ j <= Len(app)
      BY <1>1, <2>1
    <3>2. QED
      BY <2>3, <3>1, FromFacts
  <2>5. k - j \in 0 .. Len(NameIn(app))
    BY <1>1, <2>1, <2>4
  <2>6. QED
    BY <2>2, <2>3, <2>5 DEF j
<1> HIDE DEF v, all, at
<1>13. v.Name = all.Name \/ IsStartOf(v.Name, NameIn(app))
  BY <1>11, <1>12, Zenon DEF IsStartOf
<1>14. k = Len(app) => v.Name = all.Name
  BY <1>2 DEF v, all
<1>15. QED
  BY <1>10, <1>13, <1>14 DEF v, all, q

LEMMA AdvertFields ==
  ASSUME NEW m, NEW k
  PROVE  LET v == A!DecodedAdvert(AdvertUpTo(m, k))
             f == A!parseAdvertAppdata(SubSeq(m.appdata, 1, k))
         IN  /\ v.PublicKey = KeyOf[m.from] /\ v.Timestamp = m.ts
             /\ SameFields(v, f, FieldNames)
<1> DEFINE f   == A!parseAdvertAppdata(SubSeq(m.appdata, 1, k))
           adv == AdvertUpTo(m, k)
<1>1. adv.pub = KeyOf[m.from] /\ adv.ts = m.ts /\ adv.app = SubSeq(m.appdata, 1, k)
  BY DEF AdvertUpTo
<1> HIDE DEF adv
<1>2. A!DecodedAdvert(adv) =
        [PublicKey |-> KeyOf[m.from], Timestamp |-> m.ts, Signature |-> adv.sig,
         NodeType |-> f.NodeType, HasGPS |-> f.HasGPS, Lat |-> f.Lat, Lon |-> f.Lon,
         HasFeat1 |-> f.HasFeat1, Feature1 |-> f.Feature1,
         HasFeat2 |-> f.HasFeat2, Feature2 |-> f.Feature2, Name |-> f.Name]
  BY <1>1, Zenon DEF A!DecodedAdvert
<1> HIDE DEF f
<1>3. QED
  BY <1>2 DEF SameFields, FieldNames, adv, f

(* Whether what is left is read, and as what.                              *)
LEMMA AdvertIsSaid ==
  ASSUME NEW m, IsAdvert(m), NEW k \in 0 .. Len(m.appdata),
         A!DecodeAdvertError(AdvertUpTo(m, k)) = Nil,
         NEW r, r.whole \in BOOLEAN, r.whole => k = Len(m.appdata)
  PROVE  SaysAdvert(r, m, A!DecodedAdvert(AdvertUpTo(m, k)))
<1> DEFINE app  == m.appdata
           part == SubSeq(app, 1, k)
           adv  == AdvertUpTo(m, k)
           v    == A!DecodedAdvert(adv)
           f    == A!parseAdvertAppdata(part)
           all  == A!parseAdvertAppdata(app)
           lost == ~r.whole /\ ~m.signed
<1>1. app \in Seq(Byte) /\ part \in Seq(Byte) /\ Len(part) = k
  BY BeginningFacts DEF IsAdvert
<1>2. A!VerifyAdvertSignature(adv) /\ A!AppdataError(part) = Nil
  <2>1. "ErrAdvertBadSignature" # Nil
    BY DEF Nil
  <2>2. adv.app = part
    BY DEF AdvertUpTo
  <2>3. QED
    BY <2>1, <2>2, Zenon DEF A!DecodeAdvertError
<1>3. ~m.signed \/ k = Len(app)
  BY <1>2, SignatureOfBeginning
<1>4. v.PublicKey = KeyOf[m.from] /\ v.Timestamp = m.ts /\ SameFields(v, f, FieldNames)
  BY AdvertFields
<1>5. DOMAIN Bare = FieldNames
  BY NamesOfFields DEF Bare
<1>6. k = Len(app) => part = app
  BY <1>1, SubSeqFull
<1>7. m.signed \in BOOLEAN
  BY DEF IsAdvert
<1> HIDE DEF app, part, adv, v, f, all
<1>8. k \in Nat /\ k \in 0 .. Len(app)
  BY DEF app
<1>9. CASE part = app
  <2>1. f = all
    BY <1>9 DEF f, all
  <2>2. SameFields(v, all, FieldNames)
    BY <1>4, <2>1
  <2>3. SameFields(v, all, FieldNames \ {"Name"}) /\ v.Name = all.Name
    BY <2>2 DEF SameFields, FieldNames
  <2>4. QED
    BY <1>4, <1>5, <2>3, Zenon DEF SaysAdvert, v, adv, all, app
<1>10. CASE part # app
  <2>1. lost
    BY <1>3, <1>6, <1>7, <1>10 DEF app
  <2>2. CASE k = 0
    <3>1. part = << >>
      BY <1>1, <2>2, EmptySeq
    <3>2. f = Bare
      BY <3>1 DEF f, Bare
    <3>3. SameFields(v, Bare, DOMAIN Bare)
      BY <1>4, <1>5, <3>2
    <3>4. QED
      BY <1>4, <2>1, <3>3, Zenon DEF SaysAdvert, v, adv, app
  <2>3. CASE k # 0
    <3>1. k \in 1 .. Len(app)
      BY <1>8, <2>3
    <3>2. IsComplete(part)
      BY <1>1, <1>2, CompleteAppdata
    <3>3. /\ SameFields(f, all, DOMAIN Bare \ {"Name"})
          /\ f.Name = all.Name \/ IsStartOf(f.Name, NameIn(app))
      BY <1>1, <3>1, <3>2, FieldsOfBeginning DEF f, all, part
    <3>4. v.Name = f.Name
      BY <1>4 DEF SameFields, FieldNames
    <3>5. SameFields(v, all, DOMAIN Bare \ {"Name"})
      BY <1>4, <1>5, <3>3, Zenon DEF SameFields
    <3>6. v.Name = all.Name \/ (lost /\ IsStartOf(v.Name, NameIn(app)))
      BY <2>1, <3>3, <3>4
    <3>7. QED
      BY <1>4, <3>5, <3>6, Zenon DEF SaysAdvert, v, adv, all, app
  <2>4. QED
    BY <2>2, <2>3
<1>11. QED
  BY <1>9, <1>10

LEMMA AdvertOnTheWay ==
  ASSUME NEW p, IsReceived(p), p.type = PayloadAdvert
  PROVE  /\ IsAdvert(p.msg) /\ p.whole \in BOOLEAN /\ Len(p.msg.appdata) \in Nat
         /\ \E n \in 0 .. 100 + Len(p.msg.appdata) :
              /\ p.payload = Clear(SubSeq(AdvertBytes(AdvertOf(p.msg)), 1, n))
              /\ p.whole => n = 100 + Len(p.msg.appdata)
<1> DEFINE m == p.msg
           b == AdvertBytes(AdvertOf(m))
<1>1. m \in Message /\ m.type = PayloadAdvert /\ p.whole \in BOOLEAN
  BY ReceivedFacts
<1>2. IsAdvert(m)
  BY <1>1, MessageFields, Zenon DEF IsAdvert
<1>3. b \in Seq(AdvertByte) /\ Len(b) = 100 + Len(m.appdata)
  BY <1>2, AdvertBytesFacts
<1>4. PayloadOf(m) = Clear(b)
  BY <1>1, PayloadByType
<1> HIDE DEF b
<1>5. PICK n \in 0 .. Len(b) : /\ p.payload = Clear(SubSeq(b, 1, n))
                               /\ p.whole => n = Len(b)
  BY <1>3, <1>4, ClearLeftOf
<1>6. Len(m.appdata) \in Nat
  BY <1>2 DEF IsAdvert
<1>7. QED
  BY <1>1, <1>2, <1>3, <1>5, <1>6 DEF b

LEMMA AdvertIsRead ==
  ASSUME NEW p, IsReceived(p), p.type = PayloadAdvert, NEW ctx
  PROVE  IsRead(p, ctx, Reading(p, ctx))
<1> DEFINE m == p.msg
           b == AdvertBytes(AdvertOf(m))
<1>1. IsAdvert(m) /\ p.whole \in BOOLEAN /\ Len(m.appdata) \in Nat
  BY AdvertOnTheWay
<1>2. PICK n \in 0 .. 100 + Len(m.appdata) :
        /\ p.payload = Clear(SubSeq(b, 1, n))
        /\ p.whole => n = 100 + Len(m.appdata)
  BY AdvertOnTheWay
<1>3. Reading(p, ctx) = DecodeAdvert(p.payload)
  BY ReadingByType
<1>4. p.payload.head = SubSeq(b, 1, n) /\ Len(SubSeq(b, 1, n)) = n
  <2>1. b \in Seq(AdvertByte) /\ Len(b) = 100 + Len(m.appdata)
    BY <1>1, AdvertBytesFacts
  <2> HIDE DEF b
  <2>2. Len(SubSeq(b, 1, n)) = n
    BY <2>1, BeginningFacts
  <2>3. QED
    BY <1>2, <2>2, ClearFields
<1>5. KeySize + 68 = 100
  BY DEF KeySize
<1>6. p.type # PayloadRawCustom /\ p.msg.type \in ClearTypes
  BY ReceivedFacts DEF PayloadAdvert, PayloadRawCustom, ClearTypes
<1>7. CASE n < 100
  <2> DEFINE r == Failure("ErrAdvertTooShort")
  <2>1. Reading(p, ctx) = r
    BY <1>3, <1>4, <1>5, <1>7, Zenon DEF DecodeAdvert
  <2>2. r.err # Nil
    BY DEF Failure, Nil
  <2>3. ~p.whole
    BY <1>1, <1>2, <1>7
  <2> HIDE DEF r
  <2>4. QED
    BY <2>1, <2>2, <2>3, Zenon DEF IsRead
<1>8. CASE n >= 100
  <2> DEFINE k   == n - 100
             adv == AdvertUpTo(m, k)
             err == A!DecodeAdvertError(adv)
             v   == A!DecodedAdvert(adv)
  <2>1. k \in 0 .. Len(m.appdata) /\ (p.whole => k = Len(m.appdata))
    BY <1>1, <1>2, <1>8
  <2>2. AdvertIn(p.payload.head) = adv
    <3>1. n \in Nat /\ n <= 100 + Len(m.appdata) /\ 100 <= n
      BY <1>1, <1>8
    <3>2. QED
      BY <1>1, <1>4, <3>1, AdvertLeft
  <2>3. ~ (Len(p.payload.head) < KeySize + 68)
    BY <1>4, <1>5, <1>8
  <2>4. Reading(p, ctx) = IF err # Nil THEN Failure(err) ELSE Result("Advert", v)
    BY <1>3, <2>2, <2>3, Zenon DEF DecodeAdvert
  <2> HIDE DEF k
  <2>5. p.whole => (err = Nil <=> IsComplete(m.appdata))
    <3>1. SUFFICES ASSUME p.whole PROVE err = Nil <=> IsComplete(m.appdata)
      OBVIOUS
    <3>2. A!VerifyAdvertSignature(adv)
      BY <1>1, <2>1, <3>1, SignatureOfBeginning
    <3>3. adv.app = m.appdata
      BY <1>1, <2>1, <3>1, SubSeqFull DEF AdvertUpTo, IsAdvert
    <3>4. err = A!AppdataError(m.appdata)
      BY <3>2, <3>3, Zenon DEF A!DecodeAdvertError
    <3>5. QED
      BY <1>1, <3>4, CompleteAppdata DEF IsAdvert
  <2> HIDE DEF err
  <2>6. CASE err # Nil
    <3> DEFINE r == Failure(err)
    <3>1. Reading(p, ctx) = r
      BY <2>4, <2>6
    <3>2. r.err = err /\ r.as = "nothing"
      BY DEF Failure
    <3> HIDE DEF r
    <3>3. p.whole => ReadsWell(p, r)
      BY <1>6, <2>5, <2>6, <3>2 DEF ReadsWell
    <3>4. QED
      BY <2>6, <3>1, <3>2, <3>3, Zenon DEF IsRead
  <2>7. CASE err = Nil
    <3> DEFINE r    == Result("Advert", v)
               item == Item(p, r)
    <3>1. Reading(p, ctx) = r
      BY <2>4, <2>7
    <3>2. /\ r.err = Nil /\ r.as = "Advert"
          /\ item.msg = m /\ item.whole = p.whole /\ item.as = "Advert" /\ item.value = v
      BY ItemFields
    <3> HIDE DEF r, item
    <3>3. SaysAdvert(item, m, v)
      BY <1>1, <2>1, <2>7, <3>2, AdvertIsSaid DEF err
    <3>4. SaysWhatWasWritten(item)
      BY <3>2, <3>3 DEF SaysWhatWasWritten
    <3>5. WasOpened(item, SecretsIn(ctx))
      BY <1>6, InClearIsOpen DEF item
    <3>6. p.whole => ReadsWell(p, r)
      BY <1>6, <2>5, <2>7, <3>2 DEF ReadsWell
    <3>7. r.as # "Decoded"
      BY <3>2
    <3>8. QED
      BY <3>1, <3>4, <3>5, <3>6, <3>7, Zenon DEF IsRead, item
  <2>8. QED
    BY <2>6, <2>7
<1>9. QED
  BY <1>1, <1>7, <1>8

LEMMA AdvertIsTyped ==
  ASSUME NEW p, IsReceived(p), p.type = PayloadAdvert
  PROVE  IsPayload(p.type, p.payload) /\ Len(EndOf(p.payload)) \in Nat
<1> DEFINE m == p.msg
           b == AdvertBytes(AdvertOf(m))
           x == SubSeq(b, 1, Len(p.payload.head))
<1>1. IsAdvert(m) /\ Len(m.appdata) \in Nat
  BY AdvertOnTheWay
<1>2. PICK n \in 0 .. 100 + Len(m.appdata) : p.payload = Clear(SubSeq(b, 1, n))
  BY AdvertOnTheWay
<1>3. /\ b \in Seq(AdvertByte) /\ Len(b) = 100 + Len(m.appdata)
      /\ \A i \in 37 .. 100 : b[i] = SignatureFor(m)
      /\ \A i \in 1 .. Len(b) : i \notin 37 .. 100 => b[i] \in Byte
  BY <1>1, AdvertBytesFacts
<1>4. SignatureFor(m) \in Signature
  BY <1>1, AdvertOfMessage
<1> HIDE DEF b
<1> DEFINE part == SubSeq(b, 1, n)
<1>5. part \in Seq(AdvertByte) /\ Len(part) = n /\ \A i \in 1 .. n : part[i] = b[i]
  <2>1. b \in Seq(AdvertByte) /\ n \in 0 .. Len(b)
    BY <1>3
  <2>2. QED
    BY <2>1, BeginningFacts
<1>6. p.payload.head = part /\ p.payload.secret = NoSecret /\ p.payload.plain = << >>
  BY <1>2, ClearFields
<1> HIDE DEF part
<1>7. SignatureAt = 37 .. 100
  BY DEF SignatureAt, KeySize
<1>8. \A i \in DOMAIN part : part[i] \in IF i \in 37 .. 100 THEN Signature ELSE Byte
  <2>1. SUFFICES ASSUME NEW i \in DOMAIN part
                 PROVE  part[i] \in IF i \in 37 .. 100 THEN Signature ELSE Byte
    OBVIOUS
  <2>2. i \in 1 .. n
    BY <1>1, <1>5, <2>1
  <2>3. i \in 1 .. Len(b)
    <3>1. n \in Nat /\ Len(b) \in Nat /\ n <= Len(b)
      <4>1. Len(b) = 100 + Len(m.appdata) /\ Len(m.appdata) \in Nat
        BY <1>1, <1>3, Zenon
      <4> HIDE DEF m
      <4>2. QED
        BY <4>1
    <3>2. QED
      BY <2>2, <3>1
  <2>4. part[i] = b[i]
    BY <1>5, <2>2, Zenon
  <2>5. QED
    BY <1>3, <1>4, <2>3, <2>4, Zenon
<1>9. << >> \in Seq(Byte)
  OBVIOUS
<1>10. IsPayload(p.type, p.payload)
  BY <1>6, <1>7, <1>8, <1>9, Zenon DEF IsPayload
<1>11. Len(EndOf(p.payload)) \in Nat
  BY <1>5, <1>6 DEF EndOf
<1>12. QED
  BY <1>10, <1>11

-----------------------------------------------------------------------------
(* MULTIPART: four bits of remaining, and what there is of the ACK. *)
LEMMA MultipartIsRead ==
  ASSUME NEW p, IsReceived(p), p.type = PayloadMultipart, NEW ctx
  PROVE  IsRead(p, ctx, Reading(p, ctx))
<1> DEFINE m    == p.msg
           ack  == Uint32Bytes(m.crc)
           b    == ((m.remaining * 16) % 256) + PayloadAck
           head == <<b>> \o ack
<1>1. m \in Message /\ m.type = PayloadMultipart /\ p.whole \in BOOLEAN
  BY ReceivedFacts
<1>2. m.remaining \in Byte /\ m.crc \in Word
  BY <1>1, MessageFields
<1>3. ack \in Seq(Byte) /\ Len(ack) = 4
  BY <1>2, WordAlone
<1>4. b \in Byte /\ b \div 16 = m.remaining % 16 /\ b % 16 = PayloadAck
  BY <1>2, SMT DEF Byte, PayloadAck
<1>5. PayloadOf(m) = Clear(head)
  BY <1>1, PayloadByType DEF MultipartAckPayload
<1> HIDE DEF ack, b
<1>6. /\ head \in Seq(Byte) /\ Len(head) = 1 + Len(ack)
      /\ head[1] = b /\ From(head, 2) = ack
  BY <1>3, <1>4, ByteThen
<1> HIDE DEF head
<1>7. Len(head) = 5
  BY <1>3, <1>6
<1>8. PICK n \in 0 .. 5 : p.payload = Clear(SubSeq(head, 1, n)) /\ (p.whole => n = 5)
  BY <1>5, <1>6, <1>7, ClearLeft
<1> DEFINE part == SubSeq(head, 1, n)
<1>9. Len(part) = n /\ \A i \in 1 .. n : part[i] = head[i]
  BY <1>6, <1>7, <1>8, BeginningFacts
<1>10. p.payload.head = part
  BY <1>8, ClearFields
<1>11. Reading(p, ctx) = DecodeMultipartPayload(p.payload)
  BY ReadingByType
<1>12. IsReadable(p)
  BY DEF PayloadMultipart, PayloadRawCustom, PayloadAdvert, IsReadable
<1>13. CASE n < 1
  <2>1. Reading(p, ctx) = Failure("PayloadTooShort")
    BY <1>9, <1>10, <1>11, <1>13 DEF DecodeMultipartPayload
  <2>2. ~p.whole /\ "PayloadTooShort" # Nil
    BY <1>8, <1>13 DEF Nil
  <2>3. QED
    BY <1>12, <2>1, <2>2, FailureIsRead
<1>14. CASE n >= 1
  <2> DEFINE rest == From(part, 2)
             v    == [remaining |-> part[1] \div 16, innerType |-> part[1] % 16,
                      innerPayload |-> rest]
             r    == Result("Multipart", v)
             item == Item(p, r)
  <2>1. part[1] = b
    BY <1>6, <1>9, <1>14
  <2>2. IF p.whole THEN rest = ack ELSE IsPrefix(rest, ack)
    <3>1. 1 \in 0 .. n /\ n \in 0 .. Len(head) /\ (p.whole => n = Len(head))
      BY <1>7, <1>8, <1>14
    <3>2. IF p.whole THEN From(SubSeq(head, 1, n), 1 + 1) = From(head, 1 + 1)
          ELSE IsPrefix(From(SubSeq(head, 1, n), 1 + 1), From(head, 1 + 1))
      BY <1>1, <1>6, <3>1, RestIsLeft
    <3>3. QED
      BY <1>6, <3>2
  <2>3. Reading(p, ctx) = r
    <3> HIDE DEF part
    <3>1. ~ (Len(part) < 1)
      BY <1>9, <1>14
    <3>2. QED
      BY <1>10, <1>11, <3>1, Zenon DEF DecodeMultipartPayload
  <2>4. /\ r.err = Nil /\ r.as = "Multipart"
        /\ item.msg = m /\ item.whole = p.whole /\ item.as = "Multipart" /\ item.value = v
    <3> HIDE DEF v
    <3>1. QED
      BY ItemFields
  <2>5. /\ v.remaining = m.remaining % 16 /\ v.innerType = PayloadAck
        /\ v.innerPayload = rest
    BY <1>4, <2>1
  <2> HIDE DEF r, item, v, rest, part
  <2>6. SaysMultipart(item, m, v)
    BY <2>2, <2>4, <2>5 DEF SaysMultipart, IsWhatIsLeft, ack
  <2>7. SaysWhatWasWritten(item)
    BY <2>4, <2>6 DEF SaysWhatWasWritten
  <2>8. WasOpened(item, SecretsIn(ctx))
    BY <1>1, InClearIsOpen DEF ClearTypes, item
  <2>9. r.as \notin {"Raw", "Decoded"}
    BY <2>4
  <2>10. QED
    BY <1>12, <2>3, <2>4, <2>7, <2>8, <2>9, ResultIsRead DEF item
<1>15. QED
  BY <1>8, <1>13, <1>14

-----------------------------------------------------------------------------
(* RESPONSE: the plaintext is the data and its padding. *)
LEMMA ResponseIsRead ==
  ASSUME NEW p, IsReceived(p), p.type = PayloadResponse, NEW ctx, IsContext(ctx)
  PROVE  IsRead(p, ctx, Reading(p, ctx))
<1> DEFINE m   == p.msg
           key == ctx.shared16
<1>1. m \in Message /\ m.type = PayloadResponse /\ p.whole \in BOOLEAN
  BY ReceivedFacts
<1>2. m.data \in Seq(Byte)
  BY <1>1, MessageFields
<1>3. PayloadOf(m) = PairPayload(PairSecret(m), Hash(m.to), Hash(m.from), m.data)
  BY <1>1, PayloadByType
<1>4. p.type \in ForPair /\ IsReadable(p)
  BY DEF ForPair, PayloadResponse, PayloadRawCustom, PayloadAdvert, IsReadable
<1>5. /\ Opens(key, p.payload) =>
           /\ p.whole /\ p.payload.plain = Padded(m.data)
           /\ \A r : key # NoSecret => WasOpened(Item(p, r), SecretsIn(ctx))
      /\ p.whole /\ Fits(ctx, m) => key # NoSecret /\ Opens(key, p.payload)
      /\ Len(p.payload.plain) \in Nat
      /\ SizeOf(p.payload) = 4 + Len(p.payload.plain)
  BY <1>2, <1>3, <1>4, PairIsOpened
<1>6. Reading(p, ctx) = IF key = NoSecret THEN Raw(p) ELSE DecodeResponsePayload(key, p.payload)
  BY ReadingByType
<1>7. CASE key = NoSecret
  <2>1. Reading(p, ctx) = Raw(p)
    BY <1>6, <1>7
  <2>2. QED
    BY <1>5, <1>7, <2>1, OpaqueIsRead
<1>8. CASE key # NoSecret /\ ~Opens(key, p.payload)
  <2>1. EnvelopeError(key, p.payload) \in {"PayloadTooShort", "WrongSecret"}
    BY <1>8 DEF EnvelopeError
  <2> DEFINE e == EnvelopeError(key, p.payload)
  <2>2. e # Nil
    BY <2>1 DEF Nil
  <2>3. Reading(p, ctx) = Failure(e)
    BY <1>6, <1>8, <2>2, Zenon DEF DecodeResponsePayload
  <2> HIDE DEF e
  <2>4. QED
    BY <1>4, <1>5, <1>8, <2>2, <2>3, FailureIsRead
<1>9. CASE key # NoSecret /\ Opens(key, p.payload)
  <2> DEFINE v    == [destHash |-> p.payload.head[1], srcHash |-> p.payload.head[2],
                      data |-> p.payload.plain]
             r    == Result("Response", v)
             item == Item(p, r)
  <2>1. EnvelopeError(key, p.payload) = Nil
    BY <1>5, <1>9 DEF EnvelopeError, CipherMACSize
  <2>2. Reading(p, ctx) = r
    BY <1>6, <1>9, <2>1, Zenon DEF DecodeResponsePayload
  <2>3. r.err = Nil /\ r.as = "Response" /\ item.msg = m /\ item.as = "Response" /\ item.value = v
    BY ItemFields
  <2>4. v.data = Padded(m.data)
    BY <1>5, <1>9
  <2> HIDE DEF r, item, v
  <2>5. SaysWhatWasWritten(item)
    BY <1>2, <2>3, <2>4, PaddedIsBytes DEF SaysWhatWasWritten
  <2>6. WasOpened(item, SecretsIn(ctx))
    BY <1>5, <1>9 DEF item
  <2>7. r.as \notin {"Raw", "Decoded"}
    BY <2>3
  <2>8. QED
    BY <1>4, <2>2, <2>3, <2>5, <2>6, <2>7, ResultIsRead DEF item
<1>10. QED
  BY <1>7, <1>8, <1>9

(* A body for which a decoder is registered. *)
LEMMA BodyFacts ==
  ASSUME NEW reg, NEW map, NEW key, NEW body, NEW otherwise
  PROVE  Body(reg, map, key, body, otherwise) \in
           {otherwise, Failure("BodyDecoder"),
            Result("Decoded", [map |-> map, key |-> key, body |-> body])}
<1> DEFINE decoders == Registered(reg, map, key)
           decoder  == CHOOSE d \in decoders : TRUE
<1>1. CASE decoders = {}
  BY <1>1 DEF Body
<1>2. CASE decoders # {}
  <2>1. decoder \in decoders
    BY <1>2
  <2>2. decoder.key = key
    BY <2>1 DEF Registered
  <2>3. Body(reg, map, key, body, otherwise) =
          IF decoder.accepts
          THEN Result("Decoded", [map |-> map, key |-> decoder.key, body |-> body])
          ELSE Failure("BodyDecoder")
    BY <1>2, Zenon DEF Body
  <2> HIDE DEF decoder, decoders
  <2>4. QED
    BY <2>2, <2>3
<1>3. QED
  BY <1>1, <1>2

LEMMA DecodedIsRead ==
  ASSUME NEW p, NEW ctx, IsReadable(p), NEW v,
         IsForRequests(Item(p, Result("Decoded", v)))
           \/ IsForControl(Item(p, Result("Decoded", v))),
         WasOpened(Item(p, Result("Decoded", v)), SecretsIn(ctx))
  PROVE  IsRead(p, ctx, Result("Decoded", v))
<1> DEFINE r    == Result("Decoded", v)
           item == Item(p, r)
<1>1. r.err = Nil /\ r.as = "Decoded" /\ item.as = "Decoded"
  BY ItemFields
<1>2. (IsForRequests(item) \/ IsForControl(item)) /\ WasOpened(item, SecretsIn(ctx))
  OBVIOUS
<1> HIDE DEF r
<1>3. SaysWhatWasWritten(item)
  <2> HIDE DEF item
  <2>1. QED
    BY <1>1, <1>2, Zenon DEF SaysWhatWasWritten
<1>4. p.whole /\ Fits(ctx, p.msg) => ReadsWell(p, r)
  BY <1>1 DEF ReadsWell, IsReadable
<1>5. QED
  BY <1>2, <1>3, <1>4, Zenon DEF IsRead, r

-----------------------------------------------------------------------------
(* REQ: a timestamp, and a body that begins with its type. *)
LEMMA ReqIsRead ==
  ASSUME NEW p, IsReceived(p), p.type = PayloadReq, NEW ctx, IsContext(ctx)
  PROVE  IsRead(p, ctx, Reading(p, ctx))
<1> DEFINE m     == p.msg
           key   == ctx.shared16
           x     == <<m.reqType>> \o m.data
           plain == Uint32Bytes(m.ts) \o x
<1>1. m \in Message /\ m.type = PayloadReq /\ p.whole \in BOOLEAN
  BY ReceivedFacts
<1>2. m.reqType \in Byte /\ m.data \in Seq(Byte) /\ m.ts \in Word
  BY <1>1, MessageFields
<1>3. x \in Seq(Byte) /\ Len(x) = 1 + Len(m.data) /\ x[1] = m.reqType
  BY <1>2, ByteThen
<1>4. plain \in Seq(Byte) /\ plain = Uint32Bytes(m.ts) \o <<m.reqType>> \o m.data
  <2> DEFINE u == Uint32Bytes(m.ts)
             b == <<m.reqType>>
  <2>1. u \in Seq(Byte) /\ b \in Seq(Byte)
    BY <1>2, WordAlone
  <2>2. plain = u \o b \o m.data
    <3> HIDE DEF u, b
    <3>1. \A a, c, d \in Seq(Byte) : (a \o c) \o d = a \o (c \o d)
      BY ConcatAssociative
    <3>2. (u \o b) \o m.data = u \o (b \o m.data)
      BY <1>2, <2>1, <3>1, Zenon
    <3>3. QED
      BY <3>2 DEF u, b
  <2> HIDE DEF x
  <2>3. plain \in Seq(Byte)
    BY <1>2, <1>3, WordThen
  <2>4. QED
    BY <2>2, <2>3 DEF x
<1> HIDE DEF x
<1>5. PICK z : LET all == Padded(plain)
               IN  /\ IsFill(z)
                   /\ x \o z \in Seq(Byte)
                   /\ all \in Seq(Byte)
                   /\ Len(all) = 4 + Len(x \o z)
                   /\ Uint32At(all, 1) = m.ts
                   /\ From(all, 5) = x \o z
                   /\ IsPaddingOf(x \o z, x)
  BY <1>2, <1>3, WordThenPadded
<1> DEFINE all  == Padded(plain)
           data == x \o z
<1>6. PayloadOf(m) = PairPayload(PairSecret(m), Hash(m.to), Hash(m.from), plain)
  BY <1>1, <1>4, PayloadByType DEF ReqPayload
<1>7. Len(all) = 4 + Len(data) /\ Uint32At(all, 1) = m.ts /\ From(all, 5) = data
      /\ IsPaddingOf(data, x)
  BY <1>5
<1>8. data # << >> /\ data[1] = m.reqType /\ Len(data) \in Nat
  <2>1. z \in Seq(Byte) /\ x \in Seq(Byte)
    BY <1>3, <1>5 DEF IsFill
  <2>2. Len(data) = Len(x) + Len(z) /\ \A i \in 1 .. Len(x) : data[i] = x[i]
    BY <2>1, TwoParts
  <2>3. Len(x) >= 1 /\ Len(x) \in Nat /\ Len(z) \in Nat
    BY <1>2, <1>3, <2>1
  <2> HIDE DEF data
  <2>4. QED
    BY <1>3, <2>2, <2>3
<1> HIDE DEF data, all, plain
<1>9. p.type \in ForPair /\ IsReadable(p)
  BY DEF ForPair, PayloadReq, PayloadRawCustom, PayloadAdvert, IsReadable
<1>10. /\ Opens(key, p.payload) =>
            /\ p.whole /\ p.payload.plain = all
            /\ \A r : key # NoSecret => WasOpened(Item(p, r), SecretsIn(ctx))
       /\ p.whole /\ Fits(ctx, m) => key # NoSecret /\ Opens(key, p.payload)
       /\ p.payload.head[1] = Hash(m.to) /\ p.payload.head[2] = Hash(m.from)
       /\ Len(p.payload.plain) \in Nat
       /\ SizeOf(p.payload) = 4 + Len(p.payload.plain)
  BY <1>4, <1>6, <1>9, PairIsOpened DEF all
<1>11. Reading(p, ctx) = IF key = NoSecret THEN Raw(p) ELSE DecodeReq(p, ctx)
  BY ReadingByType
<1>12. CASE key = NoSecret
  <2>1. Reading(p, ctx) = Raw(p)
    BY <1>11, <1>12
  <2>2. QED
    BY <1>10, <1>12, <2>1, OpaqueIsRead
<1>13. CASE key # NoSecret /\ ~Opens(key, p.payload)
  <2>1. EnvelopeError(key, p.payload) \in {"PayloadTooShort", "WrongSecret"}
    BY <1>13 DEF EnvelopeError
  <2> DEFINE e == EnvelopeError(key, p.payload)
  <2>2. e # Nil
    BY <2>1 DEF Nil
  <2>3. DecodeReqPayload(key, p.payload) = Failure(e)
    BY <2>2, Zenon DEF DecodeReqPayload
  <2>4. Failure(e).err = e
    BY DEF Failure
  <2> HIDE DEF e
  <2>5. Reading(p, ctx) = Failure(e)
    BY <1>11, <1>13, <2>2, <2>3, <2>4, Zenon DEF DecodeReq
  <2>6. QED
    BY <1>9, <1>10, <1>13, <2>2, <2>5, FailureIsRead
<1>14. CASE key # NoSecret /\ Opens(key, p.payload)
  <2> DEFINE v == [destHash |-> p.payload.head[1], srcHash |-> p.payload.head[2],
                   timestamp |-> m.ts, reqType |-> m.reqType, data |-> data]
             r == Result("Req", v)
             w == [map |-> "RequestDecoders", key |-> m.reqType, body |-> data]
             d == Result("Decoded", w)
  <2>1. EnvelopeError(key, p.payload) = Nil
    BY <1>10, <1>14 DEF EnvelopeError, CipherMACSize
  <2>2. p.payload.plain = all /\ p.whole
    BY <1>10, <1>14
  <2>3. ~ (Len(all) < 4)
    BY <1>7, <1>8
  <2>4. DecodeReqPayload(key, p.payload) = r
    BY <1>7, <1>8, <2>1, <2>2, <2>3, Zenon DEF DecodeReqPayload
  <2>5. r.err = Nil /\ r.value.data = data /\ r.value.reqType = m.reqType
    BY DEF Result
  <2>6. Reading(p, ctx) = Body(ctx.registry, "RequestDecoders", m.reqType, data, r)
    <3> HIDE DEF r
    <3>1. QED
      BY <1>8, <1>11, <1>14, <2>4, <2>5, Zenon DEF DecodeReq
  <2>7. \A i : WasOpened(Item(p, i), SecretsIn(ctx))
    BY <1>10, <1>14
  <2>8. Reading(p, ctx) \in {r, Failure("BodyDecoder"), d}
    <3> HIDE DEF r
    <3>1. QED
      BY <2>6, BodyFacts
  <2>9. IsRead(p, ctx, r)
    <3> DEFINE item == Item(p, r)
    <3>1. r.err = Nil /\ r.as = "Req" /\ item.msg = m /\ item.as = "Req" /\ item.value = v
      <4> HIDE DEF v
      <4>1. QED
        BY ItemFields
    <3>2. SaysReq(m, v)
      BY <1>7, <1>10 DEF SaysReq, x
    <3> HIDE DEF r, v
    <3>3. WasOpened(item, SecretsIn(ctx))
      BY <2>7
    <3> HIDE DEF item
    <3>4. SaysWhatWasWritten(item)
      BY <3>1, <3>2 DEF SaysWhatWasWritten
    <3>5. r.as \notin {"Raw", "Decoded"}
      BY <3>1
    <3>6. QED
      BY <1>9, <3>1, <3>3, <3>4, <3>5, ResultIsRead DEF item
  <2>10. IsRead(p, ctx, d)
    <3> DEFINE item == Item(p, d)
    <3>1. item.msg = m /\ item.value = w
      <4> HIDE DEF w
      <4>1. QED
        BY ItemFields
    <3>2. w.map = "RequestDecoders" /\ w.key = m.reqType /\ w.body = data
      OBVIOUS
    <3> HIDE DEF w
    <3>3. WasOpened(item, SecretsIn(ctx))
      BY <2>7
    <3> HIDE DEF item
    <3>4. IsForRequests(item)
      BY <1>1, <1>7, <3>1, <3>2 DEF IsForRequests, x
    <3>5. QED
      BY <1>9, <3>3, <3>4, DecodedIsRead DEF item
  <2>11. IsRead(p, ctx, Failure("BodyDecoder"))
    <3>1. "BodyDecoder" # Nil
      BY DEF Nil
    <3>2. QED
      BY <1>9, <3>1, FailureIsRead
  <2>12. QED
    BY <2>8, <2>9, <2>10, <2>11
<1>15. QED
  BY <1>12, <1>13, <1>14

-----------------------------------------------------------------------------
(* TXT_MSG and PATH, which DirectMessage reads. *)
LEMMA PairFields ==
  ASSUME NEW payload
  PROVE  /\ Pair(payload).plain = payload.plain
         /\ \A key : Opens(key, Pair(payload)) <=> Opens(key, payload)
         /\ PayloadSize(Pair(payload)) = 4 + Len(payload.plain)
<1>1. Pair(payload).plain = payload.plain /\ Pair(payload).secret = payload.secret
  BY DEF Pair
<1>2. QED
  BY <1>1 DEF Opens, PayloadSize, CipherMACSize

LEMMA PairIsSeal ==
  ASSUME NEW payload, NEW secret, NEW dest, NEW src, NEW plain,
         payload.head[1] = dest, payload.head[2] = src, payload.secret = secret,
         payload.plain = Padded(plain)
  PROVE  Pair(payload) = Seal(secret, dest, src, plain)
BY DEF Pair, Seal

LEMMA TextIsReadHere ==
  ASSUME NEW p, IsReceived(p), p.type = PayloadTxtMsg, NEW ctx, IsContext(ctx)
  PROVE  IsRead(p, ctx, Reading(p, ctx))
<1> DEFINE m     == p.msg
           key   == ctx.shared16
           plain == DirectTextPlaintext(m.text, Flags(0, m.attempt), m.ts)
           pair  == Pair(p.payload)
           d     == DecodeDirectTextPayload(key, pair)
<1>1. m \in Message /\ m.type = PayloadTxtMsg /\ p.whole \in BOOLEAN
  BY ReceivedFacts
<1>2. m.text \in Seq(Byte) /\ m.attempt \in Nat /\ m.ts \in Word
  BY <1>1, MessageFields
<1>3. plain \in Seq(Byte) /\ Len(plain) > 0
  <2>1. 0 \in Byte
    BY DEF Byte
  <2> DEFINE f == Flags(0, m.attempt)
             u == Uint32Bytes(m.ts)
             b == <<f>>
             ub == u \o b
  <2>2. f \in Byte
    BY <1>2, <2>1, FlagsWritten
  <2> HIDE DEF f
  <2>3. b \in Seq(Byte) /\ Len(b) = 1
    BY <2>2
  <2> HIDE DEF b
  <2>4. ub \in Seq(Byte) /\ Len(ub) = 4 + Len(b)
    BY <1>2, <2>3, WordThen
  <2> HIDE DEF ub
  <2>5. ub \in Seq(Byte)
    BY <2>4
  <2>6. ub \o m.text \in Seq(Byte) /\ Len(ub \o m.text) = Len(ub) + Len(m.text)
    BY <1>2, <2>5, TwoParts
  <2>7. Len(m.text) \in Nat
    BY <1>2
  <2>8. plain = ub \o m.text
    BY DEF DirectTextPlaintext, ub, b, f
  <2> HIDE DEF plain
  <2>9. QED
    BY <2>3, <2>4, <2>6, <2>7, <2>8
<1>4. Len(Padded(plain)) >= 16
  BY <1>3, PaddedSize DEF CipherKeySize
<1>5. PayloadOf(m) = PairPayload(PairSecret(m), Hash(m.to), Hash(m.from), plain)
  BY <1>1, PayloadByType
<1>6. p.type \in ForPair /\ IsReadable(p)
  BY DEF ForPair, PayloadTxtMsg, PayloadRawCustom, PayloadAdvert, IsReadable
<1> HIDE DEF plain, pair
<1>7. /\ Opens(key, p.payload) =>
           /\ p.whole /\ p.payload.plain = Padded(plain)
           /\ \A r : key # NoSecret => WasOpened(Item(p, r), SecretsIn(ctx))
      /\ p.whole /\ Fits(ctx, m) => key # NoSecret /\ Opens(key, p.payload)
      /\ p.payload.head[1] = Hash(m.to) /\ p.payload.head[2] = Hash(m.from)
      /\ Len(p.payload.plain) \in Nat
  BY <1>3, <1>5, <1>6, PairIsOpened
<1>8. /\ Opens(key, pair) <=> Opens(key, p.payload)
      /\ PayloadSize(pair) = 4 + Len(p.payload.plain)
  BY PairFields DEF pair
<1>9. Reading(p, ctx) =
        IF key = NoSecret THEN Raw(p)
        ELSE IF d.err # Nil THEN Failure(d.err) ELSE Result("DirectText", d.text)
  BY ReadingByType, Zenon DEF DecodeText, pair
<1>10. /\ d.err = DirectTextError(key, pair)
       /\ d.err = Nil => d.text = DirectText(pair)
  BY DEF DecodeDirectTextPayload
<1> HIDE DEF d
<1>11. CASE key = NoSecret
  <2>1. Reading(p, ctx) = Raw(p)
    BY <1>9, <1>11
  <2>2. QED
    BY <1>7, <1>11, <2>1, OpaqueIsRead
<1>12. CASE key # NoSecret /\ ~Opens(key, p.payload)
  <2>1. d.err # Nil
    BY <1>8, <1>10, <1>12 DEF DirectTextError, Nil
  <2>2. Reading(p, ctx) = Failure(d.err)
    BY <1>9, <1>12, <2>1
  <2>3. QED
    BY <1>6, <1>7, <1>12, <2>1, <2>2, FailureIsRead
<1>13. CASE key # NoSecret /\ Opens(key, p.payload)
  <2> DEFINE v    == d.text
             r    == Result("DirectText", v)
             item == Item(p, r)
  <2>1. p.payload.plain = Padded(plain)
    BY <1>7, <1>13
  <2>2. d.err = Nil
    BY <1>4, <1>7, <1>8, <1>10, <1>13, <2>1 DEF DirectTextError, CipherMACSize, CipherKeySize
  <2>3. Reading(p, ctx) = r
    BY <1>9, <1>13, <2>2
  <2>4. pair = DirectTextPayload(p.payload.secret, Hash(m.to), Hash(m.from),
                                 m.text, m.ts, 0, m.attempt)
    BY <1>7, <2>1, PairIsSeal DEF DirectTextPayload, plain, pair
  <2>5. DirectText(pair) =
          [DestHash |-> Hash(m.to), SrcHash |-> Hash(m.from), Timestamp |-> m.ts,
           TxtType |-> 0 % 64, Attempt |-> m.attempt % 4, Text |-> TrimNuls(m.text)]
    <3>1. 0 \in Byte
      BY DEF Byte
    <3> DEFINE secret == p.payload.secret
               dest   == Hash(m.to)
               src    == Hash(m.from)
               sealed == DirectTextPayload(secret, dest, src, m.text, m.ts, 0, m.attempt)
    <3>2. pair = sealed
      BY <2>4
    <3> HIDE DEF secret, dest, src
    <3>3. DirectText(sealed) =
            [DestHash |-> dest, SrcHash |-> src, Timestamp |-> m.ts,
             TxtType |-> 0 % 64, Attempt |-> m.attempt % 4, Text |-> TrimNuls(m.text)]
      BY <1>2, <3>1, TextIsRead
    <3>4. QED
      BY <3>2, <3>3, Zenon DEF dest, src
  <2>6. v.Text = TrimNuls(m.text) /\ v.Timestamp = m.ts
    BY <1>10, <2>2, <2>5
  <2> HIDE DEF v
  <2>7. r.err = Nil /\ r.as = "DirectText" /\ item.msg = m
        /\ item.as = "DirectText" /\ item.value = v
    BY ItemFields
  <2> HIDE DEF r, item
  <2>8. SaysWhatWasWritten(item)
    BY <2>6, <2>7 DEF SaysWhatWasWritten
  <2>9. WasOpened(item, SecretsIn(ctx))
    BY <1>7, <1>13 DEF item
  <2>10. r.as \notin {"Raw", "Decoded"}
    BY <2>7
  <2>11. QED
    BY <1>6, <2>3, <2>7, <2>8, <2>9, <2>10, ResultIsRead DEF item, r
<1>14. QED
  BY <1>11, <1>12, <1>13

LEMMA PathIsBytes ==
  ASSUME NEW path \in Seq(Byte), NEW size \in Nat, PathReturnError(path, size) = Nil
  PROVE  LET q     == [Path |-> path, PathHashSize |-> size]
             plain == PathPlaintext(path, size, 0, << >>)
         IN  /\ IsPathOf(q) /\ HopCount(q) <= MaxHopCount
             /\ plain \in Seq(Byte) /\ Len(plain) > 0
<1> DEFINE q == [Path |-> path, PathHashSize |-> size]
           c == Len(path) \div size
           b == (size - 1) * 64 + c
           e == <<255, 0, 0, 0, 0>>
           f == <<b>>
           fp == f \o path
<1>1. size \in 1 .. 3 /\ Len(path) % size = 0 /\ ~ (c > MaxHopCount)
  <2>1. /\ "UnsupportedPathHashSize" # Nil /\ "ErrUnalignedPath" # Nil
        /\ "ErrTooManyHops" # Nil
    BY DEF Nil
  <2> HIDE DEF c
  <2>2. ~ (size \notin 1 .. 3) /\ ~ (Len(path) % size # 0) /\ ~ (c > MaxHopCount)
    BY <2>1, Zenon DEF PathReturnError, c
  <2>3. QED
    BY <2>2
<1>2. q.Path = path /\ q.PathHashSize = size
  OBVIOUS
<1>3. Len(path) \in Nat
  OBVIOUS
<1> HIDE DEF q
<1>4. IsPathOf(q)
  BY <1>1, <1>2 DEF IsPathOf
<1>5. HopCount(q) = c
  BY <1>1, <1>2 DEF HopCount
<1>6. HopCount(q) \in Nat
  BY <1>4, HopsOfWhole
<1> HIDE DEF c
<1>7. c \in 0 .. 63 /\ size - 1 \in 0 .. 3
  <2>1. c \in Nat
    BY <1>5, <1>6
  <2>2. ~ (c > MaxHopCount) /\ size \in 1 .. 3
    BY <1>1, Zenon
  <2>3. c \in 0 .. 63
    BY <2>1, <2>2 DEF MaxHopCount
  <2>4. QED
    BY <2>2, <2>3
<1>8. b \in Byte
  BY <1>7, TwoFieldByte
<1> HIDE DEF b
<1>9. f \in Seq(Byte) /\ Len(f) = 1
  BY <1>8
<1>10. e \in Seq(Byte) /\ Len(e) = 5
  BY DEF Byte
<1>11. PathPlaintext(path, size, 0, << >>) = fp \o e
  BY DEF PathPlaintext, f, b, c
<1> HIDE DEF e, f
<1>12. fp \in Seq(Byte) /\ Len(fp) = 1 + Len(path)
  <2>1. f \in Seq(Byte)
    BY <1>9
  <2>2. fp \in Seq(Byte) /\ Len(fp) = Len(f) + Len(path)
    BY <2>1, TwoParts
  <2>3. QED
    BY <1>9, <2>2
<1> HIDE DEF fp
<1>13. fp \o e \in Seq(Byte) /\ Len(fp \o e) = Len(fp) + Len(e)
  <2>1. fp \in Seq(Byte) /\ e \in Seq(Byte)
    BY <1>10, <1>12
  <2>2. QED
    BY <2>1, TwoParts
<1>14. Len(fp \o e) > 0
  BY <1>3, <1>10, <1>12, <1>13
<1>15. HopCount(q) <= MaxHopCount
  BY <1>5, <1>7 DEF MaxHopCount
<1>16. QED
  BY <1>4, <1>11, <1>13, <1>14, <1>15 DEF q

LEMMA PathIsReadHere ==
  ASSUME NEW p, IsReceived(p), p.type = PayloadPath, NEW ctx, IsContext(ctx)
  PROVE  IsRead(p, ctx, Reading(p, ctx))
<1> DEFINE m     == p.msg
           key   == ctx.shared16
           plain == PathPlaintext(m.path, m.size, 0, << >>)
           pair  == Pair(p.payload)
           d     == DecodePathPayload(key, pair)
           q     == [Path |-> m.path, PathHashSize |-> m.size]
<1>1. m \in Message /\ m.type = PayloadPath /\ p.whole \in BOOLEAN /\ WriteError(m) = Nil
  BY ReceivedFacts
<1>2. m.path \in Seq(Byte) /\ m.size \in Nat
  BY <1>1, MessageFields
<1>3. PathReturnError(m.path, m.size) = Nil
  BY <1>1, WrittenFits
<1>4. /\ IsPathOf(q) /\ HopCount(q) <= MaxHopCount
      /\ plain \in Seq(Byte) /\ Len(plain) > 0
  BY <1>2, <1>3, PathIsBytes
<1>5. q.Path = m.path /\ q.PathHashSize = m.size
  OBVIOUS
<1> HIDE DEF plain, pair, q
<1>6. Len(Padded(plain)) >= 16
  BY <1>4, PaddedSize DEF CipherKeySize
<1>7. PayloadOf(m) = PairPayload(PairSecret(m), Hash(m.to), Hash(m.from), plain)
  BY <1>1, PayloadByType DEF plain
<1>8. p.type \in ForPair /\ IsReadable(p)
  BY DEF ForPair, PayloadPath, PayloadRawCustom, PayloadAdvert, IsReadable
<1>9. /\ Opens(key, p.payload) =>
           /\ p.whole /\ p.payload.plain = Padded(plain)
           /\ \A r : key # NoSecret => WasOpened(Item(p, r), SecretsIn(ctx))
      /\ p.whole /\ Fits(ctx, m) => key # NoSecret /\ Opens(key, p.payload)
      /\ p.payload.head[1] = Hash(m.to) /\ p.payload.head[2] = Hash(m.from)
      /\ Len(p.payload.plain) \in Nat
  BY <1>4, <1>7, <1>8, PairIsOpened
<1>10. /\ Opens(key, pair) <=> Opens(key, p.payload)
       /\ PayloadSize(pair) = 4 + Len(p.payload.plain)
       /\ pair.plain = p.payload.plain
  BY PairFields DEF pair
<1>11. Reading(p, ctx) =
         IF key = NoSecret THEN Raw(p)
         ELSE IF d.err # Nil THEN Failure(d.err) ELSE Result("ReturnedPath", d.path)
  BY ReadingByType, Zenon DEF DecodePath, pair
<1>12. /\ d.err = PathError(key, pair)
       /\ d.err = Nil => d.path = ReturnedPath(pair)
  BY DEF DecodePathPayload
<1> HIDE DEF d
<1>13. CASE key = NoSecret
  <2>1. Reading(p, ctx) = Raw(p)
    BY <1>11, <1>13
  <2>2. QED
    BY <1>9, <1>13, <2>1, OpaqueIsRead
<1>14. CASE key # NoSecret /\ ~Opens(key, p.payload)
  <2>1. d.err # Nil
    BY <1>10, <1>12, <1>14 DEF PathError, Nil
  <2>2. Reading(p, ctx) = Failure(d.err)
    BY <1>11, <1>14, <2>1
  <2>3. QED
    BY <1>8, <1>9, <1>14, <2>1, <2>2, FailureIsRead
<1>15. CASE key # NoSecret /\ Opens(key, p.payload)
  <2> DEFINE v    == d.path
             r    == Result("ReturnedPath", v)
             item == Item(p, r)
  <2>1. p.payload.plain = Padded(plain)
    BY <1>9, <1>15
  <2>2. d.err = Nil
    BY <1>6, <1>9, <1>10, <1>12, <1>15, <2>1 DEF PathError, CipherMACSize
  <2>3. Reading(p, ctx) = r
    BY <1>11, <1>15, <2>2
  <2> DEFINE secret == p.payload.secret
             dest   == Hash(m.to)
             src    == Hash(m.from)
             sealed == Seal(secret, dest, src, PathPlaintext(q.Path, q.PathHashSize, 0, << >>))
  <2>4. pair = sealed
    BY <1>5, <1>9, <2>1, PairIsSeal DEF plain, pair
  <2> HIDE DEF secret, dest, src
  <2>5. ReturnedPath(sealed).Path = q.Path /\ ReturnedPath(sealed).ExtraType = 255
    <3> DEFINE extra == << >>
    <3>1. 0 \in Byte /\ Byte \subseteq Byte /\ extra \in Seq(Byte) /\ Len(extra) <= 6
      BY DEF Byte
    <3> HIDE DEF extra
    <3>2. ReadsBack(Seal(secret, dest, src, PathPlaintext(q.Path, q.PathHashSize, 0, extra)),
                    q, 0, extra)
      BY <1>4, <3>1, PathIsRead
    <3>3. QED
      BY <3>2, Zenon DEF ReadsBack, extra
  <2>6. v.Path = m.path /\ v.ExtraType = 255
    BY <1>5, <1>12, <2>2, <2>4, <2>5
  <2> HIDE DEF v
  <2>7. r.err = Nil /\ r.as = "ReturnedPath" /\ item.msg = m
        /\ item.as = "ReturnedPath" /\ item.value = v
    BY ItemFields
  <2> HIDE DEF r, item
  <2>8. SaysWhatWasWritten(item)
    <3>1. ConfirmedBy(v) = {}
      <4>1. 255 # PayloadAck
        BY DEF PayloadAck
      <4>2. QED
        BY <2>6, <4>1, Zenon DEF ConfirmedBy
    <3>2. QED
      BY <2>6, <2>7, <3>1 DEF SaysWhatWasWritten
  <2>9. WasOpened(item, SecretsIn(ctx))
    BY <1>9, <1>15 DEF item
  <2>10. r.as \notin {"Raw", "Decoded"}
    BY <2>7
  <2>11. QED
    BY <1>8, <2>3, <2>7, <2>8, <2>9, <2>10, ResultIsRead DEF item, r
<1>16. QED
  BY <1>13, <1>14, <1>15

-----------------------------------------------------------------------------
(* ANON_REQ: only the one it is for has its secret. *)
LEMMA SecretWithKey ==
  ASSUME NEW n \in Identity
  PROVE  SecretWith(KeyOf[n]) = {n, Me} /\ {n, Me} # Broken
<1>1. {o \in Identity : KeyOf[o] = KeyOf[n]} = {n}
  BY DispatchAssumption
<1>2. {n, Me} # Broken
  BY DispatchAssumption DEF Broken
<1>3. QED
  BY <1>1, <1>2 DEF SecretWith

LEMMA AnonHeadFacts ==
  ASSUME NEW b \in Byte, NEW key \in Seq(Byte), Len(key) = KeySize
  PROVE  LET head == AnonHead(b, key)
         IN  /\ head \in Seq(Byte) /\ Len(head) = 1 + KeySize
             /\ SubSeq(head, 2, 1 + KeySize) = key
<1> DEFINE head == <<b>> \o key
<1>1. head \in Seq(Byte) /\ Len(head) = 1 + Len(key) /\ From(head, 2) = key
  BY ByteThen
<1>2. head = AnonHead(b, key)
  BY DEF AnonHead
<1> HIDE DEF head
<1>3. QED
  BY <1>1, <1>2 DEF From

LEMMA AnonReqIsRead ==
  ASSUME NEW p, IsReceived(p), p.type = PayloadAnonReq, NEW ctx
  PROVE  IsRead(p, ctx, Reading(p, ctx))
<1> DEFINE m      == p.msg
           secret == PairSecret(m)
           head   == AnonHead(Hash(m.to), KeyOf[m.from])
           plain  == Uint32Bytes(m.ts) \o m.data
           all    == Padded(plain)
           key    == SecretWith(SenderKey(p.payload))
<1>1. m \in Message /\ m.type = PayloadAnonReq /\ p.whole \in BOOLEAN
  BY ReceivedFacts
<1>2. m.data \in Seq(Byte) /\ m.ts \in Word
  BY <1>1, MessageFields
<1>3. m.from \in Identity /\ m.to \in Identity
  BY <1>1, MessageFields
<1>4. secret = {m.from, m.to} /\ secret # NoSecret /\ secret # Broken
  BY <1>3, PairSecretFacts
<1>5. plain \in Seq(Byte)
  BY <1>2, WordThen
<1>6. PICK z : /\ IsFill(z)
               /\ Len(all) >= CipherKeySize
               /\ all \in Seq(Byte)
               /\ Uint32At(all, 1) = m.ts
               /\ From(all, 5) = m.data \o z
               /\ IsPaddingOf(m.data \o z, m.data)
  BY <1>2, WordThenPadded
<1>7. PayloadOf(m) = Sealed(head, secret, plain)
  BY <1>1, PayloadByType DEF AnonReqPayload
<1>8. Len(head) = 1 + KeySize /\ SubSeq(head, 2, 1 + KeySize) = KeyOf[m.from]
  BY <1>3, HashIsByte, AnonHeadFacts
<1>9. Len(head) \in Nat /\ Len(head) = 33
  BY <1>8 DEF KeySize
<1> HIDE DEF head, secret, plain, all
<1>10. p.payload.head = head
  BY <1>5, <1>4, <1>7, SealedLeft
<1>11. SenderKey(p.payload) = KeyOf[m.from]
  BY <1>8, <1>10 DEF SenderKey
<1>12. key = {m.from, Me} /\ key # Broken
  BY <1>3, <1>11, SecretWithKey
<1>13. Reading(p, ctx) = DecodeAnonReqPayload(key, p.payload)
  BY ReadingByType
<1>14. IsReadable(p)
  BY DEF PayloadAnonReq, PayloadRawCustom, PayloadAdvert, IsReadable
<1> HIDE DEF key
<1>15. /\ Opens(key, p.payload) => p.whole /\ key = secret /\ p.payload.plain = all
       /\ p.whole /\ key = secret => Opens(key, p.payload)
       /\ SizeOf(p.payload) = Len(head) + Len(p.payload.plain) + 2
       /\ Len(p.payload.plain) \in Nat
  <2>1. HoldsSealed(p, head, secret, plain)
    BY <1>4, <1>5, <1>7, <1>9 DEF HoldsSealed
  <2>2. key # Broken
    BY <1>12
  <2>3. all = Padded(plain)
    BY DEF all
  <2>4. QED
    BY <2>1, <2>2, <2>3, SealedIsOpened
<1>16. Fits(ctx, m) => key = secret
  BY <1>1, <1>4, <1>12 DEF Fits
<1>17. ~ (SizeOf(p.payload) < 1 + KeySize + CipherMACSize)
  BY <1>9, <1>15 DEF KeySize, CipherMACSize
<1>18. CASE ~Opens(key, p.payload)
  <2>1. Reading(p, ctx) = Failure("WrongSecret")
    BY <1>13, <1>17, <1>18, Zenon DEF DecodeAnonReqPayload
  <2>2. "WrongSecret" # Nil
    BY DEF Nil
  <2>3. ~ (p.whole /\ Fits(ctx, m))
    BY <1>16, <1>18, <1>15
  <2>4. QED
    BY <1>14, <2>1, <2>2, <2>3, FailureIsRead
<1>19. CASE Opens(key, p.payload)
  <2> DEFINE rest == m.data \o z
             v    == [destHash |-> p.payload.head[1], senderKey |-> KeyOf[m.from],
                      timestamp |-> m.ts, data |-> rest]
             r    == Result("AnonReq", v)
             item == Item(p, r)
  <2>1. p.whole /\ key = secret /\ p.payload.plain = all
    BY <1>19, <1>15
  <2>2. m.to = Me
    BY <1>4, <1>12, <2>1
  <2>3. ~ (Len(all) < 4)
    BY <1>6, <2>1 DEF CipherKeySize
  <2>4. Reading(p, ctx) = r
    BY <1>6, <1>11, <1>13, <1>17, <1>19, <2>1, <2>3, Zenon DEF DecodeAnonReqPayload
  <2>5. v.senderKey = KeyOf[m.from] /\ v.timestamp = m.ts /\ v.data = rest
    OBVIOUS
  <2> HIDE DEF v
  <2>6. r.err = Nil /\ r.as = "AnonReq" /\ item.msg = m /\ item.whole = p.whole
        /\ item.as = "AnonReq" /\ item.value = v
    BY ItemFields
  <2> HIDE DEF r, item
  <2>7. SaysAnonReq(m, v)
    BY <1>6, <2>2, <2>5 DEF SaysAnonReq
  <2>8. SaysWhatWasWritten(item)
    BY <2>6, <2>7 DEF SaysWhatWasWritten
  <2>9. m.type \notin ForChannel \union ForPair
    BY <1>1 DEF ForChannel, ForPair, PayloadAnonReq, PayloadGrpTxt, PayloadGrpData,
                PayloadTxtMsg, PayloadReq, PayloadResponse, PayloadPath
  <2>10. WasOpened(item, SecretsIn(ctx))
    BY <2>1, <2>2, <2>6, <2>9 DEF WasOpened
  <2>11. r.as \notin {"Raw", "Decoded"}
    BY <2>6
  <2>12. QED
    BY <1>14, <2>4, <2>6, <2>8, <2>10, <2>11, ResultIsRead DEF item
<1>20. QED
  BY <1>18, <1>19

-----------------------------------------------------------------------------
(* GRP_DATA: the length in the plaintext tells the data from the padding. *)
LEMMA ThreeThen ==
  ASSUME NEW a \in Byte, NEW b \in Byte, NEW c \in Byte, NEW rest \in Seq(Byte)
  PROVE  LET s == <<a, b, c>> \o rest
         IN  /\ s \in Seq(Byte) /\ Len(s) = 3 + Len(rest)
             /\ s[1] = a /\ s[2] = b /\ s[3] = c
<1> DEFINE t == <<a, b, c>>
           s == t \o rest
<1>1. t \in Seq(Byte) /\ Len(t) = 3 /\ t[1] = a /\ t[2] = b /\ t[3] = c
  OBVIOUS
<1> HIDE DEF t
<1>2. t \in Seq(Byte)
  BY <1>1
<1>3. /\ s \in Seq(Byte) /\ Len(s) = Len(t) + Len(rest)
      /\ \A i \in 1 .. Len(t) : s[i] = t[i]
  BY <1>2, TwoParts
<1> HIDE DEF s
<1>4. QED
  BY <1>1, <1>3 DEF s, t

LEMMA GrpDataIsRead ==
  ASSUME NEW p, IsReceived(p), p.type = PayloadGrpData, NEW ctx, IsContext(ctx)
  PROVE  IsRead(p, ctx, Reading(p, ctx))
<1> DEFINE m     == p.msg
           key   == ctx.channelSecret
           front == <<m.dataType % 256, m.dataType \div 256, Len(m.data)>>
           plain == front \o m.data
           all   == Padded(plain)
           least == 1 + CipherMACSize
           err   == GroupError(key, p.payload, least)
<1>1. m \in Message /\ m.type = PayloadGrpData /\ p.whole \in BOOLEAN /\ WriteError(m) = Nil
  BY ReceivedFacts
<1>2. m.channel \in Channel /\ m.dataType \in Uint16 /\ m.data \in Seq(Byte)
  BY <1>1, MessageFields
<1>3. Len(m.data) \in 0 .. 255
  <2> DEFINE n == Len(m.data)
  <2>1. ~ (n > 255)
    BY <1>1, WrittenFits
  <2>2. n \in Nat
    BY <1>2
  <2> HIDE DEF n
  <2>3. n \in 0 .. 255
    BY <2>1, <2>2
  <2>4. QED
    BY <2>3 DEF n
<1>4. /\ m.dataType % 256 \in Byte /\ m.dataType \div 256 \in Byte /\ Len(m.data) \in Byte
      /\ (m.dataType % 256) + 256 * (m.dataType \div 256) = m.dataType
  <2>1. Len(m.data) \in Byte
    BY <1>3 DEF Byte
  <2>2. QED
    BY <1>2, <2>1, CodeFields
<1>5. front \in Seq(Byte) /\ Len(front) = 3
  <2> DEFINE a == m.dataType % 256
             b == m.dataType \div 256
             c == Len(m.data)
  <2>1. a \in Byte /\ b \in Byte /\ c \in Byte
    BY <1>4
  <2> HIDE DEF a, b, c
  <2>2. <<a, b, c>> \in Seq(Byte) /\ Len(<<a, b, c>>) = 3
    BY <2>1
  <2>3. QED
    BY <2>2 DEF a, b, c
<1>6. /\ plain \in Seq(Byte) /\ Len(plain) = 3 + Len(m.data)
      /\ plain[1] = m.dataType % 256 /\ plain[2] = m.dataType \div 256
      /\ plain[3] = Len(m.data)
  <2> DEFINE a == m.dataType % 256
             b == m.dataType \div 256
             c == Len(m.data)
             d == m.data
             s == <<a, b, c>> \o d
  <2>1. a \in Byte /\ b \in Byte /\ c \in Byte /\ d \in Seq(Byte)
    BY <1>2, <1>4
  <2> HIDE DEF a, b, c, d
  <2>2. s \in Seq(Byte) /\ Len(s) = 3 + Len(d) /\ s[1] = a /\ s[2] = b /\ s[3] = c
    BY <2>1, ThreeThen
  <2> HIDE DEF s
  <2>3. plain = s
    BY DEF s, a, b, c, d
  <2>4. QED
    BY <2>2, <2>3 DEF a, b, c, d
<1> HIDE DEF front
<1>7. PICK z : IsFill(z) /\ all = plain \o z
  BY <1>6, PaddedWith
<1>8. z \in Seq(Byte)
  BY <1>7 DEF IsFill
<1> DEFINE rest == m.data \o z
<1>9. rest \in Seq(Byte) /\ Len(rest) = Len(m.data) + Len(z)
  BY <1>2, <1>8, TwoParts
<1>10. all = front \o rest
  <2>1. \A a, c, d \in Seq(Byte) : (a \o c) \o d = a \o (c \o d)
    BY ConcatAssociative
  <2>2. front \in Seq(Byte) /\ m.data \in Seq(Byte)
    BY <1>2, <1>5
  <2>3. QED
    BY <1>7, <1>8, <2>1, <2>2, Zenon
<1>11. SubSeq(all, 4, 3 + Len(m.data)) = m.data
  <2>1. front \in Seq(Byte) /\ front \o (m.data \o z) = all
    BY <1>5, <1>10
  <2>2. SubSeq(front \o (m.data \o z), Len(front) + 1, Len(front) + Len(m.data)) = m.data
    BY <1>2, <1>8, <2>1, MiddlePart
  <2>3. Len(front) + 1 = 4 /\ Len(front) + Len(m.data) = 3 + Len(m.data)
    BY <1>5
  <2>4. QED
    BY <2>1, <2>2, <2>3
<1> HIDE DEF plain
<1>12. /\ Len(all) = Len(plain) + Len(z) /\ Len(z) \in Nat
       /\ \A i \in 1 .. Len(plain) : all[i] = plain[i]
  <2>1. plain \in Seq(Byte)
    BY <1>6
  <2>2. QED
    BY <1>7, <1>8, <2>1, TwoParts
<1>13. /\ Len(all) >= 3 + Len(m.data) /\ Len(all) \in Nat
       /\ all[1] = m.dataType % 256 /\ all[1 + 1] = m.dataType \div 256
       /\ all[3] = Len(m.data)
  BY <1>3, <1>6, <1>12
<1>14. Uint16At(all, 1) = m.dataType
  BY <1>4, <1>13 DEF Uint16At
<1>15. GrpDataBytes(all) = Len(m.data) /\ ~ (Len(all) < 3)
  BY <1>3, <1>13 DEF GrpDataBytes
<1>16. PayloadOf(m) = Sealed(<<ChannelHash(DeriveChannelSecret(m.channel))>>,
                             DeriveChannelSecret(m.channel), plain)
  BY <1>1, PayloadByType DEF GrpDataPayload, plain, front
<1>17. p.type \in ForChannel /\ IsReadable(p)
  BY DEF ForChannel, PayloadGrpData, PayloadRawCustom, PayloadAdvert, IsReadable
<1>18. least \in Nat /\ Len(Padded(plain)) + 3 >= least
  BY <1>13 DEF CipherMACSize
<1> HIDE DEF all, least
<1>19. /\ err = Nil /\ key # NoSecret =>
            /\ p.whole /\ p.payload.plain = all
            /\ \A r : WasOpened(Item(p, r), SecretsIn(ctx))
       /\ p.whole /\ Fits(ctx, m) => key # NoSecret /\ err = Nil
  BY <1>2, <1>6, <1>16, <1>17, <1>18, GroupIsOpened DEF all
<1>20. Reading(p, ctx) = IF key = NoSecret THEN Raw(p) ELSE DecodeGrpDataPayload(key, p.payload)
  BY ReadingByType
<1>21. CASE key = NoSecret
  <2>1. Reading(p, ctx) = Raw(p)
    BY <1>20, <1>21
  <2>2. QED
    BY <1>19, <1>21, <2>1, OpaqueIsRead
<1>22. CASE key # NoSecret /\ err # Nil
  <2>1. Reading(p, ctx) = Failure(err)
    BY <1>20, <1>22, Zenon DEF DecodeGrpDataPayload, least
  <2> HIDE DEF err
  <2>2. QED
    BY <1>17, <1>19, <1>22, <2>1, FailureIsRead
<1>23. CASE key # NoSecret /\ err = Nil
  <2> DEFINE v    == [dataType |-> m.dataType, data |-> m.data]
             r    == Result("GrpData", v)
             item == Item(p, r)
  <2>1. p.payload.plain = all
    BY <1>19, <1>23
  <2>2. Reading(p, ctx) = r
    BY <1>11, <1>14, <1>15, <1>20, <1>23, <2>1, Zenon DEF DecodeGrpDataPayload, least, all
  <2>3. v.dataType = m.dataType /\ v.data = m.data
    OBVIOUS
  <2> HIDE DEF v
  <2>4. r.err = Nil /\ r.as = "GrpData" /\ item.msg = m /\ item.as = "GrpData" /\ item.value = v
    BY ItemFields
  <2> HIDE DEF r, item
  <2>5. SaysWhatWasWritten(item)
    BY <2>3, <2>4 DEF SaysWhatWasWritten
  <2>6. WasOpened(item, SecretsIn(ctx))
    BY <1>19, <1>23 DEF item
  <2>7. r.as \notin {"Raw", "Decoded"}
    BY <2>4
  <2>8. QED
    BY <1>17, <2>2, <2>4, <2>5, <2>6, <2>7, ResultIsRead DEF item
<1>24. QED
  BY <1>21, <1>22, <1>23


-----------------------------------------------------------------------------
(* GRP_TXT: sender and text part at the first ": " of the body. *)
Mark == <<Colon, Blank>>

LEMMA MarkFacts ==
  Mark \in Seq(Byte) /\ Len(Mark) = 2 /\ Mark[1] = Colon /\ Mark[1 + 1] = Blank
BY DEF Mark, Colon, Blank, Byte

LEMMA PartedAtMark ==
  ASSUME NEW b \in Seq(Byte), NEW i \in Separators(b)
  PROVE  SubSeq(b, 1, i - 1) \o Mark \o From(b, i + 2) = b
<1> DEFINE t == SubSeq(b, 1, i + 1)
           e == From(t, i - 1 + 1)
<1>1. /\ i \in Nat /\ i - 1 \in Nat /\ i + 1 \in 0 .. Len(b) /\ Len(b) \in Nat
      /\ i \in 1 .. i + 1 /\ i + 1 \in 1 .. i + 1
      /\ b[i] = Colon /\ b[i + 1] = Blank
  BY DEF Separators
<1>2. t \in Seq(Byte) /\ Len(t) = i + 1 /\ \A j \in 1 .. i + 1 : t[j] = b[j]
  BY <1>1, BeginningFacts
<1>3. t \o From(b, i + 1 + 1) = b
  BY <1>1, CutAndJoined
<1>4. i + 1 + 1 = i + 2
  BY <1>1
<1>5. i - 1 \in 0 .. i + 1
  BY <1>1
<1>6. SubSeq(t, 1, i - 1) = SubSeq(b, 1, i - 1)
  BY <1>1, <1>5, BeginningOfBeginning
<1> HIDE DEF t
<1>7. SubSeq(t, 1, i - 1) \o e = t
  <2> DEFINE k == i - 1
  <2>1. k \in 0 .. Len(t) /\ t \in Seq(Byte)
    BY <1>2, <1>5
  <2> HIDE DEF k
  <2>2. SubSeq(t, 1, k) \o From(t, k + 1) = t
    BY <2>1, CutAndJoined
  <2>3. QED
    BY <2>2 DEF k
<1>8. e = Mark
  <2> DEFINE k == i - 1
             f == From(t, k + 1)
  <2>1. k \in Nat /\ k <= Len(t) /\ t \in Seq(Byte) /\ Len(t) - k = 2
    BY <1>1, <1>2
  <2>2. t[k + 1] = Colon /\ t[k + 2] = Blank
    <3>1. k + 1 = i /\ k + 2 = i + 1
      BY <1>1
    <3>2. QED
      BY <1>1, <1>2, <3>1
  <2> HIDE DEF k
  <2>3. f \in Seq(Byte) /\ Len(f) = 2 /\ f[1] = Colon /\ f[2] = Blank
    <3>1. /\ From(t, k + 1) \in Seq(Byte) /\ Len(From(t, k + 1)) = Len(t) - k
          /\ \A j \in 1 .. Len(t) - k : From(t, k + 1)[j] = t[k + j]
      BY <2>1, FromFacts
    <3>2. 1 \in 1 .. Len(t) - k /\ 2 \in 1 .. Len(t) - k
      BY <2>1
    <3>3. QED
      BY <2>1, <2>2, <3>1, <3>2
  <2> HIDE DEF f
  <2>4. \A j \in 1 .. Len(f) : f[j] = Mark[j]
    <3>1. \A j \in 1 .. 2 : j = 1 \/ j = 1 + 1
      OBVIOUS
    <3>2. QED
      BY <2>3, <3>1, MarkFacts
  <2>5. f = Mark
    BY <2>3, <2>4, MarkFacts, SeqEqual
  <2>6. QED
    BY <2>5 DEF f, k
<1>9. QED
  BY <1>3, <1>4, <1>6, <1>7, <1>8, Zenon

(* The separator that the builder writes is not trimmed away. *)
LEMMA MarkIsKept ==
  ASSUME NEW sender \in Seq(Byte), NEW text \in Seq(Byte)
  PROVE  LET whole == sender \o Mark \o text
             b     == TrimNuls(whole)
         IN  /\ b \in Seq(Byte)
             /\ Len(sender) + 1 \in Separators(b)
             /\ \A i \in 1 .. Len(sender) : b[i] = sender[i]
             /\ SubSeq(b, 1, Len(sender)) = sender
<1> DEFINE rest  == Mark \o text
           whole == sender \o rest
           n     == Len(sender)
<1>1. Mark \in Seq(Byte)
  BY MarkFacts
<1>2. /\ rest \in Seq(Byte) /\ Len(rest) = Len(Mark) + Len(text)
      /\ \A i \in 1 .. Len(Mark) : rest[i] = Mark[i]
  BY <1>1, TwoParts
<1>3. sender \o Mark \o text = whole
  <2>1. \A a, c, d \in Seq(Byte) : (a \o c) \o d = a \o (c \o d)
    BY ConcatAssociative
  <2>2. QED
    BY <1>1, <2>1, Zenon
<1>4. n \in Nat /\ Len(text) \in Nat
  OBVIOUS
<1>5. Len(rest) = 2 + Len(text) /\ rest[1] = Colon /\ rest[1 + 1] = Blank
  BY <1>2, MarkFacts
<1> HIDE DEF rest
<1>6. /\ whole \in Seq(Byte) /\ Len(whole) = n + Len(rest)
      /\ \A i \in 1 .. n : whole[i] = sender[i]
      /\ \A i \in 1 .. Len(rest) : whole[n + i] = rest[i]
  <2>1. rest \in Seq(Byte)
    BY <1>2
  <2>2. QED
    BY <2>1, TwoParts
<1>7. SubSeq(whole, 1, n) = sender
  BY <1>2, FirstPart
<1> HIDE DEF whole
<1>8. PICK last \in 0 .. Len(whole) : IsLast(whole, last)
  BY <1>6, LastExists
<1> DEFINE b == SubSeq(whole, 1, last)
<1>9. TrimNuls(whole) = b
  BY <1>6, <1>8, TrimmedAt
<1>10. whole[n + 1] = Colon /\ whole[n + 1 + 1] = Blank
  <2>1. 1 \in 1 .. Len(rest) /\ 1 + 1 \in 1 .. Len(rest) /\ n + (1 + 1) = n + 1 + 1
    BY <1>4, <1>5
  <2>2. whole[n + 1] = rest[1] /\ whole[n + (1 + 1)] = rest[1 + 1]
    BY <1>6, <2>1
  <2>3. QED
    BY <1>5, <2>1, <2>2
<1>11. n + 2 <= last
  <2>1. SUFFICES ASSUME last < n + 2 PROVE FALSE
    BY <1>4, <1>8
  <2>2. n + 1 + 1 \in last + 1 .. Len(whole)
    BY <1>4, <1>5, <1>6, <1>8, <2>1
  <2>3. whole[n + 1 + 1] = 0
    BY <1>8, <2>2 DEF IsLast
  <2>4. QED
    BY <1>10, <2>3 DEF Blank
<1>12. b \in Seq(Byte) /\ Len(b) = last /\ \A i \in 1 .. last : b[i] = whole[i]
  BY <1>6, <1>8, BeginningFacts
<1>13. SubSeq(b, 1, n) = SubSeq(whole, 1, n)
  <2>1. n \in 0 .. last
    BY <1>4, <1>8, <1>11
  <2>2. QED
    BY <1>6, <1>8, <2>1, BeginningOfBeginning
<1> HIDE DEF b, n
<1>14. n + 1 \in 1 .. last /\ n + 1 + 1 \in 1 .. last /\ n + 1 \in 1 .. last - 1
  BY <1>4, <1>8, <1>11
<1>15. b[n + 1] = Colon /\ b[n + 1 + 1] = Blank
  BY <1>10, <1>12, <1>14
<1>16. n + 1 \in Separators(b)
  BY <1>12, <1>14, <1>15 DEF Separators
<1>17. \A i \in 1 .. n : b[i] = sender[i]
  BY <1>4, <1>6, <1>8, <1>11, <1>12
<1>18. QED
  BY <1>3, <1>7, <1>9, <1>12, <1>13, <1>16, <1>17 DEF n

LEMMA FirstMark ==
  ASSUME NEW sender \in Seq(Byte), NEW text \in Seq(Byte)
  PROVE  LET b   == TrimNuls(sender \o Mark \o text)
             cut == CHOOSE i \in Separators(b) : \A j \in Separators(b) : i <= j
         IN  /\ Separators(b) # {}
             /\ SubSeq(b, 1, cut - 1) \o Mark \o From(b, cut + 2) = b
             /\ Separators(sender) = {} => SubSeq(b, 1, cut - 1) = sender
<1> DEFINE b    == TrimNuls(sender \o Mark \o text)
           n    == Len(sender)
           cuts == Separators(b)
           cut  == CHOOSE i \in cuts : \A j \in cuts : i <= j
<1>1. /\ b \in Seq(Byte) /\ n + 1 \in cuts
      /\ \A i \in 1 .. n : b[i] = sender[i]
      /\ SubSeq(b, 1, n) = sender
  BY MarkIsKept
<1>2. n \in Nat
  OBVIOUS
<1> HIDE DEF b
<1>3. /\ cuts \subseteq Nat
      /\ \A i \in cuts : i \in Nat /\ i >= 1 /\ b[i] = Colon /\ b[i + 1] = Blank
  BY <1>1 DEF Separators
<1> HIDE DEF cuts
<1>4. cuts # {}
  BY <1>1
<1>5. \E i \in cuts : \A j \in cuts : i <= j
  BY <1>3, <1>4, HasLeast
<1>6. cut \in cuts /\ \A j \in cuts : cut <= j
  BY <1>5
<1> HIDE DEF cut
<1>7. SubSeq(b, 1, cut - 1) \o Mark \o From(b, cut + 2) = b
  BY <1>1, <1>6, PartedAtMark DEF cuts
<1>8. ASSUME Separators(sender) = {}
      PROVE  SubSeq(b, 1, cut - 1) = sender
  <2>1. cut <= n + 1 /\ cut \in Nat /\ cut >= 1 /\ b[cut] = Colon /\ b[cut + 1] = Blank
    BY <1>1, <1>3, <1>6
  <2>2. b[n + 1] = Colon
    BY <1>1, <1>3
  <2>3. cut # n
    <3>1. Colon # Blank
      BY DEF Colon, Blank
    <3>2. QED
      BY <2>1, <2>2, <3>1
  <2>4. ~ (cut < n)
    <3>1. SUFFICES ASSUME cut < n PROVE FALSE
      OBVIOUS
    <3>2. cut \in 1 .. n - 1 /\ cut \in 1 .. n /\ cut + 1 \in 1 .. n
      BY <1>2, <2>1, <3>1
    <3>3. sender[cut] = Colon /\ sender[cut + 1] = Blank
      BY <1>1, <2>1, <3>2
    <3>4. cut \in Separators(sender)
      BY <3>2, <3>3 DEF Separators, n
    <3>5. QED
      BY <1>8, <3>4
  <2> HIDE DEF n
  <2>5. cut - 1 = n
    BY <1>2, <2>1, <2>3, <2>4
  <2>6. QED
    BY <1>1, <2>5
<1>9. QED
  BY <1>4, <1>7, <1>8 DEF cut, cuts, b

LEMMA GroupTextFacts ==
  ASSUME NEW ts \in Word, NEW sender \in Seq(Byte), NEW text \in Seq(Byte)
  PROVE  LET plain == GroupTextPlaintext(sender, text, ts)
             all   == Padded(plain)
         IN  /\ plain \in Seq(Byte) /\ Len(all) >= CipherKeySize /\ Len(all) \in Nat
             /\ Uint32At(all, 1) = ts /\ all[5] = 0
             /\ TrimNuls(From(all, 6)) = TrimNuls(sender \o Mark \o text)
<1> DEFINE u     == Uint32Bytes(ts)
           f     == <<0>>
           w     == sender \o Mark
           body  == w \o text
           plain == u \o (f \o body)
           all   == Padded(plain)
<1>1. u \in Seq(Byte) /\ Len(u) = 4
  BY WordAlone
<1>2. f \in Seq(Byte) /\ Len(f) = 1 /\ 0 \in Byte
  BY DEF Byte
<1>3. Mark \in Seq(Byte)
  BY MarkFacts
<1>4. w \in Seq(Byte)
  BY <1>3, TwoParts
<1>5. body \in Seq(Byte) /\ Len(body) \in Nat
  BY <1>4, TwoParts
<1>6. \A a, c, d \in Seq(Byte) : (a \o c) \o d = a \o (c \o d)
  BY ConcatAssociative
<1>7. GroupTextPlaintext(sender, text, ts) = plain
  <2> DEFINE g == u \o f
             h == sender \o Mark
  <2>1. GroupTextPlaintext(sender, text, ts) = g \o sender \o Mark \o text
    BY DEF GroupTextPlaintext, Mark
  <2> HIDE DEF u, f
  <2>2. g \in Seq(Byte)
    BY <1>1, <1>2, TwoParts
  <2>3. g \o sender \o Mark = g \o w
    BY <1>3, <1>6, <2>2, Zenon
  <2>4. (g \o w) \o text = g \o (w \o text)
    BY <1>4, <1>6, <2>2, Zenon
  <2>5. g \o body = plain
    <3>1. u \in Seq(Byte) /\ f \in Seq(Byte) /\ body \in Seq(Byte)
      BY <1>1, <1>2, <1>5
    <3>2. QED
      BY <1>6, <3>1, Zenon
  <2>6. QED
    BY <2>1, <2>3, <2>4, <2>5, Zenon
<1> HIDE DEF u, f, w, body
<1>8. f \o body \in Seq(Byte) /\ Len(f \o body) = 1 + Len(body)
  <2>1. 0 \in Byte /\ body \in Seq(Byte)
    BY <1>2, <1>5
  <2>2. <<0>> \o body \in Seq(Byte) /\ Len(<<0>> \o body) = 1 + Len(body)
    BY <2>1, ByteThen
  <2>3. QED
    BY <2>2 DEF f
<1>9. plain \in Seq(Byte) /\ Len(plain) = 4 + Len(f \o body)
  <2>1. f \o body \in Seq(Byte)
    BY <1>8
  <2>2. QED
    BY <2>1, WordThen DEF u
<1> HIDE DEF plain
<1>10. Len(plain) > 0
  BY <1>5, <1>8, <1>9
<1>11. PICK z : IsFill(z) /\ all = plain \o z
  BY <1>9, PaddedWith
<1>12. all \in Seq(Byte) /\ Len(all) >= CipherKeySize
  BY <1>9, <1>10, PaddedIsBytes, PaddedSize
<1>13. z \in Seq(Byte) /\ Len(z) \in Nat /\ z = Zeros(Len(z))
  BY <1>11 DEF IsFill
<1> DEFINE y == body \o z
<1>14. y \in Seq(Byte) /\ Len(y) \in Nat
  BY <1>5, <1>13, TwoParts
<1>15. TrimNuls(y) = TrimNuls(body)
  BY <1>5, <1>13, TrimPadded
<1>16. all = u \o (f \o y)
  <2>1. (f \o body) \o z = f \o (body \o z)
    <3>1. f \in Seq(Byte) /\ body \in Seq(Byte)
      BY <1>2, <1>5
    <3>2. QED
      BY <1>6, <1>13, <3>1, Zenon
  <2>2. (u \o (f \o body)) \o z = u \o ((f \o body) \o z)
    <3>1. u \in Seq(Byte) /\ f \o body \in Seq(Byte)
      BY <1>1, <1>8
    <3>2. QED
      BY <1>6, <1>13, <3>1, Zenon
  <2>3. QED
    BY <1>11, <2>1, <2>2, Zenon DEF plain
<1> HIDE DEF y, all
<1> DEFINE x == f \o y
<1>17. x \in Seq(Byte) /\ x[1] = 0 /\ Len(x) = 1 + Len(y) /\ From(x, 2) = y
  <2>1. 0 \in Byte /\ y \in Seq(Byte)
    BY <1>2, <1>14
  <2>2. LET s == <<0>> \o y
        IN  s \in Seq(Byte) /\ s[1] = 0 /\ Len(s) = 1 + Len(y) /\ From(s, 2) = y
    BY <2>1, ByteThen
  <2>3. QED
    BY <2>2 DEF f
<1> HIDE DEF x
<1>18. all = u \o x
  BY <1>16 DEF x
<1>19. /\ Len(all) = 4 + Len(x) /\ Uint32At(all, 1) = ts
       /\ \A i \in 1 .. Len(x) : all[4 + i] = x[i]
       /\ From(all, 5) = x
  <2>1. x \in Seq(Byte)
    BY <1>17
  <2>2. QED
    BY <1>18, <2>1, WordThen DEF u
<1>20. all[5] = 0
  <2>1. 1 \in 1 .. Len(x) /\ 4 + 1 = 5
    BY <1>14, <1>17
  <2>2. all[4 + 1] = x[1]
    BY <1>19, <2>1
  <2>3. QED
    BY <1>17, <2>1, <2>2
<1>21. From(all, 6) = y
  <2> DEFINE g == u \o f
  <2>1. u \in Seq(Byte) /\ f \in Seq(Byte) /\ y \in Seq(Byte)
    BY <1>1, <1>2, <1>14
  <2>2. g \in Seq(Byte) /\ Len(g) = Len(u) + Len(f)
    BY <2>1, TwoParts
  <2>3. g \o y = all
    BY <1>6, <1>16, <2>1, Zenon
  <2> HIDE DEF g
  <2>4. From(g \o y, Len(g) + 1) = y
    BY <2>1, <2>2, FromBehind
  <2>5. Len(g) + 1 = 6
    BY <1>1, <1>2, <2>2
  <2>6. QED
    BY <2>3, <2>4, <2>5
<1>22. TrimNuls(From(all, 6)) = TrimNuls(sender \o Mark \o text)
  BY <1>15, <1>21, Zenon DEF body, w
<1>23. Len(all) \in Nat
  BY <1>12
<1>24. QED
  BY <1>7, <1>9, <1>12, <1>19, <1>20, <1>22, <1>23, Zenon DEF all

LEMMA GroupTextIsRead ==
  ASSUME NEW p, IsReceived(p), p.type = PayloadGrpTxt, NEW ctx, IsContext(ctx)
  PROVE  IsRead(p, ctx, Reading(p, ctx))
<1> DEFINE m     == p.msg
           key   == ctx.channelSecret
           plain == GroupTextPlaintext(m.sender, m.text, m.ts)
           all   == Padded(plain)
           least == 1 + CipherMACSize + CipherKeySize
           err   == GroupError(key, p.payload, least)
           b     == TrimNuls(m.sender \o Mark \o m.text)
           cut   == CHOOSE i \in Separators(b) : \A j \in Separators(b) : i <= j
<1>1. m \in Message /\ m.type = PayloadGrpTxt
  BY ReceivedFacts
<1>2. m.channel \in Channel /\ m.sender \in Seq(Byte) /\ m.text \in Seq(Byte) /\ m.ts \in Word
  BY <1>1, MessageFields
<1>3. /\ plain \in Seq(Byte) /\ Len(all) >= CipherKeySize /\ Len(all) \in Nat
      /\ Uint32At(all, 1) = m.ts /\ all[5] = 0
      /\ TrimNuls(From(all, 6)) = b
  BY <1>2, GroupTextFacts, Zenon
<1>4. /\ Separators(b) # {}
      /\ SubSeq(b, 1, cut - 1) \o Mark \o From(b, cut + 2) = b
      /\ Separators(m.sender) = {} => SubSeq(b, 1, cut - 1) = m.sender
  BY <1>2, FirstMark, Zenon
<1>5. PayloadOf(m) = Sealed(<<ChannelHash(DeriveChannelSecret(m.channel))>>,
                            DeriveChannelSecret(m.channel), plain)
  BY <1>1, PayloadByType DEF GroupTextPayload
<1>6. p.type \in ForChannel /\ IsReadable(p)
  BY DEF ForChannel, PayloadGrpTxt, PayloadRawCustom, PayloadAdvert, IsReadable
<1> HIDE DEF plain, b
<1>7. least \in Nat /\ Len(Padded(plain)) + 3 >= least
  BY <1>3 DEF CipherMACSize, CipherKeySize
<1> HIDE DEF all, least
<1>8. /\ err = Nil /\ key # NoSecret =>
           /\ p.whole /\ p.payload.plain = all
           /\ \A r : WasOpened(Item(p, r), SecretsIn(ctx))
      /\ p.whole /\ Fits(ctx, m) => key # NoSecret /\ err = Nil
  BY <1>2, <1>3, <1>5, <1>6, <1>7, GroupIsOpened DEF all
<1>9. Reading(p, ctx) = IF key = NoSecret THEN Raw(p) ELSE DecodeGroupTextPayload(key, p.payload)
  BY ReadingByType
<1>10. CASE key = NoSecret
  <2>1. Reading(p, ctx) = Raw(p)
    BY <1>9, <1>10
  <2>2. QED
    BY <1>8, <1>10, <2>1, OpaqueIsRead
<1>11. CASE key # NoSecret /\ err # Nil
  <2>1. Reading(p, ctx) = Failure(err)
    BY <1>9, <1>11, Zenon DEF DecodeGroupTextPayload, least
  <2> HIDE DEF err
  <2>2. QED
    BY <1>6, <1>8, <1>11, <2>1, FailureIsRead
<1>12. CASE key # NoSecret /\ err = Nil
  <2> DEFINE v    == GroupText(all)
             r    == Result("GroupText", v)
             item == Item(p, r)
  <2>1. p.payload.plain = all
    BY <1>8, <1>12
  <2>2. Reading(p, ctx) = r
    BY <1>9, <1>12, <2>1, Zenon DEF DecodeGroupTextPayload, least
  <2>3. v = [timestamp |-> m.ts, txtType |-> 0 \div 4, attempt |-> 0 % 4,
             sender |-> SubSeq(b, 1, cut - 1), text |-> From(b, cut + 2)]
    BY <1>3, <1>4, Zenon DEF GroupText, all
  <2> HIDE DEF cut
  <2>4. v.timestamp = m.ts /\ v.txtType = 0 /\ v.attempt = 0
        /\ v.sender = SubSeq(b, 1, cut - 1) /\ v.text = From(b, cut + 2)
    <3> DEFINE before == SubSeq(b, 1, cut - 1)
               behind == From(b, cut + 2)
    <3>1. 0 \div 4 = 0 /\ 0 % 4 = 0
      OBVIOUS
    <3> HIDE DEF v, before, behind
    <3>2. v = [timestamp |-> m.ts, txtType |-> 0, attempt |-> 0,
               sender |-> before, text |-> behind]
      BY <2>3, <3>1, Zenon DEF before, behind
    <3>3. v.timestamp = m.ts /\ v.txtType = 0 /\ v.attempt = 0
          /\ v.sender = before /\ v.text = behind
      BY <3>2
    <3>4. QED
      BY <3>3, Zenon DEF before, behind
  <2> HIDE DEF v
  <2>5. v.sender \o Mark \o v.text = b
    BY <1>4, <2>4 DEF cut
  <2>6. Separators(m.sender) = {} => v.sender = m.sender
    BY <1>4, <2>4 DEF cut
  <2>7. SaysGroupText(m, v)
    BY <2>4, <2>5, <2>6, Zenon DEF SaysGroupText, Mark, b
  <2>8. r.err = Nil /\ r.as = "GroupText" /\ item.msg = m /\ item.as = "GroupText"
        /\ item.value = v
    BY ItemFields
  <2> HIDE DEF r, item
  <2>9. SaysWhatWasWritten(item)
    BY <2>7, <2>8 DEF SaysWhatWasWritten
  <2>10. WasOpened(item, SecretsIn(ctx))
    BY <1>8, <1>12 DEF item
  <2>11. r.as \notin {"Raw", "Decoded"}
    BY <2>8
  <2>12. QED
    BY <1>6, <2>2, <2>8, <2>9, <2>10, <2>11, ResultIsRead DEF item
<1>13. QED
  BY <1>10, <1>11, <1>12


-----------------------------------------------------------------------------
(* TRACE: hashes of one, two, four or eight bytes one after another. *)
TraceBytes(m) ==
  Uint32Bytes(m.tag) \o Uint32Bytes(m.authCode) \o <<m.flags>> \o FlattenSeq(m.hops)

LEMMA TraceIsRead ==
  ASSUME NEW p, IsReceived(p), p.type = PayloadTrace, NEW ctx
  PROVE  IsRead(p, ctx, Reading(p, ctx))
<1> DEFINE m     == p.msg
           w     == 2 ^ (m.flags % 4)
           route == FlattenSeq(m.hops)
           head  == TraceBytes(m)
<1>1. m \in Message /\ m.type = PayloadTrace /\ p.whole \in BOOLEAN
  BY ReceivedFacts
<1>2. /\ m.tag \in Word /\ m.authCode \in Word /\ m.flags \in Byte
      /\ m.hops \in Seq(Seq(Byte))
      /\ \A i \in DOMAIN m.hops : Len(m.hops[i]) = w
  BY <1>1, MessageFields, Zenon
<1>3. w \in Widths
  BY <1>2, WidthOfFlags
<1>4. AreHops(m.hops, w)
  BY <1>2, <1>3, Zenon DEF AreHops
<1>5. route \in Seq(Byte) /\ Len(route) \in Nat
  BY <1>4, RouteIsBytes
<1>6. /\ head \in Seq(Byte) /\ Len(head) = 9 + Len(route)
      /\ Uint32At(head, 1) = m.tag /\ Uint32At(head, 5) = m.authCode /\ head[9] = m.flags
      /\ From(head, 10) = route
  BY <1>2, <1>5, TraceHead, Zenon DEF TraceBytes
<1>7. PayloadOf(m) = Clear(head)
  BY <1>1, PayloadByType DEF TracePayload, TraceBytes
<1>8. IsReadable(p)
  BY DEF PayloadTrace, PayloadRawCustom, PayloadAdvert, IsReadable
<1>9. Reading(p, ctx) = DecodeTracePayload(p.payload)
  BY ReadingByType
<1> HIDE DEF head, w, route
<1>10. PICK n \in 0 .. Len(head) :
         p.payload = Clear(SubSeq(head, 1, n)) /\ (p.whole => n = Len(head))
  BY <1>6, <1>7, ClearLeft
<1> DEFINE part == SubSeq(head, 1, n)
<1>11. Len(part) = n /\ \A i \in 1 .. n : part[i] = head[i]
  BY <1>6, <1>10, BeginningFacts
<1>12. p.payload.head = part
  BY <1>10, ClearFields
<1>13. CASE n < 9
  <2>1. Reading(p, ctx) = Failure("PayloadTooShort")
    BY <1>9, <1>11, <1>12, <1>13 DEF DecodeTracePayload
  <2>2. ~p.whole /\ "PayloadTooShort" # Nil
    BY <1>5, <1>6, <1>10, <1>13 DEF Nil
  <2>3. QED
    BY <1>8, <2>1, <2>2, FailureIsRead
<1>14. CASE n >= 9
  <2> DEFINE k    == n - 9
             left == SubSeq(route, 1, k)
             hops == SubSeq(m.hops, 1, k \div w)
             v    == [tag |-> m.tag, authCode |-> m.authCode, routeHashes |-> hops]
             r    == Result("Trace", v)
             item == Item(p, r)
  <2>1. k \in 0 .. Len(route) /\ (p.whole => k = Len(route))
    BY <1>5, <1>6, <1>10, <1>14
  <2>2. Uint32At(part, 1) = m.tag /\ Uint32At(part, 5) = m.authCode
    <3>1. 1 \in Nat \ {0} /\ 5 \in Nat \ {0} /\ 1 + 3 <= n /\ 5 + 3 <= n
      BY <1>10, <1>14
    <3>2. head \in Seq(Byte)
      BY <1>6
    <3>3. QED
      BY <1>6, <3>1, <3>2, WordOfBeginning
  <2>3. part[9] = m.flags
    <3>1. 9 \in 1 .. n
      BY <1>10, <1>14
    <3>2. QED
      BY <1>6, <1>11, <3>1
  <2>4. From(part, 10) = left
    <3>1. 9 \in 0 .. n /\ 9 + 1 = 10 /\ head \in Seq(Byte)
      BY <1>6, <1>10, <1>14
    <3>2. From(SubSeq(head, 1, n), 9 + 1) = SubSeq(From(head, 9 + 1), 1, n - 9)
      BY <3>1, RestOfBeginning
    <3>3. QED
      BY <1>6, <3>1, <3>2
  <2>5. /\ [i \in 1 .. Len(left) \div w |-> SubSeq(left, (i - 1) * w + 1, i * w)] = hops
        /\ k \div w \in 0 .. Len(m.hops)
        /\ k = Len(route) => k \div w = Len(m.hops)
    BY <1>4, <2>1, HashesLeft, Zenon DEF route
  <2>6. RouteHashes(m.flags, left) = hops
    BY <2>5, Zenon DEF RouteHashes, w
  <2>7. IF p.whole THEN hops = m.hops ELSE IsPrefix(hops, m.hops)
    <3> DEFINE q == k \div w
    <3>1. q \in 0 .. Len(m.hops) /\ (p.whole => q = Len(m.hops))
      BY <2>1, <2>5
    <3> HIDE DEF q
    <3>2. IsPrefix(SubSeq(m.hops, 1, q), m.hops)
      BY <1>2, <3>1, BeginningIsPrefix
    <3>3. p.whole => SubSeq(m.hops, 1, q) = m.hops
      BY <1>2, <3>1, SubSeqFull
    <3>4. QED
      BY <3>2, <3>3, Zenon DEF q
  <2> HIDE DEF hops, left, part
  <2>8. Reading(p, ctx) = r
    <3>1. ~ (Len(part) < 9)
      BY <1>10, <1>11, <1>14
    <3>2. QED
      BY <1>9, <1>12, <2>2, <2>3, <2>4, <2>6, <3>1, Zenon DEF DecodeTracePayload
  <2>9. v.tag = m.tag /\ v.authCode = m.authCode /\ v.routeHashes = hops
    OBVIOUS
  <2> HIDE DEF v
  <2>10. /\ r.err = Nil /\ r.as = "Trace"
         /\ item.msg = m /\ item.whole = p.whole /\ item.as = "Trace" /\ item.value = v
    BY ItemFields
  <2> HIDE DEF r, item
  <2>11. SaysTrace(item, m, v)
    BY <2>7, <2>9, <2>10 DEF SaysTrace, IsWhatIsLeft
  <2>12. SaysWhatWasWritten(item)
    BY <2>10, <2>11 DEF SaysWhatWasWritten
  <2>13. WasOpened(item, SecretsIn(ctx))
    BY <1>1, InClearIsOpen DEF ClearTypes, item
  <2>14. r.as \notin {"Raw", "Decoded"}
    BY <2>10
  <2>15. QED
    BY <1>8, <2>8, <2>10, <2>12, <2>13, <2>14, ResultIsRead DEF item
<1>15. QED
  BY <1>6, <1>10, <1>13, <1>14


-----------------------------------------------------------------------------
(* CONTROL: a sub-type and four flags, and what there is of the data. *)
LEMMA ControlLeft ==
  ASSUME NEW p, IsReceived(p), NEW b \in Byte, NEW data \in Seq(Byte),
         PayloadOf(p.msg) = Clear(<<b>> \o data)
  PROVE  \/ Len(p.payload.head) < 1 /\ ~p.whole
         \/ \E k \in 0 .. Len(data) :
              /\ p.whole => k = Len(data)
              /\ ~ (Len(p.payload.head) < 1)
              /\ p.payload.head[1] = b
              /\ From(p.payload.head, 2) = SubSeq(data, 1, k)
<1> DEFINE head == <<b>> \o data
<1>1. /\ head \in Seq(Byte) /\ Len(head) = 1 + Len(data)
      /\ head[1] = b /\ From(head, 2) = data
  BY ByteThen
<1>2. PayloadOf(p.msg) = Clear(head) /\ Len(data) \in Nat
  OBVIOUS
<1> HIDE DEF head
<1>3. PICK n \in 0 .. Len(head) :
        p.payload = Clear(SubSeq(head, 1, n)) /\ (p.whole => n = Len(head))
  BY <1>1, <1>2, ClearLeft
<1> DEFINE part == SubSeq(head, 1, n)
<1>4. Len(part) = n /\ \A i \in 1 .. n : part[i] = head[i]
  BY <1>1, <1>3, BeginningFacts
<1>5. p.payload.head = part
  BY <1>3, ClearFields
<1>6. CASE n = 0
  <2>1. ~p.whole /\ Len(part) < 1
    BY <1>1, <1>2, <1>3, <1>4, <1>6
  <2>2. QED
    BY <1>5, <2>1
<1>7. CASE n # 0
  <2> DEFINE k == n - 1
  <2>1. 1 \in 0 .. n /\ 1 \in 1 .. n /\ 1 + 1 = 2 /\ k \in 0 .. Len(data)
    BY <1>1, <1>2, <1>3, <1>7
  <2>2. From(SubSeq(head, 1, n), 1 + 1) = SubSeq(From(head, 1 + 1), 1, n - 1)
    BY <1>1, <2>1, RestOfBeginning
  <2>3. From(part, 2) = SubSeq(data, 1, k)
    BY <1>1, <2>1, <2>2
  <2>4. part[1] = b
    BY <1>1, <1>4, <2>1
  <2>5. p.whole => k = Len(data)
    BY <1>1, <1>2, <1>3
  <2> HIDE DEF k, part
  <2>6. ~ (Len(part) < 1)
    BY <1>3, <1>4, <1>7
  <2>7. QED
    BY <1>5, <2>1, <2>3, <2>4, <2>5, <2>6
<1>8. QED
  BY <1>6, <1>7

LEMMA ShortControlIsRead ==
  ASSUME NEW p, p.type = PayloadControl, NEW ctx, Len(p.payload.head) < 1, ~p.whole
  PROVE  IsRead(p, ctx, Reading(p, ctx))
<1> DEFINE r == Failure("PayloadTooShort")
<1>1. DecodeControlPayload(p.payload) = r
  BY Zenon DEF DecodeControlPayload
<1>2. r.as # "Control"
  BY DEF Failure
<1> HIDE DEF r
<1>3. Reading(p, ctx) = DecodeControl(p, ctx)
  BY ReadingByType
<1>4. Reading(p, ctx) = r
  BY <1>1, <1>2, <1>3, Zenon DEF DecodeControl
<1>5. "PayloadTooShort" # Nil /\ IsReadable(p)
  BY DEF Nil, PayloadControl, PayloadRawCustom, PayloadAdvert, IsReadable
<1>6. QED
  BY <1>4, <1>5, FailureIsRead DEF r

(* A DISCOVER message that is read as one. *)
LEMMA DiscoverIsRead ==
  ASSUME NEW p, IsReceived(p), p.type = PayloadControl, NEW ctx, NEW as, NEW v,
         as \in {"DiscoverReq", "DiscoverResp"},
         DecodeControlPayload(p.payload) = Result(as, v),
         as = "DiscoverReq" => SaysDiscoverReq(Item(p, Result(as, v)), p.msg, v),
         as = "DiscoverResp" => SaysDiscoverResp(Item(p, Result(as, v)), p.msg, v)
  PROVE  IsRead(p, ctx, Reading(p, ctx))
<1> DEFINE r    == Result(as, v)
           item == Item(p, r)
<1>1. r.err = Nil /\ r.as = as /\ item.msg = p.msg /\ item.as = as /\ item.value = v
  BY Zenon DEF Result, Item
<1>2. p.msg.type = PayloadControl /\ IsReadable(p)
  BY ReceivedFacts DEF PayloadControl, PayloadRawCustom, PayloadAdvert, IsReadable
<1>3. Reading(p, ctx) = DecodeControl(p, ctx)
  BY ReadingByType
<1>4. /\ DecodeControlPayload(p.payload) = r
      /\ as = "DiscoverReq" => SaysDiscoverReq(item, p.msg, v)
      /\ as = "DiscoverResp" => SaysDiscoverResp(item, p.msg, v)
  OBVIOUS
<1> HIDE DEF r, item
<1>5. r.as # "Control"
  BY <1>1
<1>6. Reading(p, ctx) = r
  BY <1>3, <1>4, <1>5, Zenon DEF DecodeControl
<1>7. SaysWhatWasWritten(item)
  BY <1>1, <1>4 DEF SaysWhatWasWritten
<1>8. WasOpened(item, SecretsIn(ctx))
  BY <1>2, InClearIsOpen DEF ClearTypes, item
<1>9. r.as \notin {"Raw", "Decoded"}
  BY <1>1
<1>10. QED
  BY <1>1, <1>2, <1>6, <1>7, <1>8, <1>9, ResultIsRead DEF item

(* What no DISCOVER type reads: a registered decoder may. *)
LEMMA OtherControlIsRead ==
  ASSUME NEW p, IsReceived(p), p.type = PayloadControl, NEW ctx, NEW flags, NEW data,
         DecodeControlPayload(p.payload) =
           Result("Control", [subType |-> p.msg.sub, flags |-> flags, data |-> data]),
         p.msg.sub \in {SubDiscoverReq, SubDiscoverResp} => ~p.whole /\ Len(data) < 5,
         p.msg.sub \notin {SubDiscoverReq, SubDiscoverResp} =>
           IF p.whole THEN data = p.msg.data ELSE IsPrefix(data, p.msg.data)
  PROVE  IsRead(p, ctx, Reading(p, ctx))
<1> DEFINE m == p.msg
           v == [subType |-> m.sub, flags |-> flags, data |-> data]
           r == Result("Control", v)
           w == [map |-> "ControlDecoders", key |-> m.sub, body |-> data]
           d == Result("Decoded", w)
           short == m.sub \in {SubDiscoverReq, SubDiscoverResp}
<1>1. m.type = PayloadControl /\ IsReadable(p)
  BY ReceivedFacts DEF PayloadControl, PayloadRawCustom, PayloadAdvert, IsReadable
<1>2. Reading(p, ctx) = DecodeControl(p, ctx)
  BY ReadingByType
<1>3. v.subType = m.sub /\ v.data = data /\ w.map = "ControlDecoders" /\ w.key = m.sub
      /\ w.body = data
  OBVIOUS
<1>4. r.as = "Control" /\ r.value = v /\ DecodeControlPayload(p.payload) = r
  BY DEF Result
<1>5. \A i : WasOpened(Item(p, i), SecretsIn(ctx))
  BY <1>1, InClearIsOpen DEF ClearTypes
<1>6. Reading(p, ctx) = Body(ctx.registry, "ControlDecoders", m.sub, data, r)
  <2> HIDE DEF r, v
  <2>1. QED
    BY <1>2, <1>3, <1>4, Zenon DEF DecodeControl
<1>7. Reading(p, ctx) \in {r, Failure("BodyDecoder"), d}
  <2> HIDE DEF r
  <2>1. QED
    BY <1>6, BodyFacts
<1>8. /\ short => ~p.whole /\ Len(data) < 5
      /\ ~short => IF p.whole THEN data = m.data ELSE IsPrefix(data, m.data)
  OBVIOUS
<1>9. IsRead(p, ctx, r)
  <2> DEFINE item == Item(p, r)
  <2> HIDE DEF v, w, short
  <2>1. r.err = Nil /\ r.as = "Control" /\ item.msg = m /\ item.whole = p.whole
        /\ item.as = "Control" /\ item.value = v
    BY ItemFields
  <2> HIDE DEF r, item
  <2>2. SaysControl(item, m, v)
    BY <1>3, <1>8, <2>1 DEF SaysControl, short
  <2>3. SaysWhatWasWritten(item)
    BY <2>1, <2>2 DEF SaysWhatWasWritten
  <2>4. WasOpened(item, SecretsIn(ctx))
    BY <1>5 DEF item
  <2>5. r.as \notin {"Raw", "Decoded"}
    BY <2>1
  <2>6. QED
    BY <1>1, <2>1, <2>3, <2>4, <2>5, ResultIsRead DEF item
<1>10. IsRead(p, ctx, d)
  <2> DEFINE item == Item(p, d)
  <2> HIDE DEF v, w, short, r
  <2>1. item.msg = m /\ item.whole = p.whole /\ item.value = w
    BY ItemFields
  <2>2. WasOpened(item, SecretsIn(ctx))
    BY <1>5
  <2> HIDE DEF item
  <2>3. IsForControl(item)
    BY <1>1, <1>3, <1>8, <2>1, Zenon DEF IsForControl, IsWhatIsLeft, short
  <2>4. QED
    BY <1>1, <2>2, <2>3, DecodedIsRead DEF item
<1>11. IsRead(p, ctx, Failure("BodyDecoder"))
  <2>1. "BodyDecoder" # Nil
    BY DEF Nil
  <2>2. QED
    BY <1>1, <2>1, FailureIsRead
<1>12. QED
  BY <1>7, <1>9, <1>10, <1>11

(* A byte, a tag and the rest. *)
LEMMA ByteAndWordThen ==
  ASSUME NEW c \in Byte, NEW n \in Word, NEW rest \in Seq(Byte)
  PROVE  LET d == <<c>> \o (Uint32Bytes(n) \o rest)
         IN  /\ d \in Seq(Byte) /\ Len(d) = 5 + Len(rest)
             /\ d[1] = c /\ Uint32At(d, 2) = n
             /\ \A i \in 1 .. Len(rest) : d[5 + i] = rest[i]
             /\ From(d, 6) = rest
<1> DEFINE f == <<c>>
           u == Uint32Bytes(n)
           t == u \o rest
           d == f \o t
<1>1. f \in Seq(Byte) /\ u \in Seq(Byte) /\ Len(f) = 1 /\ Len(u) = 4 /\ Len(rest) \in Nat
  BY WordAlone
<1>2. /\ t \in Seq(Byte) /\ Len(t) = 4 + Len(rest) /\ Uint32At(t, 1) = n
      /\ \A i \in 1 .. Len(rest) : t[4 + i] = rest[i]
  BY WordThen
<1> HIDE DEF u, t
<1>3. d \in Seq(Byte) /\ Len(d) = 1 + Len(t) /\ d[1] = c
      /\ \A i \in 1 .. Len(t) : d[1 + i] = t[i]
  <2>1. t \in Seq(Byte)
    BY <1>2
  <2>2. QED
    BY <2>1, ByteThen
<1> HIDE DEF f, d
<1>4. Uint32At(d, 2) = n
  <2>1. 1 \in 1 .. Len(t) /\ 2 \in 1 .. Len(t) /\ 3 \in 1 .. Len(t) /\ 4 \in 1 .. Len(t)
    BY <1>1, <1>2
  <2>2. /\ d[1 + 1] = t[1] /\ d[1 + 2] = t[2] /\ d[1 + 3] = t[3] /\ d[1 + 4] = t[4]
    BY <1>3, <2>1
  <2>3. /\ d[2] = t[1] /\ d[2 + 1] = t[1 + 1]
        /\ d[2 + 2] = t[1 + 2] /\ d[2 + 3] = t[1 + 3]
    BY <2>2
  <2>4. Uint32At(d, 2) = Uint32At(t, 1)
    BY <2>3 DEF Uint32At
  <2>5. QED
    BY <1>2, <2>4
<1>5. ASSUME NEW i \in 1 .. Len(rest) PROVE d[5 + i] = rest[i]
  <2>1. 4 + i \in 1 .. Len(t) /\ 1 + (4 + i) = 5 + i
    BY <1>1, <1>2
  <2>2. d[1 + (4 + i)] = t[4 + i]
    BY <1>3, <2>1
  <2>3. QED
    BY <1>2, <2>1, <2>2
<1>6. From(d, 6) = rest
  <2> DEFINE g == f \o u
  <2>1. \A a, e, h \in Seq(Byte) : (a \o e) \o h = a \o (e \o h)
    BY ConcatAssociative
  <2>2. f \in Seq(Byte) /\ u \in Seq(Byte)
    BY <1>1
  <2>3. g \o rest = d
    BY <2>1, <2>2, Zenon DEF d, t
  <2>4. g \in Seq(Byte) /\ Len(g) = Len(f) + Len(u)
    <3>1. f \in Seq(Byte)
      BY <2>2
    <3>2. u \in Seq(Byte)
      BY <2>2
    <3>3. QED
      BY <3>1, <3>2, TwoParts
  <2> HIDE DEF g
  <2>5. From(g \o rest, Len(g) + 1) = rest
    BY <2>4, FromBehind
  <2>6. Len(g) + 1 = 6
    BY <1>1, <2>4
  <2>7. QED
    BY <2>3, <2>5, <2>6
<1>7. Len(d) = 5 + Len(rest)
  BY <1>1, <1>2, <1>3
<1>8. QED
  BY <1>3, <1>4, <1>5, <1>6, <1>7 DEF d, t, f, u

LEMMA TwoBytesThen ==
  ASSUME NEW b \in Byte, NEW c \in Byte, NEW x \in Seq(Byte), NEW y \in Seq(Byte)
  PROVE  <<b, c>> \o x \o y = <<b>> \o (<<c>> \o (x \o y))
<1> DEFINE f == <<b>>
           g == <<c>>
           h == <<b, c>>
           s == f \o g
<1>1. f \in Seq(Byte) /\ g \in Seq(Byte) /\ h \in Seq(Byte)
  OBVIOUS
<1>2. x \o y \in Seq(Byte)
  BY TwoParts
<1>3. \A a, d, e \in Seq(Byte) : (a \o d) \o e = a \o (d \o e)
  BY ConcatAssociative
<1>4. Len(f) = 1 /\ f[1] = b /\ Len(g) = 1 /\ g[1] = c
      /\ Len(h) = 2 /\ h[1] = b /\ h[2] = c
  OBVIOUS
<1> HIDE DEF f, g, h
<1>5. h = s
  <2>1. f \in Seq(Byte)
    BY <1>1
  <2>2. g \in Seq(Byte)
    BY <1>1
  <2>3. /\ s \in Seq(Byte) /\ Len(s) = Len(f) + Len(g)
        /\ \A i \in 1 .. Len(f) : s[i] = f[i]
        /\ \A i \in 1 .. Len(g) : s[Len(f) + i] = g[i]
    BY <2>1, <2>2, TwoParts
  <2> HIDE DEF s
  <2>4. Len(s) = 2 /\ s[1] = b /\ s[2] = c
    <3>1. 1 \in 1 .. Len(f) /\ 1 \in 1 .. Len(g)
      BY <1>4
    <3>2. s[1] = f[1] /\ s[Len(f) + 1] = g[1]
      BY <2>3, <3>1
    <3>3. QED
      BY <1>4, <2>3, <3>2
  <2>5. \A i \in 1 .. Len(h) : h[i] = s[i]
    BY <1>4, <2>4
  <2>6. h \in Seq(Byte) /\ s \in Seq(Byte) /\ Len(h) = Len(s)
    BY <1>1, <1>4, <2>3, <2>4
  <2>7. QED
    BY <2>5, <2>6, SeqEqual
<1>6. h \o x \o y = h \o (x \o y)
  <2>1. h \in Seq(Byte)
    BY <1>1
  <2>2. QED
    BY <1>3, <2>1, Zenon
<1>7. (f \o g) \o (x \o y) = f \o (g \o (x \o y))
  <2>1. f \in Seq(Byte) /\ g \in Seq(Byte)
    BY <1>1
  <2>2. QED
    BY <1>2, <1>3, <2>1, Zenon
<1>8. QED
  BY <1>5, <1>6, <1>7, Zenon DEF f, g, h, s


LEMMA DiscoverReqIsRead ==
  ASSUME NEW p, IsReceived(p), p.type = PayloadControl, p.msg.sub = SubDiscoverReq, NEW ctx
  PROVE  IsRead(p, ctx, Reading(p, ctx))
<1> DEFINE m    == p.msg
           b    == SubDiscoverReq * 16 + (IF m.prefixOnly THEN 1 ELSE 0)
           tail == Uint32Bytes(m.since)
           data == <<m.typeFilter>> \o (Uint32Bytes(m.tag) \o tail)
<1>1. m \in Message /\ m.type = PayloadControl /\ p.whole \in BOOLEAN
  BY ReceivedFacts
<1>2. m.typeFilter \in Byte /\ m.tag \in Word /\ m.since \in Word /\ m.prefixOnly \in BOOLEAN
  BY <1>1, ControlFields
<1>3. b \in Byte /\ b \div 16 = SubDiscoverReq /\ (b % 2 = 1 <=> m.prefixOnly)
  <2>1. CASE m.prefixOnly
    BY <2>1 DEF Byte, SubDiscoverReq
  <2>2. CASE ~m.prefixOnly
    BY <2>2 DEF Byte, SubDiscoverReq
  <2>3. QED
    BY <2>1, <2>2
<1>4. tail \in Seq(Byte) /\ Len(tail) = 4 /\ Uint32At(tail, 1) = m.since
  BY <1>2, WordAlone
<1>5. Uint32Bytes(m.tag) \in Seq(Byte)
  BY <1>2, WordAlone
<1>6. PayloadOf(m) = Clear(<<b>> \o data)
  <2>1. PayloadOf(m) = DiscoverReqPayload(m.typeFilter, m.tag, m.since, m.prefixOnly)
    <3>1. SubDiscoverReq # SubDiscoverResp
      BY DEF SubDiscoverReq, SubDiscoverResp
    <3>2. QED
      BY <1>1, <3>1, PayloadByType, Zenon
  <2>2. PayloadOf(m) = Clear(<<b, m.typeFilter>> \o Uint32Bytes(m.tag) \o tail)
    BY <2>1, Zenon DEF DiscoverReqPayload
  <2> DEFINE u == Uint32Bytes(m.tag)
  <2> HIDE DEF b, tail, u
  <2>3. tail \in Seq(Byte) /\ u \in Seq(Byte)
    BY <1>4, <1>5 DEF u
  <2>4. <<b, m.typeFilter>> \o u \o tail = <<b>> \o (<<m.typeFilter>> \o (u \o tail))
    BY <1>2, <1>3, <2>3, TwoBytesThen
  <2>5. QED
    BY <2>2, <2>4, Zenon DEF u
<1> HIDE DEF b, tail
<1>7. /\ data \in Seq(Byte) /\ Len(data) = 5 + Len(tail)
      /\ data[1] = m.typeFilter /\ Uint32At(data, 2) = m.tag
      /\ \A i \in 1 .. Len(tail) : data[5 + i] = tail[i]
  <2>1. tail \in Seq(Byte)
    BY <1>4
  <2>2. QED
    BY <1>2, <2>1, ByteAndWordThen
<1> HIDE DEF data
<1>8. Uint32At(data, 6) = m.since
  <2>1. 1 \in 1 .. Len(tail) /\ 2 \in 1 .. Len(tail) /\ 3 \in 1 .. Len(tail) /\ 4 \in 1 .. Len(tail)
    BY <1>4
  <2>2. /\ data[5 + 1] = tail[1] /\ data[5 + 2] = tail[2]
        /\ data[5 + 3] = tail[3] /\ data[5 + 4] = tail[4]
    BY <1>7, <2>1
  <2>3. /\ data[6] = tail[1] /\ data[6 + 1] = tail[1 + 1]
        /\ data[6 + 2] = tail[1 + 2] /\ data[6 + 3] = tail[1 + 3]
    BY <2>2
  <2>4. Uint32At(data, 6) = Uint32At(tail, 1)
    BY <2>3 DEF Uint32At
  <2>5. QED
    BY <1>4, <2>4
<1>9. Len(data) = 9 /\ data \in Seq(Byte)
  BY <1>4, <1>7
<1>10. CASE Len(p.payload.head) < 1 /\ ~p.whole
  BY <1>10, ShortControlIsRead
<1>11. ASSUME NEW k \in 0 .. Len(data),
              p.whole => k = Len(data),
              ~ (Len(p.payload.head) < 1),
              p.payload.head[1] = b,
              From(p.payload.head, 2) = SubSeq(data, 1, k)
       PROVE  IsRead(p, ctx, Reading(p, ctx))
  <2> DEFINE left == SubSeq(data, 1, k)
  <2>1. Len(left) = k /\ \A i \in 1 .. k : left[i] = data[i]
    BY <1>9, BeginningFacts
  <2>2. k \in 0 .. 9 /\ (p.whole => k = 9)
    BY <1>9, <1>11
  <2>3. CASE k < 5
    <3>1. ~ (Len(left) >= 5) /\ Len(left) < 5 /\ ~p.whole
      BY <2>1, <2>2, <2>3
    <3> HIDE DEF left
    <3>2. SubDiscoverReq # SubDiscoverResp
      BY DEF SubDiscoverReq, SubDiscoverResp
    <3>3. From(p.payload.head, 2) = left
      BY <1>11 DEF left
    <3>4. DecodeControlPayload(p.payload) =
            Result("Control", [subType |-> m.sub, flags |-> b, data |-> left])
      BY <1>3, <1>11, <3>1, <3>2, <3>3, Zenon DEF DecodeControlPayload
    <3>5. QED
      BY <3>1, <3>4, OtherControlIsRead
  <2>4. CASE k >= 5
    <3> DEFINE v    == [prefixOnly |-> b % 2 = 1, typeFilter |-> left[1],
                        tag |-> Uint32At(left, 2),
                        since |-> IF Len(left) >= 9 THEN Uint32At(left, 6) ELSE 0]
               r    == Result("DiscoverReq", v)
               item == Item(p, r)
    <3>1. Len(left) >= 5
      BY <2>1, <2>2, <2>4
    <3>2. left[1] = m.typeFilter
      <4>1. 1 \in 1 .. k
        BY <2>2, <2>4
      <4>2. QED
        BY <1>7, <2>1, <4>1
    <3>3. Uint32At(left, 2) = m.tag
      <4>1. 2 \in Nat \ {0} /\ 2 + 3 <= k
        BY <2>2, <2>4
      <4>2. QED
        BY <1>7, <1>9, <4>1, WordOfBeginning
    <3>4. k = 9 => Uint32At(left, 6) = m.since
      <4>1. ASSUME k = 9 PROVE 6 \in Nat \ {0} /\ 6 + 3 <= k
        BY <4>1
      <4>2. QED
        BY <1>8, <1>9, <4>1, WordOfBeginning
    <3>5. Len(left) >= 9 <=> k = 9
      BY <2>1, <2>2
    <3>6. From(p.payload.head, 2) = left
      BY <1>11
    <3> HIDE DEF left
    <3>7. DecodeControlPayload(p.payload) = DiscoverReq(b, left)
      BY <1>3, <1>11, <3>1, <3>6, Zenon DEF DecodeControlPayload
    <3>8. DecodeControlPayload(p.payload) = r
      BY <3>7, Zenon DEF DiscoverReq
    <3>9. /\ v.prefixOnly = m.prefixOnly /\ v.typeFilter = m.typeFilter /\ v.tag = m.tag
          /\ v.since = IF k = 9 THEN m.since ELSE 0
      <4> DEFINE since == IF Len(left) >= 9 THEN Uint32At(left, 6) ELSE 0
                 first == left[1]
                 tag   == Uint32At(left, 2)
                 only  == b % 2 = 1
      <4>1. since = IF k = 9 THEN m.since ELSE 0
        BY <3>4, <3>5
      <4>2. only = m.prefixOnly
        <5>1. only <=> m.prefixOnly
          BY <1>3
        <5>2. only \in BOOLEAN
          OBVIOUS
        <5> HIDE DEF only
        <5>3. QED
          BY <1>2, <5>1, <5>2
      <4>3. v = [prefixOnly |-> only, typeFilter |-> first, tag |-> tag, since |-> since]
        OBVIOUS
      <4> HIDE DEF v, since, first, tag, only
      <4>4. v.prefixOnly = only /\ v.typeFilter = first /\ v.tag = tag /\ v.since = since
        BY <4>3
      <4>5. first = m.typeFilter /\ tag = m.tag
        BY <3>2, <3>3 DEF first, tag
      <4>6. QED
        BY <4>1, <4>2, <4>4, <4>5
    <3> HIDE DEF v
    <3>10. item.whole = p.whole
      BY ItemFields
    <3> HIDE DEF item
    <3>11. SaysDiscoverReq(item, m, v)
      BY <2>2, <3>9, <3>10 DEF SaysDiscoverReq
    <3>12. "DiscoverReq" # "DiscoverResp" /\ "DiscoverReq" \in {"DiscoverReq", "DiscoverResp"}
      OBVIOUS
    <3>13. QED
      BY <3>8, <3>11, <3>12, DiscoverIsRead DEF item
  <2>5. QED
    BY <2>2, <2>3, <2>4
<1>12. \/ Len(p.payload.head) < 1 /\ ~p.whole
       \/ \E k \in 0 .. Len(data) :
            /\ p.whole => k = Len(data)
            /\ ~ (Len(p.payload.head) < 1)
            /\ p.payload.head[1] = b
            /\ From(p.payload.head, 2) = SubSeq(data, 1, k)
  BY <1>3, <1>6, <1>9, ControlLeft
<1>13. QED
  BY <1>10, <1>11, <1>12, Zenon

LEMMA OtherSubIsRead ==
  ASSUME NEW p, IsReceived(p), p.type = PayloadControl,
         p.msg.sub \notin {SubDiscoverReq, SubDiscoverResp}, NEW ctx
  PROVE  IsRead(p, ctx, Reading(p, ctx))
<1> DEFINE m    == p.msg
           b    == m.sub * 16
           data == m.data
<1>1. m \in Message /\ m.type = PayloadControl /\ p.whole \in BOOLEAN
  BY ReceivedFacts
<1>2. m.sub \in 0 .. 15 /\ data \in Seq(Byte)
  BY <1>1, ControlFields
<1>3. b \in Byte /\ b \div 16 = m.sub
  <2> DEFINE s == m.sub
  <2>1. s \in 0 .. 15
    BY <1>2
  <2> HIDE DEF s
  <2>2. s * 16 \in 0 .. 255 /\ (s * 16) \div 16 = s
    BY <2>1
  <2>3. QED
    BY <2>2 DEF s, Byte
<1>4. m.sub # SubDiscoverReq /\ m.sub # SubDiscoverResp
  OBVIOUS
<1>5. PayloadOf(m) = Clear(<<b>> \o data)
  BY <1>1, <1>4, PayloadByType, Zenon
<1> HIDE DEF b, data
<1>6. CASE Len(p.payload.head) < 1 /\ ~p.whole
  BY <1>6, ShortControlIsRead
<1>7. ASSUME NEW k \in 0 .. Len(data),
             p.whole => k = Len(data),
             ~ (Len(p.payload.head) < 1),
             p.payload.head[1] = b,
             From(p.payload.head, 2) = SubSeq(data, 1, k)
      PROVE  IsRead(p, ctx, Reading(p, ctx))
  <2> DEFINE left == SubSeq(data, 1, k)
  <2>1. IsPrefix(left, data)
    BY <1>2, BeginningIsPrefix
  <2>2. p.whole => left = data
    BY <1>2, <1>7, SubSeqFull
  <2>3. From(p.payload.head, 2) = left
    BY <1>7
  <2> HIDE DEF left
  <2>4. DecodeControlPayload(p.payload) =
          Result("Control", [subType |-> m.sub, flags |-> b, data |-> left])
    BY <1>3, <1>4, <1>7, <2>3, Zenon DEF DecodeControlPayload
  <2>5. IF p.whole THEN left = m.data ELSE IsPrefix(left, m.data)
    BY <2>1, <2>2 DEF data
  <2>6. QED
    BY <2>4, <2>5, OtherControlIsRead
<1>8. \/ Len(p.payload.head) < 1 /\ ~p.whole
      \/ \E k \in 0 .. Len(data) :
           /\ p.whole => k = Len(data)
           /\ ~ (Len(p.payload.head) < 1)
           /\ p.payload.head[1] = b
           /\ From(p.payload.head, 2) = SubSeq(data, 1, k)
  BY <1>2, <1>3, <1>5, ControlLeft
<1>9. QED
  BY <1>6, <1>7, <1>8, Zenon


(* A key that is whole, the first eight bytes of it, or what there is. *)
LEMMA KeyLeft ==
  ASSUME NEW key \in Seq(Byte), Len(key) \in {8, KeySize}, NEW j \in 0 .. Len(key)
  PROVE  /\ IsPrefix(KeyPrefix(SubSeq(key, 1, j)), key)
         /\ j = Len(key) => KeyPrefix(SubSeq(key, 1, j)) = key
<1> DEFINE x == SubSeq(key, 1, j)
           n == Len(key)
<1>1. x \in Seq(Byte) /\ Len(x) = j
  BY BeginningFacts
<1>2. n = 8 \/ n = 32
  BY DEF KeySize
<1>3. j \in Nat /\ j <= n
  OBVIOUS
<1>4. \E i \in 0 .. j : KeyPrefix(x) = SubSeq(x, 1, i) /\ (j = n => i = j)
  <2> HIDE DEF x, n
  <2>1. CASE j >= 32
    <3>1. Len(x) >= KeySize /\ j = KeySize
      BY <1>1, <1>2, <1>3, <2>1 DEF KeySize
    <3>2. KeyPrefix(x) = SubSeq(x, 1, j)
      BY <3>1, Zenon DEF KeyPrefix
    <3>3. j \in 0 .. j
      BY <1>3
    <3>4. QED
      BY <3>2, <3>3
  <2>2. CASE j < 32 /\ j >= 8
    <3>1. ~ (Len(x) >= KeySize) /\ Len(x) >= 8
      BY <1>1, <1>3, <2>2 DEF KeySize
    <3>2. KeyPrefix(x) = SubSeq(x, 1, 8)
      BY <3>1, Zenon DEF KeyPrefix
    <3>3. 8 \in 0 .. j /\ (j = n => 8 = j)
      BY <1>2, <1>3, <2>2
    <3>4. QED
      BY <3>2, <3>3
  <2>3. CASE j < 8
    <3>1. ~ (Len(x) >= KeySize) /\ ~ (Len(x) >= 8)
      BY <1>1, <1>3, <2>3 DEF KeySize
    <3>2. KeyPrefix(x) = x
      BY <3>1, Zenon DEF KeyPrefix
    <3>3. x = SubSeq(x, 1, j)
      BY <1>1, SubSeqFull
    <3>4. j \in 0 .. j
      BY <1>3
    <3>5. QED
      BY <3>2, <3>3, <3>4
  <2>4. QED
    BY <1>3, <2>1, <2>2, <2>3
<1>5. PICK i \in 0 .. j : KeyPrefix(x) = SubSeq(x, 1, i) /\ (j = n => i = j)
  BY <1>4
<1>6. SubSeq(x, 1, i) = SubSeq(key, 1, i) /\ i \in 0 .. Len(key)
  BY BeginningOfBeginning
<1>7. IsPrefix(SubSeq(key, 1, i), key)
  BY <1>6, BeginningIsPrefix
<1>8. j = n => SubSeq(key, 1, i) = key
  BY <1>5, SubSeqFull
<1>9. QED
  BY <1>5, <1>6, <1>7, <1>8, Zenon

LEMMA DiscoverRespIsRead ==
  ASSUME NEW p, IsReceived(p), p.type = PayloadControl, p.msg.sub = SubDiscoverResp, NEW ctx
  PROVE  IsRead(p, ctx, Reading(p, ctx))
<1> DEFINE m    == p.msg
           b    == SubDiscoverResp * 16 + m.nodeType
           c    == m.snr % 256
           u    == Uint32Bytes(m.tag)
           key  == m.pubKey
           data == <<c>> \o (u \o key)
<1>1. m \in Message /\ m.type = PayloadControl /\ p.whole \in BOOLEAN
  BY ReceivedFacts
<1>2. /\ m.nodeType \in 0 .. 15 /\ m.snr \in -128 .. 127 /\ m.tag \in Word
      /\ key \in Seq(Byte) /\ Len(key) \in {8, KeySize}
  BY <1>1, ControlFields
<1>3. b \in Byte /\ b \div 16 = SubDiscoverResp /\ b % 16 = m.nodeType
  <2> DEFINE t == m.nodeType
  <2>1. t \in 0 .. 15
    BY <1>2
  <2> HIDE DEF t
  <2>2. 144 + t \in 0 .. 255 /\ (144 + t) \div 16 = 9 /\ (144 + t) % 16 = t
    BY <2>1
  <2>3. QED
    BY <2>2 DEF t, Byte, SubDiscoverResp
<1>4. c \in Byte /\ Signed8(c) = m.snr
  BY <1>2, SnrIsRead
<1>5. u \in Seq(Byte)
  BY <1>2, WordAlone
<1>6. SubDiscoverReq # SubDiscoverResp
  BY DEF SubDiscoverReq, SubDiscoverResp
<1>7. PayloadOf(m) = Clear(<<b>> \o data)
  <2>1. PayloadOf(m) = Clear(<<b, c>> \o u \o key)
    BY <1>1, <1>6, PayloadByType, Zenon
  <2> HIDE DEF b, c, u, key
  <2>2. key \in Seq(Byte)
    BY <1>2
  <2>3. <<b, c>> \o u \o key = <<b>> \o (<<c>> \o (u \o key))
    BY <1>3, <1>4, <1>5, <2>2, TwoBytesThen
  <2>4. QED
    BY <2>1, <2>3, Zenon
<1> HIDE DEF b, c, key
<1>8. /\ data \in Seq(Byte) /\ Len(data) = 5 + Len(key)
      /\ data[1] = c /\ Uint32At(data, 2) = m.tag
      /\ From(data, 6) = key
  <2>1. c \in Byte /\ key \in Seq(Byte) /\ m.tag \in Word
    BY <1>2, <1>4
  <2>2. QED
    BY <2>1, ByteAndWordThen
<1> HIDE DEF u, data
<1>9. Len(key) \in Nat /\ data \in Seq(Byte) /\ Len(data) \in Nat
  BY <1>2, <1>8
<1>10. CASE Len(p.payload.head) < 1 /\ ~p.whole
  BY <1>10, ShortControlIsRead
<1>11. ASSUME NEW k \in 0 .. Len(data),
              p.whole => k = Len(data),
              ~ (Len(p.payload.head) < 1),
              p.payload.head[1] = b,
              From(p.payload.head, 2) = SubSeq(data, 1, k)
       PROVE  IsRead(p, ctx, Reading(p, ctx))
  <2> DEFINE left == SubSeq(data, 1, k)
  <2>1. Len(left) = k /\ \A i \in 1 .. k : left[i] = data[i]
    BY <1>9, BeginningFacts
  <2>2. CASE k < 5
    <3>1. ~ (Len(left) >= 5) /\ Len(left) < 5 /\ ~p.whole
      BY <1>8, <1>9, <1>11, <2>1, <2>2
    <3> HIDE DEF left
    <3>2. From(p.payload.head, 2) = left
      BY <1>11 DEF left
    <3>3. DecodeControlPayload(p.payload) =
            Result("Control", [subType |-> m.sub, flags |-> b, data |-> left])
      BY <1>3, <1>6, <1>11, <3>1, <3>2, Zenon DEF DecodeControlPayload
    <3>4. QED
      BY <3>1, <3>3, OtherControlIsRead
  <2>3. CASE k >= 5
    <3> DEFINE j    == k - 5
               v    == [nodeType |-> b % 16, snr |-> Signed8(left[1]),
                        tag |-> Uint32At(left, 2), pubKey |-> KeyPrefix(From(left, 6))]
               r    == Result("DiscoverResp", v)
               item == Item(p, r)
    <3>1. Len(left) >= 5
      BY <1>11, <2>1, <2>3
    <3>2. left[1] = c
      <4>1. 1 \in 1 .. k
        BY <1>9, <1>11, <2>3
      <4>2. QED
        BY <1>8, <2>1, <4>1
    <3>3. Uint32At(left, 2) = m.tag
      <4>1. 2 \in Nat \ {0} /\ 2 + 3 <= k
        BY <1>9, <1>11, <2>3
      <4>2. QED
        BY <1>8, <1>9, <4>1, WordOfBeginning
    <3>4. j \in 0 .. Len(key) /\ (p.whole => j = Len(key))
      BY <1>8, <1>9, <1>11, <2>3
    <3>5. From(left, 6) = SubSeq(key, 1, j)
      <4>1. 5 \in 0 .. k /\ 5 + 1 = 6
        BY <1>9, <1>11, <2>3
      <4>2. From(SubSeq(data, 1, k), 5 + 1) = SubSeq(From(data, 5 + 1), 1, k - 5)
        BY <1>9, <4>1, RestOfBeginning
      <4>3. QED
        BY <1>8, <4>1, <4>2
    <3> HIDE DEF j
    <3> DEFINE pub == KeyPrefix(SubSeq(key, 1, j))
    <3>6. IsPrefix(pub, key) /\ (p.whole => pub = key)
      BY <1>2, <3>4, KeyLeft
    <3>7. From(p.payload.head, 2) = left
      BY <1>11
    <3> HIDE DEF left, pub
    <3>8. DecodeControlPayload(p.payload) = DiscoverResp(b, left)
      BY <1>3, <1>6, <1>11, <3>1, <3>7, Zenon DEF DecodeControlPayload
    <3>9. DecodeControlPayload(p.payload) = r
      BY <3>8, Zenon DEF DiscoverResp
    <3>10. v = [nodeType |-> m.nodeType, snr |-> m.snr, tag |-> m.tag, pubKey |-> pub]
      BY <1>3, <1>4, <3>2, <3>3, <3>5, Zenon DEF pub
    <3> HIDE DEF v
    <3>11. v.nodeType = m.nodeType /\ v.snr = m.snr /\ v.tag = m.tag /\ v.pubKey = pub
      BY <3>10
    <3>12. item.whole = p.whole
      BY ItemFields
    <3> HIDE DEF item
    <3>13. SaysDiscoverResp(item, m, v)
      BY <3>6, <3>11, <3>12 DEF SaysDiscoverResp, IsWhatIsLeft, key
    <3>14. "DiscoverReq" # "DiscoverResp" /\ "DiscoverResp" \in {"DiscoverReq", "DiscoverResp"}
      OBVIOUS
    <3>15. QED
      BY <3>9, <3>13, <3>14, DiscoverIsRead DEF item
  <2>4. QED
    BY <1>9, <1>11, <2>2, <2>3
<1>12. \/ Len(p.payload.head) < 1 /\ ~p.whole
       \/ \E k \in 0 .. Len(data) :
            /\ p.whole => k = Len(data)
            /\ ~ (Len(p.payload.head) < 1)
            /\ p.payload.head[1] = b
            /\ From(p.payload.head, 2) = SubSeq(data, 1, k)
  BY <1>3, <1>7, <1>9, ControlLeft
<1>13. QED
  BY <1>10, <1>11, <1>12, Zenon

LEMMA ControlIsRead ==
  ASSUME NEW p, IsReceived(p), p.type = PayloadControl, NEW ctx
  PROVE  IsRead(p, ctx, Reading(p, ctx))
BY DiscoverReqIsRead, DiscoverRespIsRead, OtherSubIsRead, Zenon


-----------------------------------------------------------------------------
(* Every payload in the store is made of bytes. *)
IsBytes(payload) == payload.head \in Seq(Byte) /\ payload.plain \in Seq(Byte)

LEMMA ClearIsBytes ==
  ASSUME NEW p, IsReceived(p), NEW head \in Seq(Byte), PayloadOf(p.msg) = Clear(head)
  PROVE  IsBytes(p.payload)
<1>1. PICK n \in 0 .. Len(head) : p.payload = Clear(SubSeq(head, 1, n))
  BY ClearLeft
<1>2. SubSeq(head, 1, n) \in Seq(Byte)
  BY <1>1, BeginningFacts
<1>3. p.payload.head = SubSeq(head, 1, n) /\ p.payload.plain = << >>
  BY <1>1, ClearFields
<1>4. QED
  BY <1>2, <1>3 DEF IsBytes

LEMMA SealedIsBytes ==
  ASSUME NEW p, IsReceived(p), NEW head \in Seq(Byte), NEW secret, secret # NoSecret,
         NEW plain \in Seq(Byte), PayloadOf(p.msg) = Sealed(head, secret, plain)
  PROVE  IsBytes(p.payload)
BY SealedLeft DEF IsBytes

LEMMA Joined ==
  \A x, y \in Seq(Byte) : x \o y \in Seq(Byte)
BY TwoParts

LEMMA ControlIsBytes ==
  ASSUME NEW p, IsReceived(p), p.type = PayloadControl
  PROVE  IsBytes(p.payload)
<1> DEFINE m == p.msg
<1>1. m \in Message /\ m.type = PayloadControl
  BY ReceivedFacts
<1>2. SubDiscoverReq # SubDiscoverResp
  BY DEF SubDiscoverReq, SubDiscoverResp
<1>3. CASE m.sub = SubDiscoverReq
  <2> DEFINE b    == SubDiscoverReq * 16 + (IF m.prefixOnly THEN 1 ELSE 0)
             c    == m.typeFilter
             bc   == <<b, c>>
             u    == Uint32Bytes(m.tag)
             t    == Uint32Bytes(m.since)
  <2>1. c \in Byte /\ m.tag \in Word /\ m.since \in Word /\ m.prefixOnly \in BOOLEAN
    BY <1>1, <1>3, ControlFields
  <2>2. b \in Byte
    BY <2>1 DEF Byte, SubDiscoverReq
  <2>3. u \in Seq(Byte) /\ t \in Seq(Byte)
    BY <2>1, WordAlone
  <2>4. PayloadOf(m) = DiscoverReqPayload(m.typeFilter, m.tag, m.since, m.prefixOnly)
    BY <1>1, <1>2, <1>3, PayloadByType, Zenon
  <2>5. PayloadOf(m) = Clear(bc \o u \o t)
    BY <2>4, Zenon DEF DiscoverReqPayload
  <2> HIDE DEF b, c
  <2>6. bc \in Seq(Byte)
    BY <2>1, <2>2
  <2> HIDE DEF bc, u, t
  <2>7. bc \o u \o t \in Seq(Byte)
    BY <2>3, <2>6, Joined, Zenon
  <2>8. QED
    BY <2>5, <2>7, ClearIsBytes
<1>4. CASE m.sub = SubDiscoverResp
  <2> DEFINE b    == SubDiscoverResp * 16 + m.nodeType
             c    == m.snr % 256
             bc   == <<b, c>>
             u    == Uint32Bytes(m.tag)
             key  == m.pubKey
             kind == m.nodeType
  <2>1. kind \in 0 .. 15 /\ m.snr \in -128 .. 127 /\ m.tag \in Word /\ key \in Seq(Byte)
    BY <1>1, <1>4, ControlFields
  <2>2. b \in Byte
    <3> HIDE DEF kind
    <3>1. SubDiscoverResp * 16 + kind \in Byte
      BY <2>1 DEF Byte, SubDiscoverResp
    <3>2. QED
      BY <3>1 DEF kind
  <2>3. c \in Byte
    BY <2>1, SnrIsRead
  <2>4. u \in Seq(Byte)
    BY <2>1, WordAlone
  <2>5. PayloadOf(m) = Clear(bc \o u \o key)
    BY <1>1, <1>2, <1>4, PayloadByType, Zenon
  <2> HIDE DEF b, c
  <2>6. bc \in Seq(Byte)
    BY <2>2, <2>3
  <2> HIDE DEF bc, u, key
  <2>7. bc \o u \o key \in Seq(Byte)
    BY <2>1, <2>4, <2>6, Joined, Zenon
  <2>8. QED
    BY <2>5, <2>7, ClearIsBytes
<1>5. CASE m.sub # SubDiscoverReq /\ m.sub # SubDiscoverResp
  <2> DEFINE sub  == m.sub
             b    == sub * 16
             data == m.data
  <2>1. sub \in 0 .. 15 /\ data \in Seq(Byte)
    BY <1>1, <1>5, ControlFields
  <2>2. PayloadOf(m) = Clear(<<b>> \o data)
    BY <1>1, <1>5, PayloadByType, Zenon
  <2> HIDE DEF sub, data
  <2>3. b \in Byte
    BY <2>1 DEF Byte
  <2> HIDE DEF b
  <2>4. <<b>> \o data \in Seq(Byte)
    BY <2>1, <2>3, ByteThen
  <2>5. QED
    BY <2>2, <2>4, ClearIsBytes
<1>6. QED
  BY <1>3, <1>4, <1>5

LEMMA InClearIsBytes ==
  ASSUME NEW p, IsReceived(p), p.type \in ClearTypes \union {PayloadRawCustom},
         p.type # PayloadAdvert
  PROVE  IsBytes(p.payload)
<1> DEFINE m == p.msg
<1>1. m \in Message /\ m.type = p.type
  BY ReceivedFacts
<1>2. CASE p.type = PayloadAck
  <2>1. Uint32Bytes(m.crc) \in Seq(Byte)
    BY <1>1, <1>2, MessageFields, WordAlone
  <2>2. PayloadOf(m) = Clear(Uint32Bytes(m.crc))
    BY <1>1, <1>2, PayloadByType
  <2>3. QED
    BY <2>1, <2>2, ClearIsBytes
<1>4. CASE p.type = PayloadTrace
  <2> DEFINE w == 2 ^ (m.flags % 4)
  <2>1. /\ m.tag \in Word /\ m.authCode \in Word /\ m.flags \in Byte
        /\ m.hops \in Seq(Seq(Byte))
        /\ \A i \in DOMAIN m.hops : Len(m.hops[i]) = w
    BY <1>1, <1>4, MessageFields, Zenon
  <2>2. w \in Widths
    BY <2>1, WidthOfFlags
  <2>3. AreHops(m.hops, w)
    BY <2>1, <2>2, Zenon DEF AreHops
  <2>4. FlattenSeq(m.hops) \in Seq(Byte)
    BY <2>3, RouteIsBytes
  <2>5. TraceBytes(m) \in Seq(Byte)
    BY <2>1, <2>4, TraceHead, Zenon DEF TraceBytes
  <2>6. PayloadOf(m) = Clear(TraceBytes(m))
    BY <1>1, <1>4, PayloadByType DEF TracePayload, TraceBytes
  <2>7. QED
    BY <2>5, <2>6, ClearIsBytes
<1>5. CASE p.type = PayloadMultipart
  <2> DEFINE b   == ((m.remaining * 16) % 256) + PayloadAck
             ack == Uint32Bytes(m.crc)
  <2>1. m.remaining \in Byte /\ m.crc \in Word
    BY <1>1, <1>5, MessageFields
  <2>2. b \in Byte
    BY <2>1, SMT DEF Byte, PayloadAck
  <2>3. ack \in Seq(Byte)
    BY <2>1, WordAlone
  <2>4. PayloadOf(m) = Clear(<<b>> \o ack)
    BY <1>1, <1>5, PayloadByType DEF MultipartAckPayload
  <2> HIDE DEF b, ack
  <2>5. <<b>> \o ack \in Seq(Byte)
    BY <2>2, <2>3, ByteThen
  <2>6. QED
    BY <2>4, <2>5, ClearIsBytes
<1>6. CASE p.type = PayloadControl
  BY <1>6, ControlIsBytes
<1>7. CASE p.type = PayloadRawCustom
  <2>1. m.data \in Seq(Byte) /\ PayloadOf(m) = Clear(m.data)
    BY <1>1, <1>7, MessageFields, PayloadByType
  <2>2. QED
    BY <2>1, ClearIsBytes
<1>8. QED
  BY <1>2, <1>4, <1>5, <1>6, <1>7 DEF ClearTypes

(* What a pair shares, by the plaintext. *)
LEMMA PairIsBytes ==
  ASSUME NEW p, IsReceived(p), p.msg.from \in Identity, p.msg.to \in Identity,
         NEW plain \in Seq(Byte),
         PayloadOf(p.msg) =
           PairPayload(PairSecret(p.msg), Hash(p.msg.to), Hash(p.msg.from), plain)
  PROVE  IsBytes(p.payload)
<1> DEFINE m    == p.msg
           head == <<Hash(m.to), Hash(m.from)>>
<1>1. Hash(m.to) \in Byte /\ Hash(m.from) \in Byte
  BY HashIsByte
<1>2. head \in Seq(Byte)
  BY <1>1
<1>3. PairSecret(m) # NoSecret
  BY PairSecretFacts
<1>4. PayloadOf(m) = Sealed(head, PairSecret(m), plain)
  BY DEF PairPayload
<1> HIDE DEF head
<1>5. QED
  BY <1>2, <1>3, <1>4, SealedIsBytes

LEMMA GroupIsBytes ==
  ASSUME NEW p, IsReceived(p), p.msg.channel \in Channel, NEW plain \in Seq(Byte),
         PayloadOf(p.msg) = Sealed(<<ChannelHash(DeriveChannelSecret(p.msg.channel))>>,
                                   DeriveChannelSecret(p.msg.channel), plain)
  PROVE  IsBytes(p.payload)
<1> DEFINE secret == DeriveChannelSecret(p.msg.channel)
           hash   == ChannelHash(secret)
<1>1. hash = ChannelHashOf[p.msg.channel]
  BY DEF ChannelHash, DeriveChannelSecret
<1>2. hash \in Byte
  BY <1>1, DispatchAssumption
<1>3. secret # NoSecret
  BY DEF DeriveChannelSecret, NoSecret
<1> HIDE DEF secret, hash
<1>4. <<hash>> \in Seq(Byte)
  BY <1>2
<1>5. PayloadOf(p.msg) = Sealed(<<hash>>, secret, plain)
  BY DEF secret, hash
<1>6. QED
  BY <1>3, <1>4, <1>5, SealedIsBytes

LEMMA SealedTypesAreBytes ==
  ASSUME NEW p, IsReceived(p), p.type \in ForChannel \union ForPair \union {PayloadAnonReq}
  PROVE  IsBytes(p.payload)
<1> DEFINE m == p.msg
<1>1. m \in Message /\ m.type = p.type /\ WriteError(m) = Nil
  BY ReceivedFacts
<1>2. CASE p.type = PayloadGrpTxt
  <2> DEFINE plain == GroupTextPlaintext(m.sender, m.text, m.ts)
  <2>1. m.channel \in Channel /\ m.sender \in Seq(Byte) /\ m.text \in Seq(Byte) /\ m.ts \in Word
    BY <1>1, <1>2, MessageFields
  <2>2. plain \in Seq(Byte)
    BY <2>1, GroupTextFacts, Zenon
  <2>3. PayloadOf(m) = Sealed(<<ChannelHash(DeriveChannelSecret(m.channel))>>,
                              DeriveChannelSecret(m.channel), plain)
    BY <1>1, <1>2, PayloadByType DEF GroupTextPayload
  <2> HIDE DEF plain
  <2>4. QED
    BY <2>1, <2>2, <2>3, GroupIsBytes
<1>3. CASE p.type = PayloadGrpData
  <2> DEFINE low   == m.dataType % 256
             high  == m.dataType \div 256
             size  == Len(m.data)
             front == <<low, high, size>>
             plain == front \o m.data
  <2>1. m.channel \in Channel /\ m.dataType \in Uint16 /\ m.data \in Seq(Byte)
    BY <1>1, <1>3, MessageFields
  <2>2. low \in Byte /\ high \in Byte
    BY <2>1, CodeFields
  <2>3. size \in Byte
    <3>1. ~ (size > 255) /\ size \in Nat
      BY <1>1, <1>3, <2>1, WrittenFits
    <3> HIDE DEF size
    <3>2. QED
      BY <3>1 DEF Byte
  <2>4. PayloadOf(m) = Sealed(<<ChannelHash(DeriveChannelSecret(m.channel))>>,
                              DeriveChannelSecret(m.channel), plain)
    BY <1>1, <1>3, PayloadByType DEF GrpDataPayload
  <2> HIDE DEF low, high, size
  <2>5. plain \in Seq(Byte)
    BY <2>1, <2>2, <2>3, ThreeThen
  <2> HIDE DEF plain
  <2>6. QED
    BY <2>1, <2>4, <2>5, GroupIsBytes
<1>4. p.type \in ForPair \union {PayloadAnonReq} => m.from \in Identity /\ m.to \in Identity
  BY <1>1, MessageFields
<1>5. CASE p.type = PayloadTxtMsg
  <2> DEFINE flags == Flags(0, m.attempt)
             u     == Uint32Bytes(m.ts)
             f     == <<flags>>
             text  == m.text
             plain == u \o f \o text
  <2>1. text \in Seq(Byte) /\ m.attempt \in Nat /\ m.ts \in Word
    BY <1>1, <1>5, MessageFields
  <2>2. flags \in Byte
    <3>1. 0 \in Byte
      BY DEF Byte
    <3>2. QED
      BY <2>1, <3>1, FlagsWritten
  <2>3. u \in Seq(Byte)
    BY <2>1, WordAlone
  <2>4. PayloadOf(m) = PairPayload(PairSecret(m), Hash(m.to), Hash(m.from), plain)
    BY <1>1, <1>5, PayloadByType DEF DirectTextPlaintext
  <2> HIDE DEF flags
  <2>5. f \in Seq(Byte)
    BY <2>2
  <2> HIDE DEF u, f, text
  <2>6. plain \in Seq(Byte)
    BY <2>1, <2>3, <2>5, Joined, Zenon
  <2> HIDE DEF plain
  <2>7. p.type \in ForPair
    BY <1>5 DEF ForPair
  <2>8. QED
    BY <1>4, <2>4, <2>6, <2>7, PairIsBytes
<1>6. CASE p.type = PayloadReq
  <2> DEFINE type  == m.reqType
             u     == Uint32Bytes(m.ts)
             f     == <<type>>
             data  == m.data
             plain == u \o f \o data
  <2>1. type \in Byte /\ data \in Seq(Byte) /\ m.ts \in Word
    BY <1>1, <1>6, MessageFields
  <2>2. u \in Seq(Byte)
    BY <2>1, WordAlone
  <2>3. PayloadOf(m) = PairPayload(PairSecret(m), Hash(m.to), Hash(m.from), plain)
    BY <1>1, <1>6, PayloadByType DEF ReqPayload
  <2> HIDE DEF type
  <2>4. f \in Seq(Byte)
    BY <2>1
  <2> HIDE DEF u, f, data
  <2>5. plain \in Seq(Byte)
    BY <2>1, <2>2, <2>4, Joined, Zenon
  <2> HIDE DEF plain
  <2>6. p.type \in ForPair
    BY <1>6 DEF ForPair
  <2>7. QED
    BY <1>4, <2>3, <2>5, <2>6, PairIsBytes
<1>7. CASE p.type = PayloadResponse
  <2>1. /\ m.data \in Seq(Byte)
        /\ PayloadOf(m) = PairPayload(PairSecret(m), Hash(m.to), Hash(m.from), m.data)
    BY <1>1, <1>7, MessageFields, PayloadByType
  <2>2. p.type \in ForPair
    BY <1>7 DEF ForPair
  <2>3. QED
    BY <1>4, <2>1, <2>2, PairIsBytes
<1>8. CASE p.type = PayloadPath
  <2> DEFINE plain == PathPlaintext(m.path, m.size, 0, << >>)
  <2>1. m.path \in Seq(Byte) /\ m.size \in Nat
    BY <1>1, <1>8, MessageFields
  <2>2. PathReturnError(m.path, m.size) = Nil
    BY <1>1, <1>8, WrittenFits
  <2>3. plain \in Seq(Byte)
    BY <2>1, <2>2, PathIsBytes
  <2>4. PayloadOf(m) = PairPayload(PairSecret(m), Hash(m.to), Hash(m.from), plain)
    BY <1>1, <1>8, PayloadByType
  <2> HIDE DEF plain
  <2>5. p.type \in ForPair
    BY <1>8 DEF ForPair
  <2>6. QED
    BY <1>4, <2>3, <2>4, <2>5, PairIsBytes
<1>9. CASE p.type = PayloadAnonReq
  <2> DEFINE head  == AnonHead(Hash(m.to), KeyOf[m.from])
             plain == Uint32Bytes(m.ts) \o m.data
  <2>1. m.data \in Seq(Byte) /\ m.ts \in Word
    BY <1>1, <1>9, MessageFields
  <2>2. m.from \in Identity /\ m.to \in Identity
    BY <1>4, <1>9
  <2>3. plain \in Seq(Byte)
    BY <2>1, WordThen
  <2>4. head \in Seq(Byte)
    BY <2>2, HashIsByte, AnonHeadFacts
  <2>5. PairSecret(m) # NoSecret
    BY <2>2, PairSecretFacts
  <2>6. PayloadOf(m) = Sealed(head, PairSecret(m), plain)
    BY <1>1, <1>9, PayloadByType DEF AnonReqPayload
  <2> HIDE DEF head, plain
  <2>7. QED
    BY <2>3, <2>4, <2>5, <2>6, SealedIsBytes
<1>10. QED
  BY <1>2, <1>3, <1>5, <1>6, <1>7, <1>8, <1>9 DEF ForChannel, ForPair

LEMMA KindsOfPayloads ==
  ASSUME NEW p, IsReceived(p)
  PROVE  \/ p.type \in ClearTypes \union {PayloadRawCustom}
         \/ p.type \in ForChannel \union ForPair \union {PayloadAnonReq}
<1>1. p.msg \in Message /\ p.type = p.msg.type
  BY ReceivedFacts
<1>2. p.type \in {PayloadAck, PayloadAdvert, PayloadTrace, PayloadMultipart, PayloadControl,
                  PayloadRawCustom, PayloadAnonReq} \union ForChannel \union ForPair
  BY <1>1, MessageFields
<1>3. QED
  BY <1>2 DEF ClearTypes

LEMMA PayloadIsTyped ==
  ASSUME NEW p, IsReceived(p)
  PROVE  IsPayload(p.type, p.payload) /\ Len(EndOf(p.payload)) \in Nat
<1>1. CASE p.type = PayloadAdvert
  BY <1>1, AdvertIsTyped
<1>2. CASE p.type # PayloadAdvert
  <2>1. p.payload.head \in Seq(Byte) /\ p.payload.plain \in Seq(Byte)
    BY <1>2, KindsOfPayloads, InClearIsBytes, SealedTypesAreBytes DEF IsBytes
  <2>2. IsPayload(p.type, p.payload)
    BY <1>2, <2>1 DEF IsPayload
  <2>3. EndOf(p.payload) \in Seq(Byte)
    BY <2>1 DEF EndOf
  <2>4. QED
    BY <2>2, <2>3
<1>3. QED
  BY <1>1, <1>2

(* Every packet in the store is read well, by whatever decoder it meets. *)
LEMMA ReceivedIsRead ==
  ASSUME NEW p, IsReceived(p), NEW ctx, IsContext(ctx)
  PROVE  IsRead(p, ctx, Reading(p, ctx))
<1>1. CASE p.type \in ClearTypes \union {PayloadRawCustom}
  BY <1>1, AckIsRead, AdvertIsRead, TraceIsRead, MultipartIsRead, ControlIsRead, RawIsRead,
     Zenon DEF ClearTypes
<1>2. CASE p.type \in ForChannel \union ForPair \union {PayloadAnonReq}
  BY <1>2, GroupTextIsRead, GrpDataIsRead, TextIsReadHere, ReqIsRead, ResponseIsRead,
     PathIsReadHere, AnonReqIsRead, Zenon DEF ForChannel, ForPair
<1>3. QED
  BY <1>1, <1>2, KindsOfPayloads

-----------------------------------------------------------------------------
(* The invariant: what is in the store was written, all of it or without   *)
(* its end, and everything that was read comes from there.                 *)
DispatchInv ==
  /\ TypeOK
  /\ \A p \in store : IsReceived(p)
  /\ ReadIsWritten
  /\ SealedStaysSealed
  /\ DecodersGetTheirKind

LEMMA InvInit == Init => DispatchInv
BY DEF Init, DispatchInv, TypeOK, ReadIsWritten, SealedStaysSealed, DecodersGetTheirKind

LEMMA WriteStep ==
  ASSUME DispatchInv, NEW m \in Messages, Write(m)
  PROVE  DispatchInv'
<1> DEFINE p == [msg |-> m, whole |-> TRUE, type |-> m.type, payload |-> PayloadOf(m)]
<1>1. /\ sent' = sent \union {m} /\ store' = store \union {p}
      /\ held' = held /\ registry' = registry /\ read' = read
  BY DEF Write
<1>2. WriteError(m) = Nil
  BY DEF Write
<1>3. /\ p.msg = m /\ p.whole = TRUE /\ p.payload = PayloadOf(m)
      /\ p = [msg |-> p.msg, whole |-> p.whole, type |-> p.msg.type, payload |-> p.payload]
  OBVIOUS
<1> HIDE DEF p
<1>4. IsReceived(p)
  BY <1>2, <1>3 DEF IsReceived
<1>5. \A q \in store' : IsReceived(q)
  BY <1>1, <1>4 DEF DispatchInv
<1>6. IsPayload(p.type, p.payload)
  BY <1>4, PayloadIsTyped
<1>7. TypeOK'
  <2>1. sent' \subseteq Messages
    BY <1>1 DEF DispatchInv, TypeOK
  <2>2. \A q \in store' : q.msg \in sent' /\ IsPayload(q.type, q.payload)
    BY <1>1, <1>3, <1>6 DEF DispatchInv, TypeOK
  <2>3. \A r \in read' : r.msg \in sent' /\ r.as # "Raw"
    BY <1>1 DEF DispatchInv, TypeOK
  <2>4. QED
    BY <1>1, <2>1, <2>2, <2>3 DEF DispatchInv, TypeOK
<1>8. ReadIsWritten' /\ DecodersGetTheirKind' /\ SealedStaysSealed'
  BY <1>1 DEF DispatchInv, ReadIsWritten, DecodersGetTheirKind, SealedStaysSealed
<1>9. QED
  BY <1>5, <1>7, <1>8 DEF DispatchInv

LEMMA CutShortStep ==
  ASSUME DispatchInv, NEW p \in store, NEW k \in 1 .. MaxCut, CutShort(p, k)
  PROVE  DispatchInv'
<1> DEFINE q == [p EXCEPT !.whole = FALSE, !.payload = CutOff(@, k)]
<1>1. /\ store' = (store \ {p}) \union {q}
      /\ sent' = sent /\ held' = held /\ registry' = registry /\ read' = read
  BY DEF CutShort
<1>2. p.whole /\ k <= Len(EndOf(p.payload))
  BY DEF CutShort, EndOf
<1>3. IsReceived(p)
  BY DEF DispatchInv
<1>4. p.payload = PayloadOf(p.msg) /\ p.msg \in Messages /\ WriteError(p.msg) = Nil
  BY <1>2, <1>3 DEF IsReceived
<1>5. q = [msg |-> p.msg, whole |-> FALSE, type |-> p.msg.type,
           payload |-> CutOff(PayloadOf(p.msg), k)]
  <2>1. p = [msg |-> p.msg, whole |-> p.whole, type |-> p.msg.type, payload |-> p.payload]
    BY <1>3 DEF IsReceived
  <2> DEFINE m    == p.msg
             w    == p.whole
             t    == p.msg.type
             body == p.payload
             cut  == CutOff(body, k)
  <2>2. p = [msg |-> m, whole |-> w, type |-> t, payload |-> body]
    BY <2>1
  <2>3. q = [p EXCEPT !.whole = FALSE, !.payload = cut]
    OBVIOUS
  <2> HIDE DEF q, m, w, t, body, cut
  <2>4. q = [msg |-> m, whole |-> FALSE, type |-> t, payload |-> cut]
    BY <2>2, <2>3
  <2>5. QED
    BY <1>4, <2>4 DEF m, t, body, cut
<1> HIDE DEF q
<1>6. k \in 0 .. Len(EndOf(PayloadOf(p.msg)))
  <2>1. Len(EndOf(p.payload)) \in Nat
    BY <1>3, PayloadIsTyped
  <2>2. MaxCut \in Nat
    BY DispatchAssumption
  <2>3. QED
    BY <1>2, <1>4, <2>1, <2>2
<1>7. q.msg = p.msg /\ q.whole = FALSE /\ q.payload = CutOff(PayloadOf(p.msg), k)
  BY <1>5
<1>8. IsReceived(q)
  BY <1>4, <1>5, <1>6, <1>7 DEF IsReceived
<1>9. \A x \in store' : IsReceived(x)
  BY <1>1, <1>8 DEF DispatchInv
<1>10. IsPayload(q.type, q.payload)
  BY <1>8, PayloadIsTyped
<1>11. TypeOK'
  BY <1>1, <1>7, <1>10 DEF DispatchInv, TypeOK
<1>12. ReadIsWritten' /\ DecodersGetTheirKind' /\ SealedStaysSealed'
  BY <1>1 DEF DispatchInv, ReadIsWritten, DecodersGetTheirKind, SealedStaysSealed
<1>13. QED
  BY <1>9, <1>11, <1>12 DEF DispatchInv

(* What was opened with a secret stays opened when there are more. *)
LEMMA MoreSecrets ==
  ASSUME NEW r, NEW few, NEW many, few \subseteq many, WasOpened(r, few)
  PROVE  WasOpened(r, many)
BY DEF WasOpened

LEMMA LearnStep ==
  ASSUME DispatchInv, NEW secret \in Secrets, Learn(secret)
  PROVE  DispatchInv'
<1>1. /\ held' = held \union {secret}
      /\ sent' = sent /\ store' = store /\ registry' = registry /\ read' = read
  BY DEF Learn
<1>2. TypeOK'
  BY <1>1 DEF DispatchInv, TypeOK
<1>3. \A r \in read : WasOpened(r, held')
  <2>1. SUFFICES ASSUME NEW r \in read PROVE WasOpened(r, held')
    OBVIOUS
  <2>2. WasOpened(r, held)
    BY DEF DispatchInv, SealedStaysSealed
  <2>3. held \subseteq held'
    BY <1>1
  <2>4. QED
    BY <2>2, <2>3, MoreSecrets
<1>4. ReadIsWritten' /\ DecodersGetTheirKind' /\ SealedStaysSealed'
  BY <1>1, <1>3 DEF DispatchInv, ReadIsWritten, DecodersGetTheirKind, SealedStaysSealed
<1>5. QED
  BY <1>1, <1>2, <1>4 DEF DispatchInv

LEMMA RegisterStep ==
  ASSUME DispatchInv, NEW d \in Decoders, Register(d)
  PROVE  DispatchInv'
<1>1. /\ registry' = (registry \ Registered(registry, d.map, d.key)) \union {d}
      /\ sent' = sent /\ store' = store /\ held' = held /\ read' = read
  BY DEF Register
<1>2. TypeOK'
  BY <1>1 DEF DispatchInv, TypeOK
<1>3. ReadIsWritten' /\ DecodersGetTheirKind' /\ SealedStaysSealed'
  BY <1>1 DEF DispatchInv, ReadIsWritten, DecodersGetTheirKind, SealedStaysSealed
<1>4. QED
  BY <1>1, <1>2, <1>3 DEF DispatchInv

LEMMA ReadStep ==
  ASSUME DispatchInv, NEW p \in store, NEW ctx \in Contexts, Read(p, ctx)
  PROVE  DispatchInv'
<1> DEFINE r    == Reading(p, ctx)
           item == Item(p, r)
<1>1. r.err = Nil /\ r.as # "Raw"
  BY DEF Read
<1>2. /\ read' = read \union {item}
      /\ sent' = sent /\ store' = store /\ held' = held /\ registry' = registry
  BY DEF Read, Item
<1>3. IsReceived(p) /\ IsContext(ctx)
  BY ContextFacts DEF DispatchInv
<1>4. IsRead(p, ctx, r)
  BY <1>3, ReceivedIsRead
<1>5. item.msg = p.msg /\ item.as = r.as
  BY DEF Item
<1> HIDE DEF r, item
<1>6. /\ SaysWhatWasWritten(item)
      /\ WasOpened(item, SecretsIn(ctx))
      /\ item.as = "Decoded" => IsForRequests(item) \/ IsForControl(item)
  BY <1>1, <1>4, <1>5, Zenon DEF IsRead, item
<1>7. SecretsIn(ctx) \subseteq held
  BY <1>3 DEF SecretsIn, IsContext
<1>8. WasOpened(item, held)
  BY <1>6, <1>7, MoreSecrets
<1>9. TypeOK'
  <2>1. item.msg \in sent /\ item.as # "Raw"
    BY <1>1, <1>5 DEF DispatchInv, TypeOK
  <2>2. QED
    BY <1>2, <2>1 DEF DispatchInv, TypeOK
<1>10. ReadIsWritten'
  BY <1>2, <1>6 DEF DispatchInv, ReadIsWritten
<1>11. SealedStaysSealed'
  BY <1>2, <1>8 DEF DispatchInv, SealedStaysSealed
<1>12. DecodersGetTheirKind'
  BY <1>2, <1>6 DEF DispatchInv, DecodersGetTheirKind
<1>13. QED
  BY <1>2, <1>9, <1>10, <1>11, <1>12 DEF DispatchInv

LEMMA InvNext ==
  ASSUME DispatchInv, [Next]_vars
  PROVE  DispatchInv'
<1>1. CASE \E m \in Messages : Write(m)
  BY <1>1, WriteStep
<1>2. CASE \E p \in store, k \in 1 .. MaxCut : CutShort(p, k)
  BY <1>2, CutShortStep
<1>3. CASE \E secret \in Secrets : Learn(secret)
  BY <1>3, LearnStep
<1>4. CASE \E d \in Decoders : Register(d)
  BY <1>4, RegisterStep
<1>5. CASE \E p \in store, ctx \in Contexts : Read(p, ctx)
  BY <1>5, ReadStep
<1>6. CASE UNCHANGED vars
  BY <1>6 DEF vars, DispatchInv, TypeOK, ReadIsWritten, SealedStaysSealed, DecodersGetTheirKind
<1>7. QED
  BY <1>1, <1>2, <1>3, <1>4, <1>5, <1>6 DEF Next

LEMMA InvHolds == Spec => []DispatchInv
<1>1. Init => DispatchInv
  BY InvInit
<1>2. DispatchInv /\ [Next]_vars => DispatchInv'
  BY InvNext
<1>3. QED
  BY <1>1, <1>2, PTL DEF Spec

-----------------------------------------------------------------------------
(* Everything in the store and everything read goes back to a message that *)
(* was written, and is made of bytes (Packet of packet.go, DecodePayload   *)
(* of registry.go).                                                        *)
THEOREM DispatchTypes == Spec => []TypeOK
<1>1. DispatchInv => TypeOK
  BY DEF DispatchInv
<1>2. QED
  BY <1>1, InvHolds, PTL

(* Whatever DecodePayload reads of a packet, whole or without its end and  *)
(* with any secrets, is what the builder of its type put in (the parsers   *)
(* that registry.go:70-160 calls).                                         *)
THEOREM DispatchReadsWhatWasWritten == Spec => []ReadIsWritten
<1>1. DispatchInv => ReadIsWritten
  BY DEF DispatchInv
<1>2. QED
  BY <1>1, InvHolds, PTL

(* Nothing that was sealed is read without its secret, nor when its end    *)
(* was lost, however many channels and peers share a hash byte (openMAC    *)
(* of crypto.go).                                                          *)
THEOREM DispatchNeedsTheSecret == Spec => []SealedStaysSealed
<1>1. DispatchInv => SealedStaysSealed
  BY DEF DispatchInv
<1>2. QED
  BY <1>1, InvHolds, PTL

(* A registered decoder gets bodies of the kind it was registered for, in  *)
(* whatever order decoders are registered and packets are tried            *)
(* (registry.go:107-115 and 141-149).                                      *)
THEOREM DispatchKeepsDecodersApart == Spec => []DecodersGetTheirKind
<1>1. DispatchInv => DecodersGetTheirKind
  BY DEF DispatchInv
<1>2. QED
  BY <1>1, InvHolds, PTL

(* A packet that arrived whole is read as soon as its secret is there: no  *)
(* length check of a parser refuses what the builder of its type writes    *)
(* (registry.go:70-160 and the parsers it calls), but an ADVERT is refused *)
(* exactly when its appdata lacks a field that its flags promise or tells  *)
(* a place that is not on earth (parseAdvertAppdata, advert.go:291).       *)
THEOREM DispatchReadsWhatFits == Spec => []FittingContextReads
<1>1. ASSUME DispatchInv
      PROVE  FittingContextReads
  <2>1. SUFFICES ASSUME NEW p \in store, NEW ctx \in Contexts,
                        p.whole /\ Fits(ctx, p.msg)
                 PROVE  ReadsWell(p, Reading(p, ctx))
    BY DEF FittingContextReads
  <2>2. IsReceived(p) /\ IsContext(ctx)
    BY <1>1, ContextFacts DEF DispatchInv
  <2>3. IsRead(p, ctx, Reading(p, ctx))
    BY <2>2, ReceivedIsRead
  <2>4. QED
    BY <2>1, <2>3, Zenon DEF IsRead
<1>2. QED
  BY <1>1, InvHolds, PTL
=============================================================================
