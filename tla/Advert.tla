------------------------------- MODULE Advert -------------------------------
(***************************************************************************)
(* Node advertisements: advert.go.                                         *)
(*                                                                         *)
(* A payload is public key | timestamp | signature | appdata.  The first   *)
(* three have a fixed size and are fields of a record; the appdata is a    *)
(* sequence of bytes, because its layout depends on its first byte.  A     *)
(* payload without room for the three is refused by every operation before *)
(* it looks at anything, and is left out.                                  *)
(*                                                                         *)
(* Ed25519 is symbolic: a signature tells the key it was made with and the *)
(* message it is of, and nobody makes one without the key.  Times are in   *)
(* seconds since 1970, coordinates in millionths of a degree.              *)
(***************************************************************************)
EXTENDS Integers, Sequences, FiniteSetsExt

CONSTANTS
  Key,              \* the public keys of 32 bytes
  Nobody,           \* whose key is none of them
  TimestampModulus  \* 2^32 in the code: the timestamp field has 4 bytes

ASSUME TimestampAssumption == TimestampModulus \in Nat \ {0}

Nil == "nil"

NoTime == -1       \* the zero time.Time

Byte == 0 .. 255
Uint16 == {n \in Nat : n < 65536}

(* The coordinates that fit their wire field.  What int32(math.Round(f))   *)
(* gives for another float depends on the processor, and is left out.      *)
Int32  == {n \in Int : -2147483647 - 1 =< n /\ n =< 2147483647}

Message == Key \X (0 .. TimestampModulus - 1) \X Seq(Byte)

Unsigned  == [by |-> Nobody, of |-> << >>]  \* no signature, or 64 zero bytes
Signature == [by : Key, of : Message] \union {Unsigned}

Advert ==
  [PublicKey : Key,  Timestamp : Nat \union {NoTime},  Signature : Signature,
   NodeType : Byte,  HasGPS : BOOLEAN,  Lat : Int32,  Lon : Int32,
   HasFeat1 : BOOLEAN,  Feature1 : Uint16,
   HasFeat2 : BOOLEAN,  Feature2 : Uint16,  Name : Seq(Byte)]

Payload ==
  [pub : Key, ts : 0 .. TimestampModulus - 1, sig : Signature, app : Seq(Byte)]

(* As in Envelope, a name that starts with Bad is a mistake not made. *)
Bit(b) == IF b THEN 1 ELSE 0
HasBit(n, mask) == (n \div mask) % 2 = 1

Int32Bytes(n)   == <<n % 256, (n \div 256) % 256, (n \div 65536) % 256, (n \div 16777216) % 256>>
BadUint16Bytes(n) == <<n, n \div 256>>
Uint16Bytes(n)  == <<n % 256, n \div 256>>
Uint16In(s, i)  == s[i] + 256 * s[i + 1]
BadInt32In(s, i) == s[i] + 256 * s[i + 1] + 65536 * s[i + 2]
Int32In(s, i)   ==
  s[i] + 256 * s[i + 1] + 65536 * s[i + 2]
       + 16777216 * (IF s[i + 3] >= 128 THEN s[i + 3] - 256 ELSE s[i + 3])

-----------------------------------------------------------------------------
Flags(adv) ==
  (adv.NodeType % 16) + 16 * Bit(adv.HasGPS) + 32 * Bit(adv.HasFeat1)
                    + 64 * Bit(adv.HasFeat2) + 128 * Bit(adv.Name # << >>)

Appdata(adv) ==
  <<Flags(adv)>>
    \o (IF adv.HasGPS THEN Int32Bytes(adv.Lat) \o Int32Bytes(adv.Lon) ELSE << >>)
    \o (IF adv.HasFeat1 THEN Uint16Bytes(adv.Feature1) ELSE << >>)
    \o (IF adv.HasFeat2 THEN Uint16Bytes(adv.Feature2) ELSE << >>)
    \o adv.Name

(* The clock is read when the advert has no timestamp. *)
EncodeAdvertPayload(adv, now) ==
  [pub |-> adv.PublicKey,
   ts  |-> (IF adv.Timestamp = NoTime THEN now ELSE adv.Timestamp) % TimestampModulus,
   sig |-> adv.Signature,
   app |-> Appdata(adv)]

BadAdvertSignedMessage(payload) == <<payload.pub, 0, payload.app>>
advertSignedMessage(payload) == <<payload.pub, payload.ts, payload.app>>

SignatureOf(key, payload) == [by |-> key, of |-> advertSignedMessage(payload)]

VerifyAdvertSignature(payload) ==
  \/ payload.sig = Unsigned
  \/ payload.sig = SignatureOf(payload.pub, payload)

(* Both signing operations refuse a key that is not the advert's own. *)
SignAdvertPayload(payload, key) ==
  [payload EXCEPT !.sig = SignatureOf(key, payload)]

(* Only the signature is taken from the payload that was signed: the       *)
(* timestamp it was signed with stays behind when the advert had none.     *)
SignAdvert(key, adv, now) ==
  [adv EXCEPT !.Signature = SignAdvertPayload(EncodeAdvertPayload(adv, now), key).sig]

(* VerifyAdvert encodes the advert again. *)
VerifyAdvert(adv, now) ==
  IF adv.Signature = Unsigned \/ VerifyAdvertSignature(EncodeAdvertPayload(adv, now))
  THEN Nil
  ELSE "ErrAdvertBadSignature"

-----------------------------------------------------------------------------
(* The positions of the optional fields follow from the flags.             *)
GPS(app)     == HasBit(app[1], 16)
Feat1(app)   == HasBit(app[1], 32)
Feat2(app)   == HasBit(app[1], 64)
Named(app)   == HasBit(app[1], 128)
BadFeat1At(app) == 2
Feat1At(app) == 2 + 8 * Bit(GPS(app))
BadFeat2At(app) == Feat1At(app) + 2
Feat2At(app) == Feat1At(app) + 2 * Bit(Feat1(app))
NameAt(app)  == Feat2At(app) + 2 * Bit(Feat2(app))

Latitude  == -90000000 .. 90000000
Longitude == -180000000 .. 180000000

AppdataError(app) ==
  IF app = << >>                                        THEN Nil
  ELSE IF GPS(app) /\ Len(app) < 9                      THEN "ErrAdvertMissingGPS"
  ELSE IF GPS(app) /\ Int32In(app, 2) \notin Latitude   THEN "ErrAdvertLatOutOfRange"
  ELSE IF GPS(app) /\ Int32In(app, 6) \notin Longitude  THEN "ErrAdvertLonOutOfRange"
  ELSE IF Feat1(app) /\ Feat1At(app) + 1 > Len(app)     THEN "ErrAdvertMissingFeat1"
  ELSE IF Feat2(app) /\ Feat2At(app) + 1 > Len(app)     THEN "ErrAdvertMissingFeat2"
  ELSE Nil

(* White space in UTF-8, whose codes never share a byte: a code is found   *)
(* wherever one decodes from.                                              *)
Spaces ==
  {<<b>> : b \in {9, 10, 11, 12, 13, 32}} \union
  {<<194, 133>>, <<194, 160>>, <<225, 154, 128>>, <<226, 129, 159>>, <<227, 128, 128>>} \union
  {<<226, 128, b>> : b \in 128 .. 138 \union {168, 169, 175}}

IsSpace(s, i) ==
  \E a \in i - 2 .. i, b \in i .. i + 2 :
    a >= 1 /\ b <= Len(s) /\ SubSeq(s, a, b) \in Spaces

UpToNul(s) ==
  LET nuls == {i \in DOMAIN s : s[i] = 0}
  IN  IF nuls = {} THEN s ELSE SubSeq(s, 1, Min(nuls) - 1)

TrimSpace(s) ==
  LET solid == {i \in DOMAIN s : ~IsSpace(s, i)}
  IN  IF solid = {} THEN << >> ELSE SubSeq(s, Min(solid), Max(solid))

(* The fields of appdata that has no error; all zero when there is none.   *)
parseAdvertAppdata(app) ==
  LET some == app # << >>
      gps == some /\ GPS(app)  f1 == some /\ Feat1(app)  f2 == some /\ Feat2(app)
  IN  [NodeType |-> IF some THEN app[1] % 16 ELSE 0,
       HasGPS   |-> gps,
       Lat      |-> IF gps                              THEN Int32In(app, 2) ELSE 0,
       Lon      |-> IF gps                              THEN Int32In(app, 6) ELSE 0,
       HasFeat1 |-> f1,
       Feature1 |-> IF f1 THEN Uint16In(app, Feat1At(app)) ELSE 0,
       HasFeat2 |-> f2,
       Feature2 |-> IF f2 THEN Uint16In(app, Feat2At(app)) ELSE 0,
       Name     |-> IF some /\ Named(app)
                    THEN TrimSpace(UpToNul(SubSeq(app, NameAt(app), Len(app))))
                    ELSE << >>]

DecodeAdvertError(payload) ==
  IF ~VerifyAdvertSignature(payload) THEN "ErrAdvertBadSignature"
  ELSE AppdataError(payload.app)

DecodedAdvert(payload) ==
  LET f == parseAdvertAppdata(payload.app)
  IN  [PublicKey |-> payload.pub, Timestamp |-> payload.ts, Signature |-> payload.sig,
       NodeType |-> f.NodeType, HasGPS |-> f.HasGPS, Lat |-> f.Lat, Lon |-> f.Lon,
       HasFeat1 |-> f.HasFeat1, Feature1 |-> f.Feature1,
       HasFeat2 |-> f.HasFeat2, Feature2 |-> f.Feature2, Name |-> f.Name]
=============================================================================
