--------------------------- MODULE DirectMessage ---------------------------
(***************************************************************************)
(* The payloads of a direct conversation: TXT_MSG (txtmsg.go), its ACK     *)
(* (ack.go) and the returned PATH (req.go), and the envelope that seals    *)
(* them (crypto.go, keys.go).                                              *)
(*                                                                         *)
(* A plaintext is a sequence of bytes.  Cryptography is symbolic: the      *)
(* shared secret of two identities is the pair of them, a sealed payload   *)
(* says under which secret it was sealed, and openMAC succeeds with that   *)
(* secret only.  A MAC of 2 bytes is fooled once in 65536 times, and AES   *)
(* in ECB mode hides less than a cipher should; both are left out.         *)
(***************************************************************************)
EXTENDS Envelope, SequencesExt

PayloadTxtMsg == 2
PayloadPath   == 8

BlockSize     == 16
CipherMACSize == 2
CipherKeySize == 16

Zeros(n) == [i \in 1 .. n |-> 0]

(* A uint32. *)
Word == {n \in Nat : n \div 16777216 < 256}

Uint32Bytes(n) ==
  <<n % 256, (n \div 256) % 256, (n \div 65536) % 256, (n \div 16777216) % 256>>

Uint32At(bytes, i) ==
  bytes[i] + 256 * bytes[i + 1] + 65536 * bytes[i + 2] + 16777216 * bytes[i + 3]

-----------------------------------------------------------------------------
(* Diffie-Hellman: both sides derive the same secret. *)
SharedSecret(a, b) == {a, b}

Padded(plain) == plain \o Zeros((BlockSize - (Len(plain) % BlockSize)) % BlockSize)

(* The envelope of REQ, RESPONSE, PATH and TXT_MSG:                        *)
(* dest_hash | src_hash | MAC | ciphertext.                                *)
Seal(secret, dest, src, plain) ==
  [dest |-> dest, src |-> src, secret |-> secret, plain |-> Padded(plain)]

AckSize == 4
PayloadSize(sealed) == 2 + CipherMACSize + Len(sealed.plain)

BadOpens(secret, sealed) == secret # {}
Opens(secret, sealed) == sealed.secret = secret

-----------------------------------------------------------------------------
(* TXT_MSG.  Two bits of the flags byte are left for the attempt. *)
BadFlags(txtType, attempt) == ((txtType * 4) % 256) + (attempt % 2)
Flags(txtType, attempt) == ((txtType * 4) % 256) + (attempt % 4)

DirectTextPlaintext(text, flags, ts) == Uint32Bytes(ts) \o <<flags>> \o text

DirectTextPayload(secret, dest, src, text, ts, txtType, attempt) ==
  Seal(secret, dest, src, DirectTextPlaintext(text, Flags(txtType, attempt), ts))

(* strings.TrimRight(text, "\x00") *)
TrimNuls(text) ==
  LET last == CHOOSE n \in 0 .. Len(text) :
                /\ n = 0 \/ text[n] # 0
                /\ \A i \in n + 1 .. Len(text) : text[i] = 0
  IN  SubSeq(text, 1, last)

DirectText(sealed) ==
  [DestHash  |-> sealed.dest,
   SrcHash   |-> sealed.src,
   Timestamp |-> Uint32At(sealed.plain, 1),
   TxtType   |-> sealed.plain[5] \div 4,
   Attempt   |-> sealed.plain[5] % 4,
   Text      |-> TrimNuls(SubSeq(sealed.plain, 6, Len(sealed.plain)))]

NoText ==
  [DestHash |-> 0, SrcHash |-> 0, Timestamp |-> 0, TxtType |-> 0, Attempt |-> 0,
   Text |-> << >>]

DirectTextError(secret, sealed) ==
  IF PayloadSize(sealed) < 2 + CipherMACSize + CipherKeySize THEN "PayloadTooShort"
  ELSE IF ~Opens(secret, sealed)                             THEN "WrongSecret"
  ELSE Nil

DecodeDirectTextPayload(secret, sealed) ==
  LET err == DirectTextError(secret, sealed)
  IN  [err |-> err, text |-> IF err = Nil THEN DirectText(sealed) ELSE NoText]

-----------------------------------------------------------------------------
(* ACK.  The checksum is a SHA-256 of its arguments, and has no collisions *)
(* here: its four places hold the arguments, each in a number of its own.  *)
(* Characters are numbers below 6, and a text has at most 11 of them.      *)
TextNumber(text) == FoldLeft(LAMBDA n, c : 7 * n + c + 1, 0, text)

KeyNumber(key) == key[1] + 256 * key[2] + 65536 * key[3]

BadTextAckCRCNoTime(timestamp, attempt, text, senderKey) ==
  <<0, attempt % 4, TextNumber(text), KeyNumber(senderKey)>>
BadTextAckCRCNoAttempt(timestamp, attempt, text, senderKey) ==
  <<timestamp, 0, TextNumber(text), KeyNumber(senderKey)>>

TextAckCRC(timestamp, attempt, text, senderKey) ==
  <<timestamp, attempt % 4, TextNumber(text), KeyNumber(senderKey)>>

AckPayload(crc) == [crc |-> crc]

-----------------------------------------------------------------------------
(* PATH.  The hash size of the returned path is in the plaintext only.     *)
PathReturnError(path, size) ==
  IF size \notin 1 .. 3                    THEN "UnsupportedPathHashSize"
  ELSE IF Len(path) % size # 0             THEN "ErrUnalignedPath"
  ELSE IF Len(path) \div size > MaxHopCount THEN "ErrTooManyHops"
  ELSE IF Len(path) > MaxPathBytes         THEN "ErrPathTooLong"
  ELSE Nil

PathPlaintext(path, size, extraType, extra) ==
  <<(size - 1) * 64 + (Len(path) \div size)>> \o path \o
    (IF extra # << >> THEN <<extraType>> \o extra ELSE <<255, 0, 0, 0, 0>>)

(* The extra of an acknowledged text: the checksum, a zero and a random    *)
(* byte, which tells the packets of one acknowledgement apart.             *)
AckExtra(crc, random) == crc \o <<0, random>>

BadReturnedPathBytesOneEach(plain) == plain[1] % 64
BadReturnedPathBytesNoMask(plain) ==
  LET declared == plain[1] * ((plain[1] \div 64) + 1)
  IN  IF 1 + declared > Len(plain) THEN Len(plain) - 1 ELSE declared

(* The bytes of the returned path, as many as there are. *)
ReturnedPathBytes(plain) ==
  LET declared == (plain[1] % 64) * ((plain[1] \div 64) + 1)
  IN  IF 1 + declared > Len(plain) THEN Len(plain) - 1 ELSE declared

ReturnedPath(sealed) ==
  LET plain == sealed.plain
      off   == 2 + ReturnedPathBytes(plain)
  IN  [DestHash  |-> sealed.dest,
       SrcHash   |-> sealed.src,
       Path      |-> SubSeq(plain, 2, off - 1),
       ExtraType |-> IF off <= Len(plain) THEN plain[off] ELSE 0,
       Extra     |-> SubSeq(plain, off + 1, Len(plain))]

NoPath ==
  [DestHash |-> 0, SrcHash |-> 0, Path |-> << >>, ExtraType |-> 0, Extra |-> << >>]

PathError(secret, sealed) ==
  IF PayloadSize(sealed) < 2 + CipherMACSize THEN "PayloadTooShort"
  ELSE IF ~Opens(secret, sealed)             THEN "WrongSecret"
  ELSE IF Len(sealed.plain) < 1              THEN "PlaintextTooShort"
  ELSE Nil

DecodePathPayload(secret, sealed) ==
  LET err == PathError(secret, sealed)
  IN  [err |-> err, path |-> IF err = Nil THEN ReturnedPath(sealed) ELSE NoPath]

(* What a caller is told to look at: the checksum in a returned path       *)
(* (req.go, ops.go).                                                       *)
ConfirmedBy(returned) ==
  IF returned.ExtraType = PayloadAck /\ Len(returned.Extra) >= 4
  THEN {SubSeq(returned.Extra, 1, 4)}
  ELSE {}
=============================================================================
