------------------------------ MODULE Envelope ------------------------------
(***************************************************************************)
(* The MeshCore radio envelope: packet.go and ValidateWire of validate.go. *)
(*                                                                         *)
(* A frame is a sequence of bytes, laid out as                             *)
(*     header | transport codes (4 bytes, transport routes only)           *)
(*            | path_len | path | payload                                  *)
(* where header = version(2) type(4) route(2) and path_len = mode(2)       *)
(* hops(6), the mode being the hop-hash size minus one.                    *)
(*                                                                         *)
(* A Go call that returns (value, error) is a record with an err field;    *)
(* Nil is the nil error, and every other value names the sentinel that is  *)
(* returned.  The module has no variables: it is used by the state         *)
(* machines that encode, relay and decode packets.                         *)
(***************************************************************************)
EXTENDS Integers, Sequences

CONSTANTS
  MaxPathBytes,    \* longest path, 64 in the code
  MaxPayloadBytes  \* longest payload, 184 in the code

ASSUME EnvelopeLimits ==
  /\ MaxPathBytes \in Nat
  /\ MaxPayloadBytes \in Nat

Byte == 0 .. 255
Uint16 == {n \in Nat : n < 65536}

(* A definition whose name starts with Bad is its namesake with a mistake  *)
(* that the code might have had.  Nothing uses it: the README says which   *)
(* property each one would break.                                          *)
BadMaxHopCount == 62

(* The largest number that the 6 bits of the hop count hold. *)
MaxHopCount == 63

Nil == "nil"

RouteTransportFlood  == 0
RouteFlood           == 1
RouteDirect          == 2
RouteTransportDirect == 3

PayloadAck       == 3
PayloadTrace     == 9
PayloadMultipart == 10

CurrentPayloadVer   == 0
DefaultPathHashSize == 2

(* What a caller can put into a Packet: the Go field types, whose values   *)
(* EncodePacket and ValidateWire restrict.                                 *)
Packet ==
  [Route          : Byte,
   Type           : Byte,
   Version        : Byte,
   TransportCodes : Uint16 \X Uint16,
   PathHashSize   : Int,
   Path           : Seq(Byte),
   Payload        : Seq(Byte)]

(* The zero value returned beside a decoding error. *)
NoPacket ==
  [Route |-> 0, Type |-> 0, Version |-> 0, TransportCodes |-> <<0, 0>>,
   PathHashSize |-> 0, Path |-> << >>, Payload |-> << >>]

IsTransport(route) == route \in {RouteTransportFlood, RouteTransportDirect}

HopCount(p) ==
  IF p.PathHashSize <= 0 THEN 0 ELSE Len(p.Path) \div p.PathHashSize

(* The path cut into hop hashes; nothing when it does not divide evenly. *)
Hops(p) ==
  IF p.PathHashSize <= 0 THEN << >>
  ELSE IF Len(p.Path) % p.PathHashSize # 0 THEN << >>
  ELSE [i \in 1 .. HopCount(p) |->
          SubSeq(p.Path, (i - 1) * p.PathHashSize + 1, i * p.PathHashSize)]

-----------------------------------------------------------------------------
WireErrors ==
  {"ErrUnsupportedVersion", "ErrInvalidRoute", "ErrInvalidPayloadType",
   "ErrInvalidPathHashSize", "ErrUnalignedPath", "ErrPathTooLong",
   "ErrPayloadTooLong", "ErrTooManyHops"}

(* The checks shared by EncodePacket and ValidateWire, in their order.     *)
ValidateWire(p) ==
  IF p.Version # CurrentPayloadVer              THEN "ErrUnsupportedVersion"
  ELSE IF p.Route > RouteTransportDirect        THEN "ErrInvalidRoute"
  ELSE IF p.Type > 15                           THEN "ErrInvalidPayloadType"
  ELSE IF p.PathHashSize \notin 1 .. 3          THEN "ErrInvalidPathHashSize"
  ELSE IF Len(p.Path) % p.PathHashSize # 0      THEN "ErrUnalignedPath"
  ELSE IF Len(p.Path) > MaxPathBytes            THEN "ErrPathTooLong"
  ELSE IF Len(p.Payload) > MaxPayloadBytes      THEN "ErrPayloadTooLong"
  ELSE IF HopCount(p) > MaxHopCount             THEN "ErrTooManyHops"
  ELSE Nil

WithDefaultHashSize(p) ==
  IF p.PathHashSize = 0
  THEN [p EXCEPT !.PathHashSize = DefaultPathHashSize]
  ELSE p

BadLittleEndian(u, v) == <<u, u \div 256, v, v \div 256>>
LittleEndian(u, v) == <<u % 256, u \div 256, v % 256, v \div 256>>
Uint16At(raw, i)  == raw[i] + 256 * raw[i + 1]

HeaderByte(p)  == p.Version * 64 + p.Type * 4 + p.Route
BadPathLenByte(p) ==
  (p.PathHashSize - 1) * 64 + (IF HopCount(p) > 0 THEN HopCount(p) - 1 ELSE 0)
PathLenByte(p) == (p.PathHashSize - 1) * 64 + HopCount(p)

CodeBytes(p) ==
  IF IsTransport(p.Route)
  THEN LittleEndian(p.TransportCodes[1], p.TransportCodes[2])
  ELSE << >>

(* The serialisation of a packet that has passed the checks. *)
Frame(p) ==
  <<HeaderByte(p)>> \o CodeBytes(p) \o <<PathLenByte(p)>> \o p.Path \o p.Payload

EncodePacket(packet) ==
  LET p   == WithDefaultHashSize(packet)
      err == ValidateWire(p)
  IN  [err |-> err, frame |-> IF err = Nil THEN Frame(p) ELSE << >>]

-----------------------------------------------------------------------------
(* DecodePacket reads raw from left to right.  The position of the         *)
(* path_len byte, the length of the path and the start of the payload all  *)
(* follow from bytes read before them.                                     *)
RouteOf(raw)      == raw[1] % 4
TypeOf(raw)       == (raw[1] \div 4) % 16
VersionOf(raw)    == raw[1] \div 64
PathLenAt(raw)    == IF IsTransport(RouteOf(raw)) THEN 6 ELSE 2
BadHashSizeOf(raw) == raw[PathLenAt(raw)] \div 64
HashSizeOf(raw)   == raw[PathLenAt(raw)] \div 64 + 1
BadPathBytesOf(raw) ==
  LET declared == (raw[PathLenAt(raw)] % 64) * HashSizeOf(raw)
      there    == Len(raw) - PathLenAt(raw)
  IN  IF declared > there THEN there ELSE declared
PathBytesOf(raw)  == (raw[PathLenAt(raw)] % 64) * HashSizeOf(raw)
PayloadFrom(raw)  == PathLenAt(raw) + PathBytesOf(raw) + 1

CodesOf(raw) ==
  IF IsTransport(RouteOf(raw))
  THEN <<Uint16At(raw, 2), Uint16At(raw, 4)>>
  ELSE <<0, 0>>

DecodeError(raw) ==
  IF Len(raw) < 2                                  THEN "TooShort"
  ELSE IF VersionOf(raw) # CurrentPayloadVer       THEN "ErrUnsupportedVersion"
  ELSE IF PathLenAt(raw) - 1 > Len(raw)            THEN "TruncatedCodes"
  ELSE IF PathLenAt(raw) > Len(raw)                THEN "MissingPathLen"
  ELSE IF HashSizeOf(raw) = 4                      THEN "ErrInvalidPathHashSize"
  ELSE IF PathBytesOf(raw) > MaxPathBytes          THEN "ErrPathTooLong"
  ELSE IF PayloadFrom(raw) - 1 > Len(raw)          THEN "TruncatedPath"
  ELSE IF Len(raw) - PayloadFrom(raw) + 1 > MaxPayloadBytes
                                                   THEN "ErrPayloadTooLong"
  ELSE Nil

PacketIn(raw) ==
  [Route          |-> RouteOf(raw),
   Type           |-> TypeOf(raw),
   Version        |-> VersionOf(raw),
   TransportCodes |-> CodesOf(raw),
   PathHashSize   |-> HashSizeOf(raw),
   Path           |-> SubSeq(raw, PathLenAt(raw) + 1, PayloadFrom(raw) - 1),
   Payload        |-> SubSeq(raw, PayloadFrom(raw), Len(raw))]

DecodePacket(raw) ==
  LET err == DecodeError(raw)
  IN  [err |-> err, packet |-> IF err = Nil THEN PacketIn(raw) ELSE NoPacket]

-----------------------------------------------------------------------------
(* What a decoder returns for a packet p that was encoded: the default     *)
(* hash size is filled in, and the codes of a route without codes are lost *)
Normalised(p) ==
  LET q == WithDefaultHashSize(p)
  IN  IF IsTransport(q.Route) THEN q ELSE [q EXCEPT !.TransportCodes = <<0, 0>>]
=============================================================================
