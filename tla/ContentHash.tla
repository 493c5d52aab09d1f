---------------------------- MODULE ContentHash ----------------------------
(***************************************************************************)
(* content_hash.go: the route-independent identifier of a packet, and      *)
(* ValidateFirmwareSemantics of validate.go: the checks per payload type.  *)
(*                                                                         *)
(* SHA-256 is taken to be collision free, so a digest is represented by    *)
(* the byte sequence it is computed from.  ContentHash, its first 8 bytes, *)
(* is identified with it for the same reason.                              *)
(***************************************************************************)
EXTENDS Envelope

(* The path descriptor of a TRACE.  HopCount is asked of the packet as it  *)
(* is, and is 0 when the caller left PathHashSize at 0.                    *)
TraceDescriptor(p) ==
  (WithDefaultHashSize(p).PathHashSize - 1) * 64 + HopCount(p)

(* Digests with a mistake: they depend on the route; take the path of every *)
(* packet in; leave that of a TRACE out; or look at one byte only.         *)
BadContentDigestOfRoute(p) == <<p.Type, p.Route>> \o p.Payload
BadContentDigestOfPath(p)  == <<p.Type, TraceDescriptor(p), 0>> \o p.Payload
BadContentDigestNoTrace(p) == <<p.Type>> \o p.Payload
BadContentDigestShort(p)   == <<p.Type>> \o SubSeq(p.Payload, 1, 1)

(* The digest of a packet that ValidateWire accepts, up to a default size. *)
ContentDigest(p) ==
  IF p.Type = PayloadTrace
  THEN <<p.Type, TraceDescriptor(p), 0>> \o p.Payload
  ELSE <<p.Type>> \o p.Payload

DecodeContentDigest(raw) ==
  LET d == DecodePacket(raw)
  IN  [err    |-> d.err,
       digest |-> IF d.err = Nil THEN ContentDigest(d.packet) ELSE << >>]

-----------------------------------------------------------------------------
TraceHashWidth(payload) == 2 ^ (payload[9] % 4)

validateTraceSemantics(p) ==
  IF p.Route # RouteDirect                      THEN "ErrTraceMustBeDirect"
  ELSE IF p.PathHashSize # 1                    THEN "ErrInvalidTraceOuterPath"
  ELSE IF Len(p.Payload) < 9                    THEN Nil
  ELSE IF (Len(p.Payload) - 9) % TraceHashWidth(p.Payload) # 0
                                                THEN "ErrUnalignedTraceRoute"
  ELSE Nil

validateMultipartSemantics(p) ==
  IF Len(p.Payload) < 1                         THEN Nil
  ELSE IF p.Payload[1] % 16 # PayloadAck        THEN "ErrMultipartInnerType"
  ELSE Nil

ValidateFirmwareSemantics(p) ==
  CASE p.Type = PayloadTrace     -> validateTraceSemantics(p)
    [] p.Type = PayloadMultipart -> validateMultipartSemantics(p)
    [] OTHER                     -> Nil
=============================================================================
