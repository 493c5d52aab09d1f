----------------------------- MODULE FloodMesh -----------------------------
(***************************************************************************)
(* Nodes that flood packets through a mesh with the codec of this library: *)
(* EncodePacket at the sender, DecodePacket, ValidateFirmwareSemantics and *)
(* ContentDigest at every receiver, EncodePacket again at every relay.     *)
(*                                                                         *)
(* The library is called by the nodes and knows nothing of them.  What     *)
(* they do around the calls is external, and is what content_hash.go       *)
(* ("cross-route deduplication") and packet.go (the path of hop hashes)    *)
(* exist for: a node drops what it has seen, and a relay appends its own   *)
(* hash to the path.  The radio may lose a frame, deliver it twice, or     *)
(* deliver only its beginning.                                             *)
(***************************************************************************)
EXTENDS ContentHash, FiniteSets

CONSTANTS
  Node,
  Neighbours,  \* Neighbours[n]: the nodes that hear n
  KeyOf,       \* KeyOf[n]: the public key of n, whose prefixes are its hop hashes
  Offers,      \* the packets that applications send, each with its node
  MaxSent,     \* bound: offers taken up in one behaviour
  MaxFaults,   \* bound: frames lost, duplicated or cut short in one behaviour
  MaxRemains   \* bound: bytes that remain of a frame cut short

ASSUME MeshAssumption ==
  /\ Neighbours \in [Node -> SUBSET Node]
  /\ KeyOf \in [Node -> Seq(Byte)]
  /\ \A n \in Node : Len(KeyOf[n]) >= 3
  /\ Offers \subseteq [node : Node, packet : Packet]
  /\ MaxSent \in Nat
  /\ MaxFaults \in Nat
  /\ MaxRemains \in Nat

VARIABLES
  sent,   \* the offers that were handed to EncodePacket
  air,    \* the frames on their way, one message per receiver
  seen,   \* seen[n]: the digests node n has processed
  got,    \* got[n]: the packets node n has accepted, in order
  faults \* how often the radio has failed

vars == <<sent, air, seen, got, faults>>

(* A message carries frame; the receiver sees nothing else.  whole is the  *)
(* frame as it was transmitted, offer and trail tell where it started and  *)
(* which relays it went through, and pure that no frame before was cut.    *)
Message ==
  [to : Node, frame : Seq(Byte), whole : Seq(Byte),
   offer : Offers, trail : Seq(Node), pure : BOOLEAN, copy : 0 .. MaxFaults]

(* An accepted packet, with the error of encoding it again for the relay.  *)
Acceptance ==
  [packet : Packet, offer : Offers, trail : Seq(Node), pure : BOOLEAN,
   relayed : WireErrors \union {Nil, "NotFlooded"}]

Flooded(p) == p.Route \in {RouteTransportFlood, RouteFlood}

HopHash(n, size) == SubSeq(KeyOf[n], 1, size)

WithHop(p, n) == [p EXCEPT !.Path = @ \o HopHash(n, p.PathHashSize)]

Transmit(n, frame, offer, trail, pure) ==
  [to : Neighbours[n], frame : {frame}, whole : {frame},
   offer : {offer}, trail : {trail}, pure : {pure}, copy : {0}]

-----------------------------------------------------------------------------
Init ==
  /\ sent = {}
  /\ air = {}
  /\ seen = [n \in Node |-> {}]
  /\ got = [n \in Node |-> << >>]
  /\ faults = 0

(* An application encodes a packet and transmits it.  The node remembers   *)
(* the digest of the packet it has in memory.                              *)
Send(o) ==
  LET e == EncodePacket(o.packet)
  IN  /\ o \notin sent
      /\ Cardinality(sent) < MaxSent
      /\ e.err = Nil
      /\ sent' = sent \union {o}
      /\ air' = air \union Transmit(o.node, e.frame, o, << >>, TRUE)
      /\ seen' = [seen EXCEPT ![o.node] = @ \union {ContentDigest(o.packet)}]
      /\ UNCHANGED <<got, faults>>

(* Why a receiver ignores a frame, or Nil. *)
DropReason(n, frame) ==
  LET d == DecodePacket(frame)
  IN  IF d.err # Nil THEN d.err
      ELSE IF ValidateFirmwareSemantics(d.packet) # Nil
           THEN ValidateFirmwareSemantics(d.packet)
      ELSE IF ContentDigest(d.packet) \in seen[n] THEN "AlreadySeen"
      ELSE Nil

Drop(m) ==
  /\ DropReason(m.to, m.frame) # Nil
  /\ air' = air \ {m}
  /\ UNCHANGED <<sent, seen, got, faults>>

(* A receiver takes a new packet, and relays it when it is flooded and     *)
(* still encodable with one more hop.                                      *)
Accept(m) ==
  LET n    == m.to
      p    == DecodePacket(m.frame).packet
      next == EncodePacket(WithHop(p, n))
      pure == m.pure /\ m.frame = m.whole
  IN  /\ DropReason(n, m.frame) = Nil
      /\ seen' = [seen EXCEPT ![n] = @ \union {ContentDigest(p)}]
      /\ got' = [got EXCEPT ![n] = Append(@,
                   [packet |-> p, offer |-> m.offer, trail |-> m.trail, pure |-> pure,
                    relayed |-> IF Flooded(p) THEN next.err ELSE "NotFlooded"])]
      /\ air' = (air \ {m}) \union
                   (IF Flooded(p) /\ next.err = Nil
                    THEN Transmit(n, next.frame, m.offer, Append(m.trail, n), pure)
                    ELSE {})
      /\ UNCHANGED <<sent, faults>>

Receive(m) == Drop(m) \/ Accept(m)

Fault == faults < MaxFaults /\ faults' = faults + 1

Lose(m) ==
  /\ Fault
  /\ air' = air \ {m}
  /\ UNCHANGED <<sent, seen, got>>

Duplicate(m) ==
  /\ Fault
  /\ air' = air \union {[m EXCEPT !.copy = faults']}
  /\ UNCHANGED <<sent, seen, got>>

(* The receiver gets only the first k bytes of a frame. *)
CutShort(m, k) ==
  /\ Fault
  /\ k < Len(m.frame)
  /\ air' = (air \ {m}) \union {[m EXCEPT !.frame = SubSeq(@, 1, k)]}
  /\ UNCHANGED <<sent, seen, got>>

Next ==
  \/ \E o \in Offers : Send(o)
  \/ \E m \in air :
       \/ Drop(m)
       \/ Accept(m)
       \/ Lose(m)
       \/ Duplicate(m)
       \/ \E k \in 0 .. MaxRemains : CutShort(m, k)

(* A radio that has received a frame hands it over: a node is not busy     *)
(* for ever.  Nobody is obliged to send, to lose or to duplicate.          *)
Fairness == WF_vars(\E m \in air : Receive(m))

Spec == Init /\ [][Next]_vars
FairSpec == Spec /\ Fairness

-----------------------------------------------------------------------------
TypeOK ==
  /\ sent \subseteq Offers
  /\ air \subseteq Message
  /\ seen \in [Node -> SUBSET Seq(Byte)]
  /\ got \in [Node -> Seq(Acceptance)]
  /\ faults \in 0 .. MaxFaults

(* The logical content of a packet.  The hop count of a TRACE belongs to   *)
(* it (content_hash.go:15-18).                                             *)
Content(packet) ==
  LET p == WithDefaultHashSize(packet)
  IN  <<p.Type, p.Payload,
        IF p.Type = PayloadTrace THEN <<p.PathHashSize, HopCount(p)>> ELSE << >>>>

Contents(acceptances) ==
  [i \in DOMAIN acceptances |-> Content(acceptances[i].packet)]

OfferedContents(offers) == {Content(o.packet) : o \in offers}

Intact(m) == m.frame = m.whole

(* A frame that DecodePacket accepts, whose packet ValidateWire accepts,   *)
(* and which EncodePacket reproduces byte for byte.                        *)
IsCanonical(frame) ==
  LET d == DecodePacket(frame)
  IN  /\ d.err = Nil
      /\ ValidateWire(d.packet) = Nil
      /\ EncodePacket(d.packet) = [err |-> Nil, frame |-> frame]

(* Whatever a sender or a relay transmits is canonical: a relay never      *)
(* re-encodes a packet into something the next receiver reads differently  *)
(* (EncodePacket and DecodePacket of packet.go).                           *)
AirIsCanonical == \A m \in air : IsCanonical(m.whole)

(* The hops a receiver reads from an intact frame are those its sender put *)
(* in, followed by the hashes of the relays it went through, in order:     *)
(* the path is neither shifted nor cut at any hash size (Hops, HopCount    *)
(* and the path_len byte).                                                 *)
PathIsTrail ==
  \A m \in air : Intact(m) /\ DecodePacket(m.frame).err = Nil =>
    LET p == DecodePacket(m.frame).packet
    IN  Hops(p) = Hops(WithDefaultHashSize(m.offer.packet)) \o
                    [i \in DOMAIN m.trail |-> HopHash(m.trail[i], p.PathHashSize)]

(* A frame that was cut short is refused by DecodePacket, or it decodes to *)
(* the packet that was transmitted with a shorter payload: a missing tail  *)
(* never turns payload bytes into hops or moves a field (the truncation    *)
(* checks of DecodePacket).                                                *)
CutNeverForges ==
  \A m \in air :
    LET d == DecodePacket(m.frame)
        w == DecodePacket(m.whole).packet
    IN  d.err = Nil =>
          /\ d.packet = [w EXCEPT !.Payload = d.packet.Payload]
          /\ \E k \in 0 .. Len(w.Payload) : d.packet.Payload = SubSeq(w.Payload, 1, k)

(* Two frames on the air have the same content digest exactly when they    *)
(* carry the same content, whatever their routes, transport codes and      *)
(* paths, and however far each has travelled (content_hash.go:5-18).       *)
DigestIsContent ==
  \A m1, m2 \in air :
    LET p1 == DecodePacket(m1.whole).packet
        p2 == DecodePacket(m2.whole).packet
    IN  DecodeContentDigest(m1.whole) = DecodeContentDigest(m2.whole)
          <=> Content(p1) = Content(p2)

(* A node accepts a content at most once, although it hears it from every  *)
(* neighbour, in several copies and by several routes.                     *)
AcceptedOnce ==
  \A n \in Node : \A i, j \in DOMAIN got[n] :
    i # j => Contents(got[n])[i] # Contents(got[n])[j]

(* A packet that was never cut does not come back to its sender or to a    *)
(* relay it went through: the digest the sender took from the packet in    *)
(* memory is the one receivers compute from the frame.                     *)
LoopFree ==
  \A n \in Node : \A i \in DOMAIN got[n] :
    got[n][i].pure => /\ n # got[n][i].offer.node
                      /\ \A j \in DOMAIN got[n][i].trail : got[n][i].trail[j] # n

(* A relay fails to pass a flooded packet on only when one more hop does   *)
(* not fit: the path has no room for it or the 6-bit hop count is at its   *)
(* limit.  No accepted packet is ever stuck for another reason             *)
(* (EncodePacket, packet.go:210-221).                                      *)
StopsOnlyWhenFull ==
  \A n \in Node : \A i \in DOMAIN got[n] :
    LET p == got[n][i].packet
    IN  Flooded(p) =>
          (got[n][i].relayed # Nil <=>
             \/ Len(p.Path) + p.PathHashSize > MaxPathBytes
             \/ HopCount(p) = 63)

(* The digest a sender remembers of a packet in memory is the digest a     *)
(* receiver computes from its frame: "PathHashSize == 0 is treated as the  *)
(* EncodePacket default (2)" (content_hash.go:18).                         *)
SentDigestIsFrameDigest ==
  \A o \in sent :
    DecodeContentDigest(EncodePacket(o.packet).frame).digest \in seen[o.node]

(* On a radio that loses nothing, every node of a connected mesh hears     *)
(* what is flooded, as long as the firmware processes it and no path gets  *)
(* full: no node takes it for something it has already seen.               *)
Hears(n, o) ==
  \/ \E i \in DOMAIN got[n] : Contents(got[n])[i] = Content(o.packet)
  \/ Content(o.packet) \in OfferedContents({s \in sent : s.node = n})

EveryoneHears ==
  <>[](\A o \in sent :
         Flooded(o.packet) /\ ValidateFirmwareSemantics(Normalised(o.packet)) = Nil =>
           \A n \in Node : Hears(n, o))

-----------------------------------------------------------------------------
(* The mesh delivers what MeshDelivery promises: no content is accepted    *)
(* twice by a node, and none that nobody offered is accepted at all.       *)
Delivery == INSTANCE MeshDelivery WITH
  Offerable <- OfferedContents(Offers),
  offered   <- OfferedContents(sent),
  accepted  <- [n \in Node |-> Contents(got[n])]

Delivers == Delivery!Spec
=============================================================================
