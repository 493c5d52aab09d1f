--------------------------- MODULE FloodMeshProofs ---------------------------
(***************************************************************************)
(* Theorems about FloodMesh, for every mesh, every set of offers and every *)
(* radio.                                                                  *)
(***************************************************************************)
EXTENDS FloodMesh, PacketProofs

(* An offer that EncodePacket accepts, as it is put on the air. *)
LEMMA EncodedIsWire ==
  ASSUME NEW p \in Packet, EncodePacket(p).err = Nil
  PROVE  /\ WithDefaultHashSize(p) \in Packet
         /\ ValidateWire(WithDefaultHashSize(p)) = Nil
         /\ EncodePacket(p).frame = Frame(WithDefaultHashSize(p))
         /\ EncodePacket(p).frame \in Seq(Byte)
<1>1. WithDefaultHashSize(p) \in Packet
  BY DefaultIsPacket
<1>2. /\ ValidateWire(WithDefaultHashSize(p)) = Nil
      /\ EncodePacket(p).frame = Frame(WithDefaultHashSize(p))
  BY DEF EncodePacket
<1>3. Frame(WithDefaultHashSize(p)) \in Seq(Byte)
  BY <1>1, <1>2, FrameFields
<1>4. QED
  BY <1>1, <1>2, <1>3

LEMMA DecodedFacts ==
  ASSUME NEW raw \in Seq(Byte), DecodePacket(raw).err = Nil
  PROVE  /\ DecodePacket(raw).packet \in Packet
         /\ ValidateWire(DecodePacket(raw).packet) = Nil
         /\ WithDefaultHashSize(DecodePacket(raw).packet) = DecodePacket(raw).packet
<1>1. DecodeError(raw) = Nil /\ DecodePacket(raw).packet = PacketIn(raw)
  BY DEF DecodePacket
<1>2. PacketIn(raw) \in Packet /\ ValidateWire(PacketIn(raw)) = Nil
  BY <1>1, DecodedIsWire
<1>3. PacketIn(raw).PathHashSize # 0
  <2>1. PacketIn(raw).PathHashSize \in 1 .. 3
    BY <1>2, WireFacts
  <2>2. QED
    BY <2>1
<1>4. WithDefaultHashSize(PacketIn(raw)) = PacketIn(raw)
  BY <1>3 DEF WithDefaultHashSize
<1>5. QED
  BY <1>1, <1>2, <1>4

(* The digest of a packet that can be encoded is a sequence of bytes: the  *)
(* descriptor of a TRACE does not overflow its byte.                       *)
LEMMA DigestIsBytes ==
  ASSUME NEW p \in Packet, ValidateWire(WithDefaultHashSize(p)) = Nil
  PROVE  ContentDigest(p) \in Seq(Byte)
<1> DEFINE q == WithDefaultHashSize(p)
<1>1. q \in Packet
  BY DefaultIsPacket
<1>2. p.Type \in Byte /\ p.Payload \in Seq(Byte)
  BY DEF Packet
<1>3. HopCount(p) \in 0 .. 63
  <2>1. CASE p.PathHashSize = 0
    BY <2>1 DEF HopCount
  <2>2. CASE p.PathHashSize # 0
    <3>1. q = p
      BY <2>2 DEF WithDefaultHashSize
    <3>2. QED
      BY <3>1, HopsTimesSize
  <2>3. QED
    BY <2>1, <2>2
<1>4. q.PathHashSize - 1 \in 0 .. 3
  <2>1. q.PathHashSize \in 1 .. 3
    BY <1>1, WireFacts
  <2>2. QED
    BY <2>1
<1> HIDE DEF q
<1>5. (q.PathHashSize - 1) * 64 + HopCount(p) \in Byte
  BY <1>3, <1>4, TwoFieldByte
<1>6. TraceDescriptor(p) \in Byte
  BY <1>5 DEF TraceDescriptor, q
<1>7. 0 \in Byte
  BY DEF Byte
<1>8. /\ <<p.Type, TraceDescriptor(p), 0>> \in Seq(Byte)
      /\ <<p.Type>> \in Seq(Byte)
  BY <1>2, <1>6, <1>7
<1>9. /\ <<p.Type, TraceDescriptor(p), 0>> \o p.Payload \in Seq(Byte)
      /\ <<p.Type>> \o p.Payload \in Seq(Byte)
  BY <1>2, <1>8, ConcatProperties
<1>10. QED
  BY <1>9 DEF ContentDigest

LEMMA HopIsPacket ==
  ASSUME NEW p \in Packet, ValidateWire(p) = Nil, NEW n \in Node
  PROVE  WithHop(p, n) \in Packet
<1>1. p.PathHashSize \in 1 .. 3
  BY WireFacts
<1>2. KeyOf[n] \in Seq(Byte) /\ Len(KeyOf[n]) >= 3
  BY MeshAssumption
<1>3. HopHash(n, p.PathHashSize) \in Seq(Byte)
  <2> DEFINE size == p.PathHashSize
             key  == KeyOf[n]
  <2>1. size \in Nat /\ 0 + size <= Len(key) /\ key \in Seq(Byte)
    BY <1>1, <1>2
  <2> HIDE DEF size, key
  <2>2. SubSeq(key, 0 + 1, 0 + size) \in Seq(Byte)
    BY <2>1, Slice
  <2>3. 0 + 1 = 1 /\ 0 + size = size
    BY <2>1
  <2>4. SubSeq(key, 1, size) \in Seq(Byte)
    BY <2>2, <2>3
  <2>5. QED
    BY <2>4 DEF HopHash, size, key
<1>4. p.Path \in Seq(Byte)
  BY DEF Packet
<1>5. p.Path \o HopHash(n, p.PathHashSize) \in Seq(Byte)
  BY <1>3, <1>4, ConcatProperties
<1>6. WithHop(p, n) = [p EXCEPT !.Path = p.Path \o HopHash(n, p.PathHashSize)]
  BY DEF WithHop
<1>7. QED
  BY <1>5, <1>6 DEF Packet

-----------------------------------------------------------------------------
(* The types of what the nodes hold. *)
LEMMA TransmitIsMessages ==
  ASSUME NEW n \in Node, NEW frame \in Seq(Byte), NEW offer \in Offers,
         NEW trail \in Seq(Node), NEW pure \in BOOLEAN
  PROVE  Transmit(n, frame, offer, trail, pure) \subseteq Message
<1>1. Neighbours[n] \subseteq Node
  BY MeshAssumption
<1>2. 0 \in 0 .. MaxFaults
  BY MeshAssumption
<1>3. QED
  BY <1>1, <1>2 DEF Transmit, Message

LEMMA ErrorsOfEncode ==
  ASSUME NEW p
  PROVE  EncodePacket(p).err \in WireErrors \union {Nil}
<1>1. ASSUME NEW q PROVE ValidateWire(q) \in WireErrors \union {Nil}
  BY DEF ValidateWire, WireErrors
<1>2. EncodePacket(p).err = ValidateWire(WithDefaultHashSize(p))
  BY DEF EncodePacket
<1>3. QED
  BY <1>1, <1>2

(* What Accept finds in a frame that it does not drop. *)
LEMMA AcceptFacts ==
  ASSUME TypeOK, NEW m \in air, DropReason(m.to, m.frame) = Nil
  PROVE  /\ m.frame \in Seq(Byte)
         /\ DecodePacket(m.frame).err = Nil
         /\ DecodePacket(m.frame).packet \in Packet
         /\ ValidateWire(DecodePacket(m.frame).packet) = Nil
         /\ ContentDigest(DecodePacket(m.frame).packet) \in Seq(Byte)
         /\ ContentDigest(DecodePacket(m.frame).packet) \notin seen[m.to]
         /\ ValidateFirmwareSemantics(DecodePacket(m.frame).packet) = Nil
<1> DEFINE p == DecodePacket(m.frame).packet
<1>1. m.frame \in Seq(Byte)
  BY DEF TypeOK, Message
<1>2. DecodePacket(m.frame).err = Nil
  BY DEF DropReason
<1>3. /\ ValidateFirmwareSemantics(p) = Nil
      /\ ContentDigest(p) \notin seen[m.to]
  BY <1>2 DEF DropReason, Nil
<1>4. /\ p \in Packet /\ ValidateWire(p) = Nil
      /\ WithDefaultHashSize(p) = p
  BY <1>1, <1>2, DecodedFacts
<1>5. ContentDigest(p) \in Seq(Byte)
  <2> HIDE DEF p
  <2>1. QED
    BY <1>4, DigestIsBytes
<1>6. QED
  BY <1>1, <1>2, <1>3, <1>4, <1>5

LEMMA TypeInit ==
  ASSUME Init
  PROVE  TypeOK
<1>1. 0 \in 0 .. MaxFaults
  BY MeshAssumption
<1>2. << >> \in Seq(Acceptance)
  OBVIOUS
<1>3. QED
  BY <1>1, <1>2 DEF Init, TypeOK

LEMMA TypeSend ==
  ASSUME TypeOK, NEW o \in Offers, Send(o)
  PROVE  TypeOK'
<1> DEFINE e == EncodePacket(o.packet)
<1>1. o.node \in Node /\ o.packet \in Packet
  BY MeshAssumption
<1>2. /\ e.err = Nil
      /\ sent' = sent \union {o}
      /\ air' = air \union Transmit(o.node, e.frame, o, << >>, TRUE)
      /\ seen' = [seen EXCEPT ![o.node] = @ \union {ContentDigest(o.packet)}]
      /\ UNCHANGED <<got, faults>>
  BY DEF Send
<1>3. /\ e.frame \in Seq(Byte)
      /\ ValidateWire(WithDefaultHashSize(o.packet)) = Nil
  BY <1>1, <1>2, EncodedIsWire
<1> HIDE DEF e
<1>4. Transmit(o.node, e.frame, o, << >>, TRUE) \subseteq Message
  <2>1. << >> \in Seq(Node) /\ TRUE \in BOOLEAN
    OBVIOUS
  <2>2. o.node \in Node /\ e.frame \in Seq(Byte)
    BY <1>1, <1>3
  <2>3. QED
    BY <2>1, <2>2, TransmitIsMessages
<1>5. ContentDigest(o.packet) \in Seq(Byte)
  BY <1>1, <1>3, DigestIsBytes
<1>6. sent' \subseteq Offers /\ air' \subseteq Message
  BY <1>2, <1>4 DEF TypeOK
<1>7. seen' \in [Node -> SUBSET Seq(Byte)]
  BY <1>1, <1>2, <1>5 DEF TypeOK
<1>8. got' \in [Node -> Seq(Acceptance)] /\ faults' \in 0 .. MaxFaults
  BY <1>2 DEF TypeOK
<1>9. QED
  BY <1>6, <1>7, <1>8 DEF TypeOK

LEMMA TypeAccept ==
  ASSUME TypeOK, NEW m \in air, Accept(m)
  PROVE  TypeOK'
<1> DEFINE n    == m.to
           p    == DecodePacket(m.frame).packet
           next == EncodePacket(WithHop(p, n))
           pure == m.pure /\ m.frame = m.whole
           onward == IF Flooded(p) /\ next.err = Nil
                     THEN Transmit(n, next.frame, m.offer, Append(m.trail, n), pure)
                     ELSE {}
           entry == [packet |-> p, offer |-> m.offer, trail |-> m.trail, pure |-> pure,
                     relayed |-> IF Flooded(p) THEN next.err ELSE "NotFlooded"]
<1>1. /\ DropReason(n, m.frame) = Nil
      /\ seen' = [seen EXCEPT ![n] = @ \union {ContentDigest(p)}]
      /\ got' = [got EXCEPT ![n] = Append(@, entry)]
      /\ air' = (air \ {m}) \union onward
      /\ UNCHANGED <<sent, faults>>
  BY DEF Accept
<1>2. n \in Node /\ m.offer \in Offers /\ m.trail \in Seq(Node)
  BY DEF TypeOK, Message
<1>3. pure \in BOOLEAN
  BY DEF TypeOK, Message
<1>4. p \in Packet /\ ValidateWire(p) = Nil /\ ContentDigest(p) \in Seq(Byte)
  BY <1>1, AcceptFacts
<1>5. next.err \in WireErrors \union {Nil}
  BY ErrorsOfEncode
<1> HIDE DEF n, p, pure
<1>6. WithHop(p, n) \in Packet
  BY <1>2, <1>4, HopIsPacket
<1>7. onward \subseteq Message
  <2>1. CASE Flooded(p) /\ next.err = Nil
    <3>1. next.frame \in Seq(Byte)
      BY <1>6, <2>1, EncodedIsWire
    <3>2. Append(m.trail, n) \in Seq(Node)
      BY <1>2
    <3> HIDE DEF next
    <3>3. Transmit(n, next.frame, m.offer, Append(m.trail, n), pure) \subseteq Message
      BY <1>2, <1>3, <3>1, <3>2, TransmitIsMessages
    <3>4. QED
      BY <2>1, <3>3
  <2>2. CASE ~(Flooded(p) /\ next.err = Nil)
    BY <2>2
  <2>3. QED
    BY <2>1, <2>2
<1> HIDE DEF next, onward
<1>8. entry \in Acceptance
  <2>1. (IF Flooded(p) THEN next.err ELSE "NotFlooded") \in
           WireErrors \union {Nil, "NotFlooded"}
    BY <1>5
  <2>2. QED
    BY <1>2, <1>3, <1>4, <2>1 DEF Acceptance
<1> HIDE DEF entry
<1>9. sent' \subseteq Offers /\ faults' \in 0 .. MaxFaults
  BY <1>1 DEF TypeOK
<1>10. air' \subseteq Message
  BY <1>1, <1>7 DEF TypeOK
<1>11. seen' \in [Node -> SUBSET Seq(Byte)]
  BY <1>1, <1>2, <1>4 DEF TypeOK
<1>12. got' \in [Node -> Seq(Acceptance)]
  BY <1>1, <1>2, <1>8 DEF TypeOK
<1>13. QED
  BY <1>9, <1>10, <1>11, <1>12 DEF TypeOK

LEMMA TypeRadio ==
  ASSUME TypeOK, NEW m \in air,
         \/ Drop(m) \/ Lose(m) \/ Duplicate(m)
         \/ \E k \in 0 .. MaxRemains : CutShort(m, k)
  PROVE  TypeOK'
<1>1. m \in Message
  BY DEF TypeOK
<1>2. CASE Drop(m) \/ Lose(m)
  BY <1>2, MeshAssumption DEF Drop, Lose, Fault, TypeOK
<1>3. CASE Duplicate(m)
  <2>1. faults' \in 0 .. MaxFaults
    BY <1>3, MeshAssumption DEF Duplicate, Fault, TypeOK
  <2>2. [m EXCEPT !.copy = faults'] \in Message
    BY <1>1, <2>1 DEF Message
  <2>3. QED
    BY <1>3, <2>1, <2>2 DEF Duplicate, TypeOK
<1>4. ASSUME NEW k \in 0 .. MaxRemains, CutShort(m, k) PROVE TypeOK'
  <2>1. m.frame \in Seq(Byte)
    BY <1>1 DEF Message
  <2>2. SubSeq(m.frame, 1, k) \in Seq(Byte)
    <3>1. k \in Nat /\ 0 + k <= Len(m.frame)
      BY <1>4, <2>1, MeshAssumption DEF CutShort
    <3>2. SubSeq(m.frame, 0 + 1, 0 + k) \in Seq(Byte)
      BY <2>1, <3>1, Slice
    <3>3. 0 + 1 = 1 /\ 0 + k = k
      BY <3>1
    <3>4. QED
      BY <3>2, <3>3
  <2>3. [m EXCEPT !.frame = SubSeq(@, 1, k)] \in Message
    BY <1>1, <2>2 DEF Message
  <2>4. faults' \in 0 .. MaxFaults
    BY <1>4, MeshAssumption DEF CutShort, Fault, TypeOK
  <2>5. QED
    BY <1>4, <2>3, <2>4 DEF CutShort, TypeOK
<1>5. QED
  BY <1>2, <1>3, <1>4

(* Every frame on the air and every digest a node remembers is a sequence  *)
(* of bytes, and every packet a node has accepted has the Go field types:  *)
(* no arithmetic of the codec leaves its byte.                             *)
THEOREM TypeCorrect == Spec => []TypeOK
<1>1. Init => TypeOK
  BY TypeInit
<1>2. TypeOK /\ [Next]_vars => TypeOK'
  <2> SUFFICES ASSUME TypeOK, [Next]_vars PROVE TypeOK'
    OBVIOUS
  <2>1. ASSUME NEW o \in Offers, Send(o) PROVE TypeOK'
    BY <2>1, TypeSend
  <2>2. ASSUME NEW m \in air, Accept(m) PROVE TypeOK'
    BY <2>2, TypeAccept
  <2>3. ASSUME NEW m \in air,
               \/ Drop(m) \/ Lose(m) \/ Duplicate(m)
               \/ \E k \in 0 .. MaxRemains : CutShort(m, k)
        PROVE  TypeOK'
    BY <2>3, TypeRadio
  <2>4. CASE UNCHANGED vars
    BY <2>4 DEF vars, TypeOK
  <2>5. QED
    BY <2>1, <2>2, <2>3, <2>4 DEF Next
<1>3. QED
  BY <1>1, <1>2, PTL DEF Spec

-----------------------------------------------------------------------------
(* What EncodePacket produces is canonical. *)
LEMMA EncodedIsCanonical ==
  ASSUME NEW p \in Packet, EncodePacket(p).err = Nil
  PROVE  IsCanonical(EncodePacket(p).frame)
<1> DEFINE f == EncodePacket(p).frame
<1>1. f \in Seq(Byte)
  BY EncodedIsWire
<1>2. DecodePacket(f).err = Nil
  <2>1. DecodePacket(f) = [err |-> Nil, packet |-> Normalised(p)]
    BY RoundTrip
  <2>2. QED
    BY <2>1
<1> HIDE DEF f
<1>3. ValidateWire(DecodePacket(f).packet) = Nil
  BY <1>1, <1>2, DecodedFacts
<1>4. EncodePacket(DecodePacket(f).packet) = [err |-> Nil, frame |-> f]
  BY <1>1, <1>2, Canonical
<1>5. QED
  BY <1>2, <1>3, <1>4 DEF IsCanonical, f

LEMMA CanonicalSend ==
  ASSUME TypeOK, AirIsCanonical, NEW o \in Offers, Send(o)
  PROVE  AirIsCanonical'
<1> DEFINE e == EncodePacket(o.packet)
<1>1. o.packet \in Packet
  BY MeshAssumption
<1>2. e.err = Nil /\ air' = air \union Transmit(o.node, e.frame, o, << >>, TRUE)
  BY DEF Send
<1>3. IsCanonical(e.frame)
  BY <1>1, <1>2, EncodedIsCanonical
<1>4. \A m \in Transmit(o.node, e.frame, o, << >>, TRUE) : m.whole = e.frame
  BY DEF Transmit
<1>5. QED
  BY <1>2, <1>3, <1>4 DEF AirIsCanonical

LEMMA CanonicalAccept ==
  ASSUME TypeOK, AirIsCanonical, NEW m \in air, Accept(m)
  PROVE  AirIsCanonical'
<1> DEFINE n    == m.to
           p    == DecodePacket(m.frame).packet
           next == EncodePacket(WithHop(p, n))
           pure == m.pure /\ m.frame = m.whole
           onward == Transmit(n, next.frame, m.offer, Append(m.trail, n), pure)
<1>1. /\ DropReason(n, m.frame) = Nil
      /\ air' = (air \ {m}) \union
                   (IF Flooded(p) /\ next.err = Nil THEN onward ELSE {})
  BY DEF Accept
<1>2. n \in Node
  BY DEF TypeOK, Message
<1>3. p \in Packet /\ ValidateWire(p) = Nil
  BY <1>1, AcceptFacts
<1> HIDE DEF p, n
<1>4. WithHop(p, n) \in Packet
  BY <1>2, <1>3, HopIsPacket
<1>5. next.err = Nil => IsCanonical(next.frame)
  BY <1>4, EncodedIsCanonical
<1>6. \A x \in onward : x.whole = next.frame
  BY DEF Transmit
<1> HIDE DEF next, onward
<1>7. QED
  BY <1>1, <1>5, <1>6 DEF AirIsCanonical

(* Every frame that is transmitted in any mesh, by a sender or after any   *)
(* number of relays, decodes to a valid packet that encodes to the same    *)
(* frame (EncodePacket, packet.go:189, and DecodePacket, packet.go:242).   *)
THEOREM AlwaysCanonical == Spec => []AirIsCanonical
<1>1. Init => AirIsCanonical
  BY DEF Init, AirIsCanonical
<1>2. TypeOK /\ AirIsCanonical /\ [Next]_vars => AirIsCanonical'
  <2> SUFFICES ASSUME TypeOK, AirIsCanonical, [Next]_vars PROVE AirIsCanonical'
    OBVIOUS
  <2>1. ASSUME NEW o \in Offers, Send(o) PROVE AirIsCanonical'
    BY <2>1, CanonicalSend
  <2>2. ASSUME NEW m \in air, Accept(m) PROVE AirIsCanonical'
    BY <2>2, CanonicalAccept
  <2>3. ASSUME NEW m \in air, Drop(m) \/ Lose(m) PROVE AirIsCanonical'
    BY <2>3 DEF Drop, Lose, AirIsCanonical
  <2>4. ASSUME NEW m \in air, Duplicate(m) PROVE AirIsCanonical'
    <3>1. m \in Message /\ air' = air \union {[m EXCEPT !.copy = faults']}
      BY <2>4 DEF Duplicate, TypeOK
    <3>2. [m EXCEPT !.copy = faults'].whole = m.whole
      BY <3>1 DEF Message
    <3>3. QED
      BY <3>1, <3>2 DEF AirIsCanonical
  <2>5. ASSUME NEW m \in air, NEW k \in 0 .. MaxRemains, CutShort(m, k)
        PROVE  AirIsCanonical'
    <3>1. m \in Message
      BY DEF TypeOK
    <3>2. air' = (air \ {m}) \union {[m EXCEPT !.frame = SubSeq(@, 1, k)]}
      BY <2>5 DEF CutShort
    <3>3. [m EXCEPT !.frame = SubSeq(@, 1, k)].whole = m.whole
      BY <3>1 DEF Message
    <3>4. QED
      BY <3>2, <3>3 DEF AirIsCanonical
  <2>6. CASE UNCHANGED vars
    BY <2>6 DEF vars, AirIsCanonical
  <2>7. QED
    BY <2>1, <2>2, <2>3, <2>4, <2>5, <2>6 DEF Next
<1>3. QED
  BY <1>1, <1>2, TypeCorrect, PTL DEF Spec

-----------------------------------------------------------------------------
(* AcceptedOnce is not inductive: that a packet is new is decided by its   *)
(* digest in seen, not by the packets in got.  The invariant that is says  *)
(* that a node remembers the digest of all it has accepted, that these     *)
(* digests differ, and that the accepted packets are valid, so that their  *)
(* contents determine their digests.                                       *)
Remembered ==
  \A n \in Node : \A i \in DOMAIN got[n] :
    /\ ValidateWire(got[n][i].packet) = Nil
    /\ ContentDigest(got[n][i].packet) \in seen[n]

Distinguished ==
  \A n \in Node : \A i, j \in DOMAIN got[n] :
    i # j => ContentDigest(got[n][i].packet) # ContentDigest(got[n][j].packet)

AcceptanceInv == Remembered /\ Distinguished

LEMMA ContentDeterminesDigest ==
  ASSUME NEW p \in Packet, ValidateWire(p) = Nil,
         NEW q \in Packet, ValidateWire(q) = Nil,
         Content(p) = Content(q)
  PROVE  ContentDigest(p) = ContentDigest(q)
<1>1. p.PathHashSize # 0 /\ q.PathHashSize # 0
  <2>1. p.PathHashSize \in 1 .. 3 /\ q.PathHashSize \in 1 .. 3
    BY WireFacts
  <2>2. QED
    BY <2>1
<1>2. WithDefaultHashSize(p) = p /\ WithDefaultHashSize(q) = q
  BY <1>1 DEF WithDefaultHashSize
<1>3. /\ p.Type = q.Type
      /\ p.Payload = q.Payload
      /\ p.Type = PayloadTrace =>
           p.PathHashSize = q.PathHashSize /\ HopCount(p) = HopCount(q)
  BY <1>2 DEF Content
<1>4. p.Type = PayloadTrace => TraceDescriptor(p) = TraceDescriptor(q)
  BY <1>2, <1>3 DEF TraceDescriptor
<1>5. QED
  BY <1>3, <1>4 DEF ContentDigest

LEMMA AcceptanceGrows ==
  ASSUME TypeOK, AcceptanceInv, NEW m \in air, Accept(m)
  PROVE  AcceptanceInv'
<1> DEFINE to == m.to
           p  == DecodePacket(m.frame).packet
           D  == ContentDigest(p)
<1>1. DropReason(to, m.frame) = Nil
  BY DEF Accept
<1> DEFINE e == [packet |-> p, offer |-> m.offer, trail |-> m.trail,
                 pure |-> m.pure /\ m.frame = m.whole,
                 relayed |-> IF Flooded(p) THEN EncodePacket(WithHop(p, to)).err
                             ELSE "NotFlooded"]
<1>2. /\ e.packet = p
      /\ got' = [got EXCEPT ![to] = Append(@, e)]
      /\ seen' = [seen EXCEPT ![to] = @ \union {D}]
  BY DEF Accept
<1>3. ValidateWire(p) = Nil /\ D \notin seen[to]
  BY <1>1, AcceptFacts
<1>4. /\ to \in Node
      /\ got \in [Node -> Seq(Acceptance)]
      /\ seen \in [Node -> SUBSET Seq(Byte)]
  BY DEF TypeOK, Message
<1> HIDE DEF to, p, e
<1>5. \A n \in Node : seen[n] \subseteq seen'[n]
  BY <1>2, <1>4
<1>6. D \in seen'[to]
  BY <1>2, <1>4
<1> DEFINE k == Len(got[to]) + 1
<1>7. /\ got[to] \in Seq(Acceptance)
      /\ got'[to] = Append(got[to], e)
      /\ \A n \in Node \ {to} : got'[n] = got[n]
  BY <1>2, <1>4
<1>8. /\ DOMAIN got[to] = 1 .. Len(got[to])
      /\ DOMAIN got'[to] = 1 .. k
      /\ got'[to][k] = e
      /\ \A i \in 1 .. Len(got[to]) : got'[to][i] = got[to][i]
      /\ Len(got[to]) \in Nat
  BY <1>7
<1> HIDE DEF D, k
<1>9. ASSUME NEW n \in Node, NEW i \in DOMAIN got'[n]
      PROVE  \/ i \in DOMAIN got[n] /\ got'[n][i] = got[n][i]
             \/ n = to /\ i = k /\ got'[n][i] = e
  BY <1>7, <1>8 DEF k
<1>10. Remembered'
  <2> SUFFICES ASSUME NEW n \in Node, NEW i \in DOMAIN got'[n]
               PROVE  /\ ValidateWire(got'[n][i].packet) = Nil
                      /\ ContentDigest(got'[n][i].packet) \in seen'[n]
    BY DEF Remembered
  <2>1. CASE i \in DOMAIN got[n] /\ got'[n][i] = got[n][i]
    BY <1>5, <2>1 DEF AcceptanceInv, Remembered
  <2>2. CASE n = to /\ i = k /\ got'[n][i] = e
    BY <1>2, <1>3, <1>6, <2>2 DEF D
  <2>3. QED
    BY <1>9, <2>1, <2>2
<1>11. ASSUME NEW n \in Node, NEW i \in DOMAIN got[n], n = to
       PROVE  ContentDigest(got[n][i].packet) # D
  BY <1>3, <1>11 DEF AcceptanceInv, Remembered
<1>12. Distinguished'
  <2> SUFFICES ASSUME NEW n \in Node, NEW i \in DOMAIN got'[n], NEW j \in DOMAIN got'[n],
                      i # j
               PROVE  ContentDigest(got'[n][i].packet) # ContentDigest(got'[n][j].packet)
    BY DEF Distinguished
  <2>1. CASE /\ i \in DOMAIN got[n] /\ got'[n][i] = got[n][i]
             /\ j \in DOMAIN got[n] /\ got'[n][j] = got[n][j]
    BY <2>1 DEF AcceptanceInv, Distinguished
  <2>2. CASE /\ i \in DOMAIN got[n] /\ got'[n][i] = got[n][i]
             /\ n = to /\ j = k /\ got'[n][j] = e
    BY <1>2, <1>11, <2>2 DEF D
  <2>3. CASE /\ n = to /\ i = k /\ got'[n][i] = e
             /\ j \in DOMAIN got[n] /\ got'[n][j] = got[n][j]
    BY <1>2, <1>11, <2>3 DEF D
  <2>4. QED
    BY <1>9, <2>1, <2>2, <2>3
<1>13. QED
  BY <1>10, <1>12 DEF AcceptanceInv

LEMMA AcceptanceInvariant == Spec => []AcceptanceInv
<1>1. Init => AcceptanceInv
  BY DEF Init, AcceptanceInv, Remembered, Distinguished
<1>2. TypeOK /\ AcceptanceInv /\ [Next]_vars => AcceptanceInv'
  <2> SUFFICES ASSUME TypeOK, AcceptanceInv, [Next]_vars PROVE AcceptanceInv'
    OBVIOUS
  <2>1. ASSUME NEW o \in Offers, Send(o) PROVE AcceptanceInv'
    <3>1. \A n \in Node : seen[n] \subseteq seen'[n]
      BY <2>1 DEF Send, TypeOK
    <3>2. got' = got
      BY <2>1 DEF Send
    <3>3. QED
      BY <3>1, <3>2 DEF AcceptanceInv, Remembered, Distinguished
  <2>2. ASSUME NEW m \in air, Accept(m) PROVE AcceptanceInv'
    BY <2>2, AcceptanceGrows
  <2>3. CASE UNCHANGED <<seen, got>>
    BY <2>3 DEF AcceptanceInv, Remembered, Distinguished
  <2>4. ASSUME NEW m \in air,
               \/ Drop(m) \/ Lose(m) \/ Duplicate(m)
               \/ \E k \in 0 .. MaxRemains : CutShort(m, k)
        PROVE  UNCHANGED <<seen, got>>
    BY <2>4 DEF Drop, Lose, Duplicate, CutShort
  <2>5. CASE UNCHANGED vars
    BY <2>3, <2>5 DEF vars
  <2>6. QED
    BY <2>1, <2>2, <2>3, <2>4, <2>5 DEF Next
<1>3. QED
  BY <1>1, <1>2, TypeCorrect, PTL DEF Spec

(* In every mesh, however frames are lost, duplicated, cut and reordered,  *)
(* no node accepts the same content twice (ContentDigest, content_hash.go, *)
(* used for cross-route deduplication).                                    *)
THEOREM NeverTwice == Spec => []AcceptedOnce
<1>1. TypeOK /\ AcceptanceInv => AcceptedOnce
  <2> SUFFICES ASSUME TypeOK, AcceptanceInv,
                      NEW n \in Node, NEW i \in DOMAIN got[n], NEW j \in DOMAIN got[n],
                      i # j,
                      Content(got[n][i].packet) = Content(got[n][j].packet)
               PROVE  FALSE
    BY DEF AcceptedOnce, Contents
  <2>1. got[n][i].packet \in Packet /\ got[n][j].packet \in Packet
    <3>1. got[n] \in Seq(Acceptance)
      BY DEF TypeOK
    <3>2. got[n][i] \in Acceptance /\ got[n][j] \in Acceptance
      BY <3>1
    <3>3. QED
      BY <3>2 DEF Acceptance
  <2>2. /\ ValidateWire(got[n][i].packet) = Nil
        /\ ValidateWire(got[n][j].packet) = Nil
    BY DEF AcceptanceInv, Remembered
  <2>3. ContentDigest(got[n][i].packet) = ContentDigest(got[n][j].packet)
    BY <2>1, <2>2, ContentDeterminesDigest
  <2>4. QED
    BY <2>3 DEF AcceptanceInv, Distinguished
<1>2. QED
  BY <1>1, TypeCorrect, AcceptanceInvariant, PTL

-----------------------------------------------------------------------------
(* What happens to a packet on its way: where its path leads, what a cut   *)
(* leaves of it, why it stops, and that the mesh implements MeshDelivery.  *)

LEMMA HopHashIsKeyPrefix ==
  ASSUME NEW n \in Node, NEW size \in 1 .. 3
  PROVE  HopHash(n, size) \in Seq(Byte) /\ Len(HopHash(n, size)) = size
<1> DEFINE key == KeyOf[n]
<1>1. key \in Seq(Byte) /\ Len(key) >= 3
  BY MeshAssumption
<1> HIDE DEF key
<1>2. size \in Nat /\ 0 + size <= Len(key)
  BY <1>1
<1>3. SubSeq(key, 0 + 1, 0 + size) \in Seq(Byte) /\ Len(SubSeq(key, 0 + 1, 0 + size)) = size
  BY <1>1, <1>2, Slice
<1>4. 0 + 1 = 1 /\ 0 + size = size
  BY <1>2
<1>5. SubSeq(key, 1, size) \in Seq(Byte) /\ Len(SubSeq(key, 1, size)) = size
  BY <1>3, <1>4
<1>6. QED
  BY <1>5 DEF HopHash, key

(* A hop makes the path longer by one hash and changes nothing else. *)
LEMMA HopAddsOne ==
  ASSUME NEW p \in Packet, ValidateWire(p) = Nil, NEW n \in Node
  PROVE  LET q == WithHop(p, n)
         IN  /\ q.Route = p.Route /\ q.Type = p.Type /\ q.Version = p.Version
             /\ q.TransportCodes = p.TransportCodes
             /\ q.PathHashSize = p.PathHashSize /\ q.Payload = p.Payload
             /\ q.Path = p.Path \o HopHash(n, p.PathHashSize)
             /\ Len(q.Path) = Len(p.Path) + p.PathHashSize
             /\ Len(q.Path) % q.PathHashSize = 0
             /\ HopCount(q) = HopCount(p) + 1
<1> DEFINE q == WithHop(p, n)
           h == HopHash(n, p.PathHashSize)
<1>1. /\ p.PathHashSize \in 1 .. 3
      /\ Len(p.Path) % p.PathHashSize = 0
      /\ p.Path \in Seq(Byte) /\ Len(p.Path) \in Nat
  BY WireFacts DEF Packet
<1>2. h \in Seq(Byte) /\ Len(h) = p.PathHashSize
  BY <1>1, HopHashIsKeyPrefix
<1>3. /\ q.Route = p.Route /\ q.Type = p.Type /\ q.Version = p.Version
      /\ q.TransportCodes = p.TransportCodes
      /\ q.PathHashSize = p.PathHashSize /\ q.Payload = p.Payload
      /\ q.Path = p.Path \o h
  BY DEF WithHop, Packet
<1> HIDE DEF q, h
<1>4. Len(q.Path) = Len(p.Path) + p.PathHashSize
  BY <1>1, <1>2, <1>3, ConcatProperties
<1>5. /\ (Len(p.Path) + p.PathHashSize) % p.PathHashSize = 0
      /\ (Len(p.Path) + p.PathHashSize) \div p.PathHashSize
           = (Len(p.Path) \div p.PathHashSize) + 1
  BY <1>1, OneMoreMultiple
<1>6. /\ HopCount(p) = Len(p.Path) \div p.PathHashSize
      /\ HopCount(q) = Len(q.Path) \div q.PathHashSize
  BY <1>1, <1>3 DEF HopCount
<1>7. QED
  BY <1>3, <1>4, <1>5, <1>6 DEF q, h

(* One more hop is refused when, and only when, it does not fit. *)
LEMMA RefusedOnlyWhenFull ==
  ASSUME NEW p \in Packet, ValidateWire(p) = Nil, NEW n \in Node
  PROVE  EncodePacket(WithHop(p, n)).err # Nil <=>
           \/ Len(p.Path) + p.PathHashSize > MaxPathBytes
           \/ HopCount(p) = 63
<1> DEFINE q == WithHop(p, n)
<1>1. /\ q.Route = p.Route /\ q.Type = p.Type /\ q.Version = p.Version
      /\ q.PathHashSize = p.PathHashSize /\ q.Payload = p.Payload
  BY HopAddsOne
<1>2. Len(q.Path) = Len(p.Path) + p.PathHashSize /\ Len(q.Path) % q.PathHashSize = 0
  BY HopAddsOne
<1>3. HopCount(q) = HopCount(p) + 1
  BY HopAddsOne
<1>4. /\ p.Version = 0 /\ p.Route \in 0 .. 3 /\ p.Type \in 0 .. 15
      /\ p.PathHashSize \in 1 .. 3
  BY WireFacts
<1>5. Len(p.Payload) \in Nat /\ Len(p.Payload) <= MaxPayloadBytes
  BY WireFacts DEF Packet
<1>6. HopCount(p) \in 0 .. MaxHopCount
  BY WireFacts
<1> HIDE DEF q
<1>7. EncodePacket(q).err = ValidateWire(q)
  <2>1. WithDefaultHashSize(q) = q
    BY <1>1, <1>4 DEF WithDefaultHashSize
  <2>2. QED
    BY <2>1 DEF EncodePacket
<1>8. /\ ~(q.Version # CurrentPayloadVer)
      /\ ~(q.Route > RouteTransportDirect)
      /\ ~(q.Type > 15)
      /\ ~(q.PathHashSize \notin 1 .. 3)
  BY <1>1, <1>4 DEF CurrentPayloadVer, RouteTransportDirect
<1>9. ~(Len(q.Payload) > MaxPayloadBytes)
  BY <1>1, <1>5, EnvelopeLimits
<1>10. ValidateWire(q) # Nil <=> Len(q.Path) > MaxPathBytes \/ HopCount(q) > MaxHopCount
  <2>1. ~(Len(q.Path) % q.PathHashSize # 0)
    BY <1>2
  <2>2. QED
    BY <1>8, <1>9, <2>1 DEF ValidateWire, Nil
<1>11. HopCount(q) > MaxHopCount <=> HopCount(p) = 63
  BY <1>3, <1>6 DEF MaxHopCount
<1>12. QED
  BY <1>2, <1>7, <1>10, <1>11 DEF q

-----------------------------------------------------------------------------
(* The record that Accept(m) appends, in one place. *)
Taken(m) ==
  LET p == DecodePacket(m.frame).packet
  IN  [packet |-> p, offer |-> m.offer, trail |-> m.trail,
       pure |-> m.pure /\ m.frame = m.whole,
       relayed |-> IF Flooded(p) THEN EncodePacket(WithHop(p, m.to)).err
                   ELSE "NotFlooded"]

LEMMA AcceptAppends ==
  ASSUME TypeOK, NEW m \in air, Accept(m)
  PROVE  \A n \in Node : \A i \in DOMAIN got'[n] :
           \/ i \in DOMAIN got[n] /\ got'[n][i] = got[n][i]
           \/ n = m.to /\ got'[n][i] = Taken(m)
<1> DEFINE to == m.to
           e  == Taken(m)
<1>1. got' = [got EXCEPT ![to] = Append(@, e)]
  BY DEF Accept, Taken
<1>2. to \in Node /\ got \in [Node -> Seq(Acceptance)]
  BY DEF TypeOK, Message
<1> HIDE DEF to, e
<1>3. /\ got[to] \in Seq(Acceptance)
      /\ got'[to] = Append(got[to], e)
      /\ \A n \in Node \ {to} : got'[n] = got[n]
  BY <1>1, <1>2
<1>4. /\ DOMAIN got[to] = 1 .. Len(got[to])
      /\ DOMAIN got'[to] = 1 .. Len(got[to]) + 1
      /\ got'[to][Len(got[to]) + 1] = e
      /\ \A i \in 1 .. Len(got[to]) : got'[to][i] = got[to][i]
      /\ Len(got[to]) \in Nat
  BY <1>3
<1>5. ASSUME NEW n \in Node, NEW i \in DOMAIN got'[n]
      PROVE  \/ i \in DOMAIN got[n] /\ got'[n][i] = got[n][i]
             \/ n = to /\ got'[n][i] = e
  <2>1. CASE n # to
    BY <1>3, <2>1
  <2>2. CASE n = to
    <3>1. i \in 1 .. Len(got[to]) \/ i = Len(got[to]) + 1
      BY <1>4, <2>2
    <3>2. QED
      BY <1>4, <2>2, <3>1
  <2>3. QED
    BY <2>1, <2>2
<1>6. QED
  BY <1>5 DEF to, e

(* Only Accept changes what the nodes have accepted. *)
LEMMA GotOnlyByAccept ==
  ASSUME [Next]_vars
  PROVE  got' = got \/ \E m \in air : Accept(m)
BY DEF Next, vars, Send, Drop, Lose, Duplicate, CutShort

-----------------------------------------------------------------------------
(* An acceptance says what became of the relay at that moment.  The nodes  *)
(* keep no other trace of it, so this, with Remembered, is the invariant   *)
(* behind StopsOnlyWhenFull.                                               *)
RelayIsRecorded ==
  \A n \in Node : \A i \in DOMAIN got[n] :
    LET p == got[n][i].packet
    IN  Flooded(p) => got[n][i].relayed = EncodePacket(WithHop(p, n)).err

LEMMA RelayInvariant == Spec => []RelayIsRecorded
<1>1. Init => RelayIsRecorded
  BY DEF Init, RelayIsRecorded
<1>2. TypeOK /\ RelayIsRecorded /\ [Next]_vars => RelayIsRecorded'
  <2> SUFFICES ASSUME TypeOK, RelayIsRecorded, [Next]_vars PROVE RelayIsRecorded'
    OBVIOUS
  <2>1. CASE got' = got
    BY <2>1 DEF RelayIsRecorded
  <2>2. ASSUME NEW m \in air, Accept(m) PROVE RelayIsRecorded'
    <3>1. \A n \in Node : \A i \in DOMAIN got'[n] :
            \/ i \in DOMAIN got[n] /\ got'[n][i] = got[n][i]
            \/ n = m.to /\ got'[n][i] = Taken(m)
      BY <2>2, AcceptAppends
    <3>2. Flooded(Taken(m).packet) =>
            Taken(m).relayed = EncodePacket(WithHop(Taken(m).packet, m.to)).err
      BY DEF Taken
    <3>3. QED
      BY <3>1, <3>2 DEF RelayIsRecorded
  <2>3. QED
    BY <2>1, <2>2, GotOnlyByAccept
<1>3. QED
  BY <1>1, <1>2, TypeCorrect, PTL DEF Spec

(* No node of any mesh stops a flooded packet while one more hop fits: the *)
(* limits of the path (64 bytes) and of the hop count (6 bits) are the     *)
(* only reasons for a relay to fail (EncodePacket, packet.go:210-221).     *)
THEOREM RelaysUntilFull == Spec => []StopsOnlyWhenFull
<1>1. TypeOK /\ AcceptanceInv /\ RelayIsRecorded => StopsOnlyWhenFull
  <2> SUFFICES ASSUME TypeOK, AcceptanceInv, RelayIsRecorded,
                      NEW n \in Node, NEW i \in DOMAIN got[n],
                      Flooded(got[n][i].packet)
               PROVE  LET p == got[n][i].packet
                      IN  got[n][i].relayed # Nil <=>
                            \/ Len(p.Path) + p.PathHashSize > MaxPathBytes
                            \/ HopCount(p) = 63
    BY DEF StopsOnlyWhenFull
  <2> DEFINE p == got[n][i].packet
  <2>1. p \in Packet
    <3>1. got[n] \in Seq(Acceptance)
      BY DEF TypeOK
    <3>2. got[n][i] \in Acceptance
      BY <3>1
    <3>3. QED
      BY <3>2 DEF Acceptance
  <2>2. ValidateWire(p) = Nil
    BY DEF AcceptanceInv, Remembered
  <2>3. got[n][i].relayed = EncodePacket(WithHop(p, n)).err
    BY DEF RelayIsRecorded
  <2> HIDE DEF p
  <2>4. EncodePacket(WithHop(p, n)).err # Nil <=>
          \/ Len(p.Path) + p.PathHashSize > MaxPathBytes
          \/ HopCount(p) = 63
    BY <2>1, <2>2, RefusedOnlyWhenFull
  <2>5. QED
    BY <2>3, <2>4 DEF p
<1>2. QED
  BY <1>1, TypeCorrect, AcceptanceInvariant, RelayInvariant, PTL

-----------------------------------------------------------------------------
(* The fields before the payload lie in the bytes that are left, as long   *)
(* as DecodePacket finds no error in them.                                 *)
LEMMA CutKeepsLayout ==
  ASSUME NEW raw \in Seq(Byte), DecodeError(raw) = Nil,
         NEW k \in 0 .. Len(raw), NEW f, f = SubSeq(raw, 1, k), DecodeError(f) = Nil
  PROVE  /\ f \in Seq(Byte) /\ Len(f) = k
         /\ \A i \in 1 .. k : f[i] = raw[i]
         /\ RouteOf(f) = RouteOf(raw)
         /\ TypeOf(f) = TypeOf(raw)
         /\ VersionOf(f) = VersionOf(raw)
         /\ PathLenAt(f) = PathLenAt(raw)
         /\ HashSizeOf(f) = HashSizeOf(raw)
         /\ PathBytesOf(f) = PathBytesOf(raw)
         /\ CodesOf(f) = CodesOf(raw)
<1>1. f \in Seq(Byte) /\ Len(f) = k /\ \A i \in 1 .. k : f[i] = raw[i]
  BY BeginningFacts
<1>2. PathLenAt(f) \in {2, 6} /\ PathLenAt(f) <= k
  BY <1>1, DecodeFacts
<1>3. f[1] = raw[1]
  BY <1>1, <1>2
<1>4. RouteOf(f) = RouteOf(raw) /\ TypeOf(f) = TypeOf(raw) /\ VersionOf(f) = VersionOf(raw)
  BY <1>3 DEF RouteOf, TypeOf, VersionOf
<1>5. PathLenAt(f) = PathLenAt(raw)
  BY <1>4 DEF PathLenAt
<1>6. f[PathLenAt(f)] = raw[PathLenAt(raw)]
  <2>1. PathLenAt(f) \in 1 .. k
    BY <1>2
  <2>2. QED
    BY <1>1, <1>5, <2>1
<1>7. HashSizeOf(f) = HashSizeOf(raw)
  BY <1>6 DEF HashSizeOf
<1>8. PathBytesOf(f) = PathBytesOf(raw)
  BY <1>6, <1>7 DEF PathBytesOf
<1>9. CodesOf(f) = CodesOf(raw)
  <2>1. CASE IsTransport(RouteOf(f))
    <3>1. PathLenAt(f) = 6
      BY <2>1 DEF PathLenAt
    <3>2. f[2] = raw[2] /\ f[3] = raw[3] /\ f[4] = raw[4] /\ f[5] = raw[5]
      <4>1. 2 \in 1 .. k /\ 3 \in 1 .. k /\ 4 \in 1 .. k /\ 5 \in 1 .. k
        BY <1>2, <3>1
      <4>2. \A i \in 1 .. k : f[i] = raw[i]
        BY <1>1
      <4>3. QED
        BY <4>1, <4>2
    <3>3. Uint16At(f, 2) = Uint16At(raw, 2) /\ Uint16At(f, 4) = Uint16At(raw, 4)
      <4>1. 2 + 1 = 3 /\ 4 + 1 = 5
        OBVIOUS
      <4>2. /\ Uint16At(f, 2) = f[2] + 256 * f[3] /\ Uint16At(f, 4) = f[4] + 256 * f[5]
            /\ Uint16At(raw, 2) = raw[2] + 256 * raw[3]
            /\ Uint16At(raw, 4) = raw[4] + 256 * raw[5]
        BY <4>1, Zenon DEF Uint16At
      <4>3. QED
        BY <3>2, <4>2, Zenon
    <3>4. IsTransport(RouteOf(raw))
      BY <1>4, <2>1
    <3>5. QED
      BY <2>1, <3>3, <3>4 DEF CodesOf
  <2>2. CASE ~IsTransport(RouteOf(f))
    BY <1>4, <2>2 DEF CodesOf
  <2>3. QED
    BY <2>1, <2>2
<1>10. QED
  BY <1>1, <1>4, <1>5, <1>7, <1>8, <1>9

(* What DecodePacket reads of the beginning of a frame is the packet with  *)
(* the beginning of its payload.                                           *)
LEMMA CutShortensPayload ==
  ASSUME NEW raw \in Seq(Byte), DecodeError(raw) = Nil,
         NEW f, IsBeginning(f, raw), DecodeError(f) = Nil
  PROVE  /\ PacketIn(f) = [PacketIn(raw) EXCEPT !.Payload = PacketIn(f).Payload]
         /\ IsBeginning(PacketIn(f).Payload, PacketIn(raw).Payload)
<1>1. PICK k \in 0 .. Len(raw) : f = SubSeq(raw, 1, k)
  BY DEF IsBeginning
<1> DEFINE at == PathLenAt(raw)
           m  == PathBytesOf(raw)
           p  == PacketIn(raw)
           q  == PacketIn(f)
<1>2. /\ f \in Seq(Byte) /\ Len(f) = k
      /\ \A i \in 1 .. k : f[i] = raw[i]
      /\ PathLenAt(f) = at /\ PathBytesOf(f) = m
  BY <1>1, CutKeepsLayout
<1>3. /\ RouteOf(f) = RouteOf(raw) /\ TypeOf(f) = TypeOf(raw)
      /\ VersionOf(f) = VersionOf(raw) /\ HashSizeOf(f) = HashSizeOf(raw)
      /\ CodesOf(f) = CodesOf(raw)
  BY <1>1, CutKeepsLayout
<1>4. /\ p.Path \in Seq(Byte) /\ p.Payload \in Seq(Byte)
      /\ Len(p.Path) = m
      /\ Len(p.Payload) = Len(raw) - at - m
      /\ \A i \in 1 .. Len(p.Path) : p.Path[i] = raw[at + i]
      /\ \A i \in 1 .. Len(p.Payload) : p.Payload[i] = raw[at + m + i]
  BY DecodedParts
<1>5. /\ q.Path \in Seq(Byte) /\ q.Payload \in Seq(Byte)
      /\ Len(q.Path) = m
      /\ Len(q.Payload) = k - at - m
      /\ \A i \in 1 .. Len(q.Path) : q.Path[i] = f[at + i]
      /\ \A i \in 1 .. Len(q.Payload) : q.Payload[i] = f[at + m + i]
  BY <1>2, DecodedParts
<1>6. /\ at \in Nat /\ m \in Nat /\ k \in Nat /\ Len(raw) \in Nat
      /\ at + m <= k /\ k <= Len(raw)
  <2>1. at \in {2, 6} /\ m \in 0 .. MaxPathBytes
    BY DecodeFacts
  <2>2. PayloadFrom(f) = at + m + 1 /\ PayloadFrom(f) <= k + 1
    BY <1>2, DecodeFacts
  <2>3. QED
    BY <2>1, <2>2, EnvelopeLimits
<1>7. q = [Route |-> q.Route, Type |-> q.Type, Version |-> q.Version,
           TransportCodes |-> q.TransportCodes, PathHashSize |-> q.PathHashSize,
           Path |-> q.Path, Payload |-> q.Payload]
  BY DEF PacketIn
<1>8. p = [Route |-> p.Route, Type |-> p.Type, Version |-> p.Version,
           TransportCodes |-> p.TransportCodes, PathHashSize |-> p.PathHashSize,
           Path |-> p.Path, Payload |-> p.Payload]
  BY DEF PacketIn
<1>9. /\ q.Route = p.Route /\ q.Type = p.Type /\ q.Version = p.Version
      /\ q.TransportCodes = p.TransportCodes /\ q.PathHashSize = p.PathHashSize
  BY <1>3 DEF PacketIn
<1> HIDE DEF at, m, p, q
<1>10. q.Path = p.Path
  <2>1. \A i \in 1 .. m : at + i \in 1 .. k
    BY <1>6
  <2>2. ASSUME NEW i \in 1 .. Len(q.Path) PROVE q.Path[i] = p.Path[i]
    <3>1. i \in 1 .. m /\ i \in 1 .. Len(p.Path)
      BY <1>4, <1>5
    <3>2. at + i \in 1 .. k
      BY <2>1, <3>1
    <3>3. f[at + i] = raw[at + i]
      BY <1>2, <3>2
    <3>4. p.Path[i] = raw[at + i] /\ q.Path[i] = f[at + i]
      BY <1>4, <1>5, <3>1
    <3>5. QED
      BY <3>3, <3>4
  <2>3. q.Path \in Seq(Byte) /\ p.Path \in Seq(Byte) /\ Len(q.Path) = Len(p.Path)
    BY <1>4, <1>5
  <2>4. QED
    BY <2>2, <2>3, SeqEqual
<1>11. IsBeginning(q.Payload, p.Payload)
  <2> DEFINE j == k - at - m
             b == SubSeq(p.Payload, 1, j)
  <2>1. j \in 0 .. Len(p.Payload)
    BY <1>4, <1>6
  <2>2. b \in Seq(Byte) /\ Len(b) = j /\ \A i \in 1 .. j : b[i] = p.Payload[i]
    BY <1>4, <2>1, BeginningFacts
  <2>3. \A i \in 1 .. j : at + m + i \in 1 .. k
    BY <1>6
  <2> HIDE DEF b
  <2>4. \A i \in 1 .. Len(q.Payload) : q.Payload[i] = b[i]
    BY <1>2, <1>4, <1>5, <2>1, <2>2, <2>3
  <2>5. q.Payload = b
    BY <1>5, <2>2, <2>4, SeqEqual
  <2>6. QED
    BY <2>1, <2>5 DEF IsBeginning, b
<1>12. [p EXCEPT !.Payload = q.Payload] =
         [Route |-> p.Route, Type |-> p.Type, Version |-> p.Version,
          TransportCodes |-> p.TransportCodes, PathHashSize |-> p.PathHashSize,
          Path |-> p.Path, Payload |-> q.Payload]
  BY <1>8
<1>13. q = [p EXCEPT !.Payload = q.Payload]
  BY <1>7, <1>9, <1>10, <1>12
<1>14. QED
  BY <1>11, <1>13 DEF p, q

-----------------------------------------------------------------------------
(* The hops of a path with one more hop, and the hops of a trail. *)
LEMMA HopsOfWithHop ==
  ASSUME NEW p \in Packet, ValidateWire(p) = Nil, NEW n \in Node
  PROVE  Hops(WithHop(p, n)) = Append(Hops(p), HopHash(n, p.PathHashSize))
<1> DEFINE q == WithHop(p, n)
           h == HopHash(n, p.PathHashSize)
<1>1. q.PathHashSize = p.PathHashSize /\ q.Path = p.Path \o h
  BY HopAddsOne
<1>2. IsPathOf(p)
  BY WireIsPath
<1>3. h \in Seq(Byte) /\ Len(h) = p.PathHashSize
  BY <1>2, HopHashIsKeyPrefix DEF IsPathOf
<1> HIDE DEF q, h
<1>4. QED
  BY <1>1, <1>2, <1>3, HopsOfLongerPath DEF q, h

TrailHashes(trail, size) == [i \in DOMAIN trail |-> HopHash(trail[i], size)]

LEMMA TrailHashesOfAppend ==
  ASSUME NEW trail \in Seq(Node), NEW n \in Node, NEW size \in 1 .. 3
  PROVE  /\ TrailHashes(trail, size) \in Seq(Seq(Byte))
         /\ TrailHashes(Append(trail, n), size)
              = Append(TrailHashes(trail, size), HopHash(n, size))
<1> DEFINE t == TrailHashes(trail, size)
           h == HopHash(n, size)
           u == TrailHashes(Append(trail, n), size)
           c == Len(trail)
<1>1. c \in Nat /\ DOMAIN trail = 1 .. c /\ \A i \in 1 .. c : trail[i] \in Node
  OBVIOUS
<1>2. h \in Seq(Byte) /\ \A i \in 1 .. c : HopHash(trail[i], size) \in Seq(Byte)
  BY <1>1, HopHashIsKeyPrefix
<1>3. /\ t \in Seq(Seq(Byte)) /\ Len(t) = c
      /\ \A i \in 1 .. c : t[i] = HopHash(trail[i], size)
  BY <1>1, <1>2 DEF TrailHashes
<1>4. /\ DOMAIN Append(trail, n) = 1 .. c + 1
      /\ Append(trail, n)[c + 1] = n
      /\ \A i \in 1 .. c : Append(trail, n)[i] = trail[i]
  BY <1>1
<1>5. /\ DOMAIN u = 1 .. c + 1
      /\ u[c + 1] = h
      /\ \A i \in 1 .. c : u[i] = HopHash(trail[i], size)
      /\ u = [i \in 1 .. c + 1 |-> u[i]]
  BY <1>1, <1>4 DEF TrailHashes
<1> HIDE DEF t, h, u, c
<1>6. /\ Append(t, h) \in Seq(Seq(Byte)) /\ Len(Append(t, h)) = c + 1
      /\ \A i \in 1 .. c : Append(t, h)[i] = t[i]
      /\ Append(t, h)[c + 1] = h
  BY <1>2, <1>3, AppendProperties
<1>7. \A i \in 1 .. c + 1 : u[i] = Append(t, h)[i]
  <2>1. \A i \in 1 .. c + 1 : i \in 1 .. c \/ i = c + 1
    BY <1>1
  <2>2. QED
    BY <1>3, <1>5, <1>6, <2>1
<1>8. u \in Seq(Seq(Byte)) /\ Len(u) = c + 1
  <2>1. \A i \in 1 .. c + 1 : u[i] \in Seq(Byte)
    BY <1>1, <1>6, <1>7
  <2>2. [i \in 1 .. c + 1 |-> u[i]] \in Seq(Seq(Byte))
    BY <1>1, <2>1
  <2>3. u \in Seq(Seq(Byte))
    BY <1>5, <2>2
  <2>4. QED
    BY <1>1, <1>5, <2>3, LenProperties
<1>9. u = Append(t, h)
  BY <1>6, <1>7, <1>8, SeqEqual
<1>10. QED
  BY <1>3, <1>9 DEF t, u, h

-----------------------------------------------------------------------------
(* What the first frame of an offer decodes to. *)
LEMMA NormalisedFacts ==
  ASSUME NEW p \in Packet, EncodePacket(p).err = Nil
  PROVE  LET q == Normalised(p)
         IN  /\ DecodePacket(EncodePacket(p).frame) = [err |-> Nil, packet |-> q]
             /\ q \in Packet
             /\ ValidateWire(q) = Nil
             /\ q.Type = p.Type /\ q.Payload = p.Payload /\ q.Path = p.Path
             /\ q.PathHashSize = WithDefaultHashSize(p).PathHashSize
<1> DEFINE q == Normalised(p)
           f == EncodePacket(p).frame
<1>1. DecodePacket(f) = [err |-> Nil, packet |-> q]
  BY RoundTrip
<1>2. f \in Seq(Byte)
  BY EncodedIsWire
<1>3. q.Type = p.Type /\ q.Payload = p.Payload /\ q.Path = p.Path
      /\ q.PathHashSize = WithDefaultHashSize(p).PathHashSize
  BY DEF Normalised, WithDefaultHashSize, Packet, DefaultPathHashSize
<1> HIDE DEF q, f
<1>4. DecodePacket(f).err = Nil /\ DecodePacket(f).packet = q
  BY <1>1
<1>5. q \in Packet /\ ValidateWire(q) = Nil
  BY <1>2, <1>4, DecodedFacts
<1>6. QED
  BY <1>1, <1>3, <1>5 DEF q, f

(* What the frame of a relay decodes to: nothing but the hop is new. *)
LEMMA RelayedFacts ==
  ASSUME NEW raw \in Seq(Byte), DecodePacket(raw).err = Nil, NEW n \in Node,
         NEW p, p = DecodePacket(raw).packet,
         EncodePacket(WithHop(p, n)).err = Nil
  PROVE  LET q == WithHop(p, n)
         IN  /\ DecodePacket(EncodePacket(q).frame) = [err |-> Nil, packet |-> q]
             /\ q \in Packet
             /\ ValidateWire(q) = Nil
<1> DEFINE q == WithHop(p, n)
<1>1. p \in Packet /\ ValidateWire(p) = Nil
  BY DecodedFacts
<1>2. /\ q.Route = p.Route /\ q.TransportCodes = p.TransportCodes
      /\ q.PathHashSize = p.PathHashSize
  BY <1>1, HopAddsOne
<1>3. q \in Packet
  BY <1>1, HopIsPacket
<1>4. IsTransport(p.Route) \/ p.TransportCodes = <<0, 0>>
  BY DEF DecodePacket, PacketIn, CodesOf
<1>5. p.PathHashSize # 0
  <2>1. p.PathHashSize \in 1 .. 3
    BY <1>1, WireFacts
  <2>2. QED
    BY <2>1
<1> HIDE DEF q
<1>6. WithDefaultHashSize(q) = q
  BY <1>2, <1>5 DEF WithDefaultHashSize
<1>7. Normalised(q) = q
  <2>1. CASE IsTransport(q.Route)
    BY <1>6, <2>1 DEF Normalised
  <2>2. CASE ~IsTransport(q.Route)
    <3>1. q.TransportCodes = <<0, 0>>
      BY <1>2, <1>4, <2>2
    <3>2. [q EXCEPT !.TransportCodes = <<0, 0>>] = q
      BY <1>3, <3>1 DEF Packet
    <3>3. QED
      BY <1>6, <2>2, <3>2 DEF Normalised
  <2>3. QED
    BY <2>1, <2>2
<1>8. EncodePacket(q).err = Nil
  BY DEF q
<1>9. DecodePacket(EncodePacket(q).frame) = [err |-> Nil, packet |-> q]
  BY <1>3, <1>7, <1>8, RoundTrip
<1>10. ValidateWire(q) = Nil
  BY <1>6, <1>8 DEF EncodePacket
<1>11. QED
  BY <1>3, <1>9, <1>10 DEF q

-----------------------------------------------------------------------------
(* How the packet w of a frame relates to its offer, after the relays of   *)
(* trail: the route-independent fields are those of the offer, the payload *)
(* is a beginning of the offer's, and the hops are the offer's and the     *)
(* relays'.  A TRACE has met no relay, so that its path is still its own.  *)
Carried(w, offer, trail) ==
  LET q == Normalised(offer.packet)
  IN  /\ w.Type = q.Type
      /\ w.PathHashSize = q.PathHashSize
      /\ IsBeginning(w.Payload, q.Payload)
      /\ trail = << >> => w = q
      /\ trail # << >> => w.Type # PayloadTrace
      /\ Hops(w) = Hops(q) \o TrailHashes(trail, w.PathHashSize)

LEMMA CarriedFromSender ==
  ASSUME NEW o \in Offers, EncodePacket(o.packet).err = Nil
  PROVE  Carried(Normalised(o.packet), o, << >>)
<1> DEFINE q == Normalised(o.packet)
<1>1. o.packet \in Packet
  BY MeshAssumption
<1>2. q \in Packet /\ ValidateWire(q) = Nil
  BY <1>1, NormalisedFacts
<1> HIDE DEF q
<1>3. Hops(q) \in Seq(Seq(Byte))
  BY <1>2, WireIsPath, HopsOfPath
<1>4. TrailHashes(<< >>, q.PathHashSize) = << >>
  BY DEF TrailHashes
<1>5. Hops(q) = Hops(q) \o TrailHashes(<< >>, q.PathHashSize)
  BY <1>3, <1>4, ConcatEmptySeq
<1>6. q.Payload \in Seq(Byte)
  BY <1>2 DEF Packet
<1>7. IsBeginning(q.Payload, q.Payload)
  BY <1>6, WholeIsBeginning
<1>8. QED
  BY <1>5, <1>7 DEF Carried, q

LEMMA CarriedByRelay ==
  ASSUME NEW offer \in Offers, EncodePacket(offer.packet).err = Nil,
         NEW trail \in Seq(Node), NEW n \in Node,
         NEW w, Carried(w, offer, trail),
         NEW p \in Packet, ValidateWire(p) = Nil, ValidateWire(WithHop(p, n)) = Nil,
         p.Type = w.Type, p.PathHashSize = w.PathHashSize, p.Path = w.Path,
         IsBeginning(p.Payload, w.Payload),
         p.Type # PayloadTrace
  PROVE  Carried(WithHop(p, n), offer, Append(trail, n))
<1> DEFINE q == Normalised(offer.packet)
           x == WithHop(p, n)
           s == p.PathHashSize
           h == HopHash(n, s)
           t == TrailHashes(trail, s)
<1>1. offer.packet \in Packet
  BY MeshAssumption
<1>2. q \in Packet /\ ValidateWire(q) = Nil
  BY <1>1, NormalisedFacts
<1>3. /\ x.Type = p.Type /\ x.PathHashSize = s /\ x.Payload = p.Payload
  BY HopAddsOne
<1>4. Hops(x) = Append(Hops(p), h)
  BY HopsOfWithHop
<1>5. Hops(p) = Hops(w)
  BY HopsOfSamePath
<1> HIDE DEF q, x
<1>6. /\ w.Type = q.Type /\ w.PathHashSize = q.PathHashSize
      /\ IsBeginning(w.Payload, q.Payload)
      /\ Hops(w) = Hops(q) \o t
  BY DEF Carried, q
<1>7. s \in 1 .. 3
  BY WireFacts
<1> HIDE DEF s
<1>8. h \in Seq(Byte)
  BY <1>7, HopHashIsKeyPrefix
<1>9. t \in Seq(Seq(Byte)) /\ TrailHashes(Append(trail, n), s) = Append(t, h)
  BY <1>7, TrailHashesOfAppend
<1>10. Hops(q) \in Seq(Seq(Byte))
  BY <1>2, WireIsPath, HopsOfPath
<1> HIDE DEF h, t
<1>11. Append(Hops(q) \o t, h) = Hops(q) \o Append(t, h)
  <2> DEFINE S == Seq(Byte)
             hops == Hops(q)
  <2>1. h \in S /\ t \in Seq(S) /\ hops \in Seq(S)
    BY <1>8, <1>9, <1>10
  <2> HIDE DEF S, hops
  <2>2. (hops \o t) \o <<h>> = hops \o (t \o <<h>>)
    <3>1. <<h>> \in Seq(S)
      BY <2>1
    <3>2. QED
      BY <2>1, <3>1, ConcatAssociative
  <2>3. /\ Append(hops \o t, h) = (hops \o t) \o <<h>>
        /\ Append(t, h) = t \o <<h>>
    BY <2>1, ConcatProperties, AppendIsConcat
  <2>4. QED
    BY <2>2, <2>3 DEF hops
<1>12. Hops(x) = Hops(q) \o TrailHashes(Append(trail, n), x.PathHashSize)
  BY <1>3, <1>4, <1>5, <1>6, <1>9, <1>11
<1>13. IsBeginning(x.Payload, q.Payload)
  <2>1. q.Payload \in Seq(Byte)
    BY <1>2 DEF Packet
  <2>2. QED
    BY <1>3, <1>6, <2>1, BeginningIsTransitive
<1>14. Append(trail, n) # << >>
  OBVIOUS
<1>15. x.Type = q.Type /\ x.PathHashSize = q.PathHashSize /\ x.Type # PayloadTrace
  BY <1>3, <1>6 DEF s
<1>16. QED
  BY <1>12, <1>13, <1>14, <1>15 DEF Carried, q, x

-----------------------------------------------------------------------------
(* What is true of a frame under way.  The receiver's bytes are a          *)
(* beginning of what was transmitted, which carries an offer that was      *)
(* sent; and while no byte is missing, its sender and its relays remember  *)
(* the digest of it.  This is inductive with TypeOK: the properties below  *)
(* say nothing of the relays a frame has yet to meet.                      *)
WholeOf(m) == DecodePacket(m.whole).packet

Travelled(m, offers) ==
  /\ m.offer \in offers
  /\ EncodePacket(m.offer.packet).err = Nil
  /\ DecodePacket(m.whole).err = Nil
  /\ IsBeginning(m.frame, m.whole)
  /\ Carried(WholeOf(m), m.offer, m.trail)

KnownOnItsWay(m, digests) ==
  m.pure /\ ValidateFirmwareSemantics(WholeOf(m)) = Nil =>
    /\ ContentDigest(WholeOf(m)) \in digests[m.offer.node]
    /\ \A j \in DOMAIN m.trail : ContentDigest(WholeOf(m)) \in digests[m.trail[j]]

FlightInv == \A m \in air : Travelled(m, sent) /\ KnownOnItsWay(m, seen)

(* Nodes forget no offer and no digest. *)
LEMMA NothingIsForgotten ==
  ASSUME TypeOK, [Next]_vars
  PROVE  /\ sent \subseteq sent'
         /\ \A n \in Node : seen[n] \subseteq seen'[n]
<1>1. seen \in [Node -> SUBSET Seq(Byte)]
  BY DEF TypeOK
<1>2. ASSUME NEW o \in Offers, Send(o)
      PROVE  sent \subseteq sent' /\ \A n \in Node : seen[n] \subseteq seen'[n]
  BY <1>1, <1>2 DEF Send
<1>3. ASSUME NEW m \in air, Accept(m)
      PROVE  sent \subseteq sent' /\ \A n \in Node : seen[n] \subseteq seen'[n]
  <2>1. PICK n, d : sent' = sent /\ seen' = [seen EXCEPT ![n] = @ \union {d}]
    BY <1>3 DEF Accept
  <2>2. QED
    BY <1>1, <2>1
<1>4. ASSUME NEW m \in air,
             \/ Drop(m) \/ Lose(m) \/ Duplicate(m)
             \/ \E k \in 0 .. MaxRemains : CutShort(m, k)
      PROVE  UNCHANGED <<sent, seen>>
  BY <1>4 DEF Drop, Lose, Duplicate, CutShort
<1>5. CASE UNCHANGED vars
  BY <1>5 DEF vars
<1>6. QED
  BY <1>2, <1>3, <1>4, <1>5 DEF Next

LEMMA FlightKept ==
  ASSUME TypeOK, FlightInv, [Next]_vars, NEW m \in air
  PROVE  Travelled(m, sent') /\ KnownOnItsWay(m, seen')
<1>1. Travelled(m, sent) /\ KnownOnItsWay(m, seen)
  BY DEF FlightInv
<1>2. sent \subseteq sent' /\ \A n \in Node : seen[n] \subseteq seen'[n]
  BY NothingIsForgotten
<1>3. Travelled(m, sent')
  BY <1>1, <1>2 DEF Travelled
<1>4. m.offer.node \in Node /\ \A j \in DOMAIN m.trail : m.trail[j] \in Node
  <2>1. m.offer \in Offers /\ m.trail \in Seq(Node)
    BY DEF TypeOK, Message
  <2>2. QED
    BY <2>1, MeshAssumption
<1>5. KnownOnItsWay(m, seen')
  BY <1>1, <1>2, <1>4 DEF KnownOnItsWay
<1>6. QED
  BY <1>3, <1>5

(* What the radio does to a frame under way. *)
LEMMA FlightOfPart ==
  ASSUME TypeOK, FlightInv, [Next]_vars, NEW m \in air, NEW x,
         x.whole = m.whole, x.offer = m.offer, x.trail = m.trail, x.pure = m.pure,
         IsBeginning(x.frame, x.whole)
  PROVE  Travelled(x, sent') /\ KnownOnItsWay(x, seen')
<1>1. Travelled(m, sent') /\ KnownOnItsWay(m, seen')
  BY FlightKept
<1>2. WholeOf(x) = WholeOf(m)
  BY DEF WholeOf
<1>3. Travelled(x, sent')
  BY <1>1, <1>2 DEF Travelled
<1>4. KnownOnItsWay(x, seen')
  BY <1>1, <1>2 DEF KnownOnItsWay
<1>5. QED
  BY <1>3, <1>4

LEMMA FlightDuplicate ==
  ASSUME TypeOK, FlightInv, NEW m \in air, Duplicate(m), [Next]_vars
  PROVE  FlightInv'
<1> DEFINE x == [m EXCEPT !.copy = faults']
<1>1. m \in Message /\ air' = air \union {x}
  BY DEF Duplicate, TypeOK
<1>2. /\ x.whole = m.whole /\ x.offer = m.offer /\ x.trail = m.trail
      /\ x.pure = m.pure /\ x.frame = m.frame
  BY <1>1 DEF Message
<1> HIDE DEF x
<1>3. IsBeginning(x.frame, x.whole)
  BY <1>2 DEF FlightInv, Travelled
<1>4. Travelled(x, sent') /\ KnownOnItsWay(x, seen')
  BY <1>2, <1>3, FlightOfPart
<1>5. QED
  BY <1>1, <1>4, FlightKept DEF FlightInv

LEMMA FlightCutShort ==
  ASSUME TypeOK, FlightInv, NEW m \in air, NEW k \in 0 .. MaxRemains, CutShort(m, k),
         [Next]_vars
  PROVE  FlightInv'
<1> DEFINE x == [m EXCEPT !.frame = SubSeq(m.frame, 1, k)]
<1>1. m \in Message /\ air' = (air \ {m}) \union {x} /\ k < Len(m.frame)
  BY DEF CutShort, TypeOK
<1>2. /\ x.whole = m.whole /\ x.offer = m.offer /\ x.trail = m.trail
      /\ x.pure = m.pure /\ x.frame = SubSeq(m.frame, 1, k)
  BY <1>1 DEF Message
<1> HIDE DEF x
<1>3. m.frame \in Seq(Byte) /\ m.whole \in Seq(Byte)
  BY <1>1 DEF Message
<1>4. IsBeginning(x.frame, m.frame)
  <2>1. k \in 0 .. Len(m.frame)
    BY <1>1, <1>3, MeshAssumption
  <2>2. QED
    BY <1>2, <2>1 DEF IsBeginning
<1>5. IsBeginning(m.frame, m.whole)
  BY DEF FlightInv, Travelled
<1>6. IsBeginning(x.frame, x.whole)
  BY <1>2, <1>3, <1>4, <1>5, BeginningIsTransitive
<1>7. Travelled(x, sent') /\ KnownOnItsWay(x, seen')
  BY <1>2, <1>6, FlightOfPart
<1>8. QED
  BY <1>1, <1>7, FlightKept DEF FlightInv

(* The firmware processes a TRACE only when it is direct and its hash size *)
(* is given.                                                               *)
LEMMA TraceFacts ==
  ASSUME NEW p, p.Type = PayloadTrace, ValidateFirmwareSemantics(p) = Nil
  PROVE  p.Route = RouteDirect /\ p.PathHashSize = 1
<1>1. ValidateFirmwareSemantics(p) = validateTraceSemantics(p)
  BY DEF ValidateFirmwareSemantics, PayloadTrace, PayloadMultipart
<1>2. QED
  BY <1>1 DEF validateTraceSemantics, Nil

LEMMA DigestOfFirstFrame ==
  ASSUME NEW p \in Packet, EncodePacket(p).err = Nil,
         ValidateFirmwareSemantics(Normalised(p)) = Nil
  PROVE  ContentDigest(Normalised(p)) = ContentDigest(p)
<1> DEFINE q == Normalised(p)
<1>1. /\ q.Type = p.Type /\ q.Payload = p.Payload /\ q.Path = p.Path
      /\ q.PathHashSize = WithDefaultHashSize(p).PathHashSize
  BY NormalisedFacts
<1>2. ValidateFirmwareSemantics(q) = Nil
  OBVIOUS
<1> HIDE DEF q
<1>3. ASSUME p.Type # PayloadTrace PROVE ContentDigest(q) = ContentDigest(p)
  BY <1>1, <1>3 DEF ContentDigest
<1>4. ASSUME p.Type = PayloadTrace PROVE ContentDigest(q) = ContentDigest(p)
  <2>1. q.PathHashSize = 1
    BY <1>1, <1>2, <1>4, TraceFacts
  <2>2. p.PathHashSize # 0
    BY <1>1, <2>1 DEF WithDefaultHashSize, DefaultPathHashSize, Packet
  <2>3. WithDefaultHashSize(p) = p
    BY <2>2 DEF WithDefaultHashSize
  <2>4. q.PathHashSize = p.PathHashSize
    BY <1>1, <2>3
  <2>5. WithDefaultHashSize(q) = q
    BY <2>2, <2>4 DEF WithDefaultHashSize
  <2>6. HopCount(q) = HopCount(p)
    BY <1>1, <2>4 DEF HopCount
  <2>7. TraceDescriptor(q) = TraceDescriptor(p)
    BY <2>3, <2>4, <2>5, <2>6 DEF TraceDescriptor
  <2>8. QED
    BY <1>1, <2>7 DEF ContentDigest
<1>5. QED
  BY <1>3, <1>4 DEF q

LEMMA FlightSend ==
  ASSUME TypeOK, FlightInv, NEW o \in Offers, Send(o), [Next]_vars
  PROVE  FlightInv'
<1> DEFINE e == EncodePacket(o.packet)
           D == ContentDigest(o.packet)
           q == Normalised(o.packet)
           new == Transmit(o.node, e.frame, o, << >>, TRUE)
<1>1. /\ e.err = Nil
      /\ sent' = sent \union {o}
      /\ air' = air \union new
      /\ seen' = [seen EXCEPT ![o.node] = @ \union {D}]
  BY DEF Send
<1>2. o.packet \in Packet /\ o.node \in Node
  BY MeshAssumption
<1>3. DecodePacket(e.frame) = [err |-> Nil, packet |-> q]
  BY <1>1, <1>2, NormalisedFacts
<1>4. Carried(q, o, << >>)
  BY <1>1, CarriedFromSender
<1>5. ValidateFirmwareSemantics(q) = Nil => ContentDigest(q) = D
  BY <1>1, <1>2, DigestOfFirstFrame
<1>6. e.frame \in Seq(Byte)
  BY <1>1, <1>2, EncodedIsWire
<1>7. IsBeginning(e.frame, e.frame)
  BY <1>6, WholeIsBeginning
<1>8. D \in seen'[o.node] /\ o \in sent'
  BY <1>1, <1>2 DEF TypeOK
<1> HIDE DEF D, q
<1>9. ASSUME NEW x \in new
      PROVE  Travelled(x, sent') /\ KnownOnItsWay(x, seen')
  <2>1. /\ x.frame = e.frame /\ x.whole = e.frame
        /\ x.offer = o /\ x.trail = << >>
    BY <1>9 DEF Transmit
  <2> HIDE DEF e
  <2>2. WholeOf(x) = q /\ DecodePacket(x.whole).err = Nil
    BY <1>3, <2>1 DEF WholeOf
  <2>3. Travelled(x, sent')
    BY <1>1, <1>4, <1>7, <1>8, <2>1, <2>2 DEF Travelled, e
  <2>4. KnownOnItsWay(x, seen')
    BY <1>5, <1>8, <2>1, <2>2 DEF KnownOnItsWay
  <2>5. QED
    BY <2>3, <2>4
<1> HIDE DEF new
<1>10. QED
  BY <1>1, <1>9, FlightKept DEF FlightInv

(* What a receiver accepts of a frame that has travelled. *)
LEMMA AcceptedPart ==
  ASSUME TypeOK, FlightInv, NEW m \in air, DropReason(m.to, m.frame) = Nil
  PROVE  LET p == DecodePacket(m.frame).packet
             w == WholeOf(m)
         IN  /\ p.Type = w.Type /\ p.PathHashSize = w.PathHashSize /\ p.Path = w.Path
             /\ p = [w EXCEPT !.Payload = p.Payload]
             /\ w \in Packet
             /\ IsBeginning(p.Payload, w.Payload)
             /\ Flooded(p) => p.Type # PayloadTrace
<1> DEFINE p == DecodePacket(m.frame).packet
           w == WholeOf(m)
<1>1. m.whole \in Seq(Byte)
  BY DEF TypeOK, Message
<1>2. DecodePacket(m.frame).err = Nil /\ ValidateFirmwareSemantics(p) = Nil
  BY AcceptFacts
<1>3. DecodePacket(m.whole).err = Nil /\ IsBeginning(m.frame, m.whole)
  BY DEF FlightInv, Travelled
<1>4. /\ DecodeError(m.frame) = Nil /\ p = PacketIn(m.frame)
      /\ DecodeError(m.whole) = Nil /\ w = PacketIn(m.whole)
  BY <1>2, <1>3 DEF DecodePacket, WholeOf
<1>5. /\ p = [w EXCEPT !.Payload = p.Payload]
      /\ IsBeginning(p.Payload, w.Payload)
  BY <1>1, <1>3, <1>4, CutShortensPayload
<1>6. w \in Packet
  BY <1>1, <1>3, DecodedFacts DEF WholeOf
<1> HIDE DEF p, w
<1>7. p.Type = w.Type /\ p.PathHashSize = w.PathHashSize /\ p.Path = w.Path
  BY <1>5, <1>6 DEF Packet
<1>8. Flooded(p) => p.Type # PayloadTrace
  BY <1>2, TraceFacts DEF Flooded, RouteDirect, RouteFlood, RouteTransportFlood
<1>9. QED
  BY <1>5, <1>6, <1>7, <1>8 DEF p, w

LEMMA FlightAccept ==
  ASSUME TypeOK, FlightInv, NEW m \in air, Accept(m), [Next]_vars
  PROVE  FlightInv'
<1> DEFINE n    == m.to
           p    == DecodePacket(m.frame).packet
           w    == WholeOf(m)
           y    == WithHop(p, n)
           next == EncodePacket(y)
           trail == Append(m.trail, n)
           pure == m.pure /\ m.frame = m.whole
           new  == Transmit(n, next.frame, m.offer, trail, pure)
<1>1. /\ DropReason(n, m.frame) = Nil
      /\ sent' = sent
      /\ seen' = [seen EXCEPT ![n] = @ \union {ContentDigest(p)}]
      /\ air' = (air \ {m}) \union (IF Flooded(p) /\ next.err = Nil THEN new ELSE {})
  BY DEF Accept
<1>2. /\ n \in Node /\ m.offer \in Offers /\ m.trail \in Seq(Node)
      /\ m.frame \in Seq(Byte)
  BY DEF TypeOK, Message
<1>3. Travelled(m, sent) /\ KnownOnItsWay(m, seen)
  BY DEF FlightInv
<1>4. /\ DecodePacket(m.frame).err = Nil
      /\ p \in Packet /\ ValidateWire(p) = Nil
      /\ ValidateFirmwareSemantics(p) = Nil
  BY <1>1, AcceptFacts
<1>5. /\ p.Type = w.Type /\ p.PathHashSize = w.PathHashSize /\ p.Path = w.Path
      /\ IsBeginning(p.Payload, w.Payload)
      /\ Flooded(p) => p.Type # PayloadTrace
  BY <1>1, AcceptedPart
<1>6. m.frame = m.whole => p = w
  BY DEF WholeOf
<1>7. CASE ~(Flooded(p) /\ next.err = Nil)
  <2>1. air' = air \ {m}
    BY <1>1, <1>7
  <2>2. QED
    BY <2>1, FlightKept DEF FlightInv
<1>8. CASE Flooded(p) /\ next.err = Nil
  <2>1. p.Type # PayloadTrace
    BY <1>5, <1>8
  <2>2. /\ DecodePacket(next.frame) = [err |-> Nil, packet |-> y]
        /\ y \in Packet /\ ValidateWire(y) = Nil
    BY <1>2, <1>4, <1>8, RelayedFacts
  <2>3. next.frame \in Seq(Byte)
    BY <1>8, <2>2, EncodedIsWire
  <2>4. y.Type = p.Type /\ y.Payload = p.Payload
    BY <1>2, <1>4, HopAddsOne
  <2>5. Carried(w, m.offer, m.trail) /\ EncodePacket(m.offer.packet).err = Nil
    BY <1>3 DEF Travelled
  <2> HIDE DEF p, w, n
  <2>6. Carried(y, m.offer, trail)
    BY <1>2, <1>4, <1>5, <2>1, <2>2, <2>5, CarriedByRelay
  <2>7. ContentDigest(y) = ContentDigest(p)
    BY <2>1, <2>4 DEF ContentDigest
  <2>8. IsBeginning(next.frame, next.frame)
    BY <2>3, WholeIsBeginning
  <2> HIDE DEF y, trail, next
  <2>9. ASSUME pure
        PROVE  /\ ContentDigest(p) \in seen'[m.offer.node]
               /\ \A j \in DOMAIN trail : ContentDigest(p) \in seen'[trail[j]]
    <3>1. p = w /\ ValidateFirmwareSemantics(w) = Nil /\ m.pure
      BY <1>4, <1>6, <2>9
    <3>2. KnownOnItsWay(m, seen')
      BY FlightKept
    <3>3. /\ ContentDigest(p) \in seen'[m.offer.node]
          /\ \A j \in DOMAIN m.trail : ContentDigest(p) \in seen'[m.trail[j]]
      BY <3>1, <3>2 DEF KnownOnItsWay, w
    <3>4. ContentDigest(p) \in seen'[n]
      BY <1>1, <1>2 DEF TypeOK
    <3>5. \A j \in DOMAIN trail : \/ j \in DOMAIN m.trail /\ trail[j] = m.trail[j]
                                  \/ trail[j] = n
      BY <1>2 DEF trail
    <3>6. QED
      BY <3>3, <3>4, <3>5
  <2> HIDE DEF pure
  <2>10. ASSUME NEW x \in new
         PROVE  Travelled(x, sent') /\ KnownOnItsWay(x, seen')
    <3>1. /\ x.frame = next.frame /\ x.whole = next.frame
          /\ x.offer = m.offer /\ x.trail = trail /\ x.pure = pure
      BY <2>10 DEF Transmit
    <3>2. WholeOf(x) = y /\ DecodePacket(x.whole).err = Nil
      BY <2>2, <3>1 DEF WholeOf
    <3>3. m.offer \in sent'
      BY <1>1, <1>3 DEF Travelled
    <3>4. Travelled(x, sent')
      BY <2>5, <2>6, <2>8, <3>1, <3>2, <3>3 DEF Travelled
    <3>5. KnownOnItsWay(x, seen')
      BY <2>7, <2>9, <3>1, <3>2 DEF KnownOnItsWay
    <3>6. QED
      BY <3>4, <3>5
  <2>11. air' = (air \ {m}) \union new
    BY <1>1, <1>8 DEF p, n, y, trail, next, pure
  <2> HIDE DEF new
  <2>12. QED
    BY <2>10, <2>11, FlightKept DEF FlightInv
<1>9. QED
  BY <1>7, <1>8

LEMMA FlightInvariant == Spec => []FlightInv
<1>1. Init => FlightInv
  BY DEF Init, FlightInv
<1>2. TypeOK /\ FlightInv /\ [Next]_vars => FlightInv'
  <2> SUFFICES ASSUME TypeOK, FlightInv, [Next]_vars PROVE FlightInv'
    OBVIOUS
  <2>1. ASSUME NEW o \in Offers, Send(o) PROVE FlightInv'
    BY <2>1, FlightSend
  <2>2. ASSUME NEW m \in air, Accept(m) PROVE FlightInv'
    BY <2>2, FlightAccept
  <2>3. ASSUME NEW m \in air, Drop(m) \/ Lose(m) PROVE FlightInv'
    <3>1. air' = air \ {m}
      BY <2>3 DEF Drop, Lose
    <3>2. QED
      BY <3>1, FlightKept DEF FlightInv
  <2>4. ASSUME NEW m \in air, Duplicate(m) PROVE FlightInv'
    BY <2>4, FlightDuplicate
  <2>5. ASSUME NEW m \in air, NEW k \in 0 .. MaxRemains, CutShort(m, k) PROVE FlightInv'
    BY <2>5, FlightCutShort
  <2>6. CASE UNCHANGED vars
    <3>1. air' = air
      BY <2>6 DEF vars
    <3>2. QED
      BY <3>1, FlightKept DEF FlightInv
  <2>7. QED
    BY <2>1, <2>2, <2>3, <2>4, <2>5, <2>6 DEF Next
<1>3. QED
  BY <1>1, <1>2, TypeCorrect, PTL DEF Spec

(* Wherever a frame is cut, after any number of relays, the receiver       *)
(* refuses it or reads the packet that was transmitted with a shorter      *)
(* payload: no payload byte becomes a hop, no hop becomes payload (the     *)
(* truncation checks of DecodePacket, packet.go:242).                      *)
THEOREM NothingIsForged == Spec => []CutNeverForges
<1>1. TypeOK /\ FlightInv => CutNeverForges
  <2> SUFFICES ASSUME TypeOK, FlightInv, NEW m \in air, DecodePacket(m.frame).err = Nil
               PROVE  LET p == DecodePacket(m.frame).packet
                          w == DecodePacket(m.whole).packet
                      IN  /\ p = [w EXCEPT !.Payload = p.Payload]
                          /\ \E k \in 0 .. Len(w.Payload) : p.Payload = SubSeq(w.Payload, 1, k)
    BY DEF CutNeverForges
  <2>1. m.whole \in Seq(Byte)
    BY DEF TypeOK, Message
  <2>2. DecodePacket(m.whole).err = Nil /\ IsBeginning(m.frame, m.whole)
    BY DEF FlightInv, Travelled
  <2>3. /\ DecodeError(m.frame) = Nil /\ DecodePacket(m.frame).packet = PacketIn(m.frame)
        /\ DecodeError(m.whole) = Nil /\ DecodePacket(m.whole).packet = PacketIn(m.whole)
    BY <2>2 DEF DecodePacket
  <2>4. /\ PacketIn(m.frame) = [PacketIn(m.whole) EXCEPT !.Payload = PacketIn(m.frame).Payload]
        /\ IsBeginning(PacketIn(m.frame).Payload, PacketIn(m.whole).Payload)
    BY <2>1, <2>2, <2>3, CutShortensPayload
  <2>5. QED
    BY <2>3, <2>4 DEF IsBeginning
<1>2. QED
  BY <1>1, TypeCorrect, FlightInvariant, PTL

(* In every mesh, at every hash size and after any number of relays, the   *)
(* hops that Hops reads from an intact frame are the sender's followed by  *)
(* the key prefixes of the relays, in their order.                         *)
THEOREM PathTellsTheTrail == Spec => []PathIsTrail
<1>1. TypeOK /\ FlightInv => PathIsTrail
  <2> SUFFICES ASSUME TypeOK, FlightInv, NEW m \in air, m.frame = m.whole
               PROVE  LET p == DecodePacket(m.frame).packet
                      IN  Hops(p) = Hops(WithDefaultHashSize(m.offer.packet)) \o
                                      [i \in DOMAIN m.trail |->
                                         HopHash(m.trail[i], p.PathHashSize)]
    BY DEF PathIsTrail, Intact
  <2> DEFINE w == WholeOf(m)
             o == m.offer.packet
  <2>1. Hops(w) = Hops(Normalised(o)) \o TrailHashes(m.trail, w.PathHashSize)
    BY DEF FlightInv, Travelled, Carried
  <2>2. o \in Packet /\ EncodePacket(o).err = Nil
    BY MeshAssumption DEF FlightInv, Travelled, TypeOK, Message
  <2>3. /\ Normalised(o).Path = WithDefaultHashSize(o).Path
        /\ Normalised(o).PathHashSize = WithDefaultHashSize(o).PathHashSize
    BY <2>2, NormalisedFacts DEF WithDefaultHashSize, Packet
  <2>4. Hops(Normalised(o)) = Hops(WithDefaultHashSize(o))
    BY <2>3, HopsOfSamePath
  <2>5. DecodePacket(m.frame).packet = w
    BY DEF WholeOf
  <2> HIDE DEF w, o
  <2>6. QED
    BY <2>1, <2>4, <2>5 DEF TrailHashes, o
<1>2. QED
  BY <1>1, TypeCorrect, FlightInvariant, PTL

(* No packet that was never cut is accepted by its sender or by a relay it *)
(* went through, in any mesh with any loops.                               *)
THEOREM NeverComesBack == Spec => []LoopFree
<1>1. Init => LoopFree
  BY DEF Init, LoopFree
<1>2. TypeOK /\ FlightInv /\ LoopFree /\ [Next]_vars => LoopFree'
  <2> SUFFICES ASSUME TypeOK, FlightInv, LoopFree, [Next]_vars PROVE LoopFree'
    OBVIOUS
  <2>1. CASE got' = got
    BY <2>1 DEF LoopFree
  <2>2. ASSUME NEW m \in air, Accept(m) PROVE LoopFree'
    <3> DEFINE e == Taken(m)
    <3>1. \A n \in Node : \A i \in DOMAIN got'[n] :
            \/ i \in DOMAIN got[n] /\ got'[n][i] = got[n][i]
            \/ n = m.to /\ got'[n][i] = e
      BY <2>2, AcceptAppends
    <3>2. DropReason(m.to, m.frame) = Nil
      BY <2>2 DEF Accept
    <3>3. ASSUME e.pure
          PROVE  m.to # e.offer.node /\ \A j \in DOMAIN e.trail : e.trail[j] # m.to
      <4>1. /\ m.pure /\ m.frame = m.whole
            /\ e.offer = m.offer /\ e.trail = m.trail
        BY <3>3 DEF Taken
      <4>2. /\ ContentDigest(WholeOf(m)) \notin seen[m.to]
            /\ ValidateFirmwareSemantics(WholeOf(m)) = Nil
        BY <3>2, <4>1, AcceptFacts DEF WholeOf
      <4>3. KnownOnItsWay(m, seen)
        BY DEF FlightInv
      <4> HIDE DEF e
      <4>4. QED
        BY <4>1, <4>2, <4>3 DEF KnownOnItsWay
    <3> HIDE DEF e
    <3>4. QED
      BY <3>1, <3>3 DEF LoopFree
  <2>3. QED
    BY <2>1, <2>2, GotOnlyByAccept
<1>3. QED
  BY <1>1, <1>2, TypeCorrect, FlightInvariant, PTL DEF Spec

-----------------------------------------------------------------------------
(* Contents and digests.                                                   *)
(* A digest can be read: its first byte is the type, and after the bytes   *)
(* that belong to the type comes the payload.                              *)
LEMMA DigestLayout ==
  ASSUME NEW p \in Packet, ValidateWire(p) = Nil
  PROVE  /\ ContentDigest(p)[1] = p.Type
         /\ p.Type = PayloadTrace => ContentDigest(p)[2] = TraceDescriptor(p)
<1>1. p.Payload \in Seq(Byte) /\ p.Type \in Byte
  BY DEF Packet
<1> DEFINE short == <<p.Type>>
           long == <<p.Type, TraceDescriptor(p), 0>>
           S == Byte \union {p.Type, TraceDescriptor(p), 0}
<1>2. short \in Seq(S) /\ long \in Seq(S) /\ p.Payload \in Seq(S)
  BY <1>1, SeqMonotonic
<1>3. /\ Len(short) = 1 /\ short[1] = p.Type
      /\ Len(long) = 3 /\ long[1] = p.Type /\ long[2] = TraceDescriptor(p)
  OBVIOUS
<1> HIDE DEF short, long, S
<1>4. 1 \in 1 .. Len(short) /\ 1 \in 1 .. Len(long) /\ 2 \in 1 .. Len(long)
  BY <1>3
<1>5. /\ (short \o p.Payload)[1] = p.Type
      /\ (long \o p.Payload)[1] = p.Type
      /\ (long \o p.Payload)[2] = TraceDescriptor(p)
  <2>1. (short \o p.Payload)[1] = short[1]
    BY <1>2, <1>4, PrefixKept
  <2>2. (long \o p.Payload)[1] = long[1]
    BY <1>2, <1>4, PrefixKept
  <2>3. (long \o p.Payload)[2] = long[2]
    BY <1>2, <1>4, PrefixKept
  <2>4. QED
    BY <1>3, <2>1, <2>2, <2>3
<1>6. ContentDigest(p) = IF p.Type = PayloadTrace THEN long \o p.Payload
                                                 ELSE short \o p.Payload
  BY DEF ContentDigest, short, long
<1>7. QED
  BY <1>5, <1>6

LEMMA DigestDeterminesContent ==
  ASSUME NEW p \in Packet, ValidateWire(p) = Nil,
         NEW q \in Packet, ValidateWire(q) = Nil,
         ContentDigest(p) = ContentDigest(q)
  PROVE  Content(p) = Content(q)
<1>1. p.PathHashSize \in 1 .. 3 /\ q.PathHashSize \in 1 .. 3
  BY WireFacts
<1>2. WithDefaultHashSize(p) = p /\ WithDefaultHashSize(q) = q
  BY <1>1 DEF WithDefaultHashSize
<1>3. p.Type = q.Type
  BY DigestLayout
<1>4. p.Payload \in Seq(Byte) /\ q.Payload \in Seq(Byte) /\ p.Type \in Byte
  BY DEF Packet
<1>5. ASSUME p.Type # PayloadTrace PROVE Content(p) = Content(q)
  <2> DEFINE h == <<p.Type>>
  <2>1. h \in Seq(Byte)
    BY <1>4
  <2>2. h \o p.Payload = h \o q.Payload
    BY <1>3, <1>5 DEF ContentDigest
  <2> HIDE DEF h
  <2>3. p.Payload = q.Payload
    BY <1>4, <2>1, <2>2, SamePrefix
  <2>4. QED
    BY <1>2, <1>3, <1>5, <2>3 DEF Content
<1>6. ASSUME p.Type = PayloadTrace PROVE Content(p) = Content(q)
  <2>1. TraceDescriptor(p) = TraceDescriptor(q)
    BY <1>3, <1>6, DigestLayout
  <2>2. HopCount(p) \in 0 .. 63 /\ HopCount(q) \in 0 .. 63
    BY HopsTimesSize
  <2>3. /\ TraceDescriptor(p) = (p.PathHashSize - 1) * 64 + HopCount(p)
        /\ TraceDescriptor(q) = (q.PathHashSize - 1) * 64 + HopCount(q)
    BY <1>2 DEF TraceDescriptor
  <2> DEFINE s == p.PathHashSize - 1
             t == q.PathHashSize - 1
  <2>4. s \in 0 .. 3 /\ t \in 0 .. 3
    BY <1>1
  <2> HIDE DEF s, t
  <2>5. /\ (s * 64 + HopCount(p)) \div 64 = s /\ (s * 64 + HopCount(p)) % 64 = HopCount(p)
        /\ (t * 64 + HopCount(q)) \div 64 = t /\ (t * 64 + HopCount(q)) % 64 = HopCount(q)
    BY <2>2, <2>4, TwoFieldByte
  <2>6. s = t /\ HopCount(p) = HopCount(q)
    BY <2>1, <2>3, <2>5 DEF s, t
  <2>7. p.PathHashSize = q.PathHashSize
    BY <1>1, <2>6 DEF s, t
  <2> DEFINE h == <<p.Type, TraceDescriptor(p), 0>>
             S == Byte \union {TraceDescriptor(p), 0}
  <2>8. h \in Seq(S) /\ p.Payload \in Seq(S) /\ q.Payload \in Seq(S)
    BY <1>4, SeqMonotonic
  <2>9. h \o p.Payload = h \o q.Payload
    BY <1>3, <1>6, <2>1 DEF ContentDigest
  <2> HIDE DEF h, S
  <2>10. p.Payload = q.Payload
    BY <2>8, <2>9, SamePrefix
  <2>11. QED
    BY <1>2, <1>3, <1>6, <2>6, <2>7, <2>10 DEF Content
<1>7. QED
  BY <1>5, <1>6

(* For any two frames on the air of any mesh, whatever their routes, codes *)
(* and hops: the same digest means the same content, and the same content  *)
(* the same digest (ContentDigest, content_hash.go; SHA-256 is taken to be *)
(* free of collisions).                                                    *)
THEOREM DigestTellsContent == Spec => []DigestIsContent
<1>1. TypeOK /\ AirIsCanonical => DigestIsContent
  <2> SUFFICES ASSUME TypeOK, AirIsCanonical, NEW m1 \in air, NEW m2 \in air
               PROVE  LET p1 == DecodePacket(m1.whole).packet
                          p2 == DecodePacket(m2.whole).packet
                      IN  DecodeContentDigest(m1.whole) = DecodeContentDigest(m2.whole)
                            <=> Content(p1) = Content(p2)
    BY DEF DigestIsContent
  <2>1. ASSUME NEW m \in air
        PROVE  LET p == DecodePacket(m.whole).packet
               IN  /\ p \in Packet /\ ValidateWire(p) = Nil
                   /\ DecodeContentDigest(m.whole)
                        = [err |-> Nil, digest |-> ContentDigest(p)]
    <3>1. m.whole \in Seq(Byte) /\ DecodePacket(m.whole).err = Nil
      BY DEF TypeOK, Message, AirIsCanonical, IsCanonical
    <3>2. QED
      BY <3>1, DecodedFacts DEF DecodeContentDigest
  <2> DEFINE p1 == DecodePacket(m1.whole).packet
             p2 == DecodePacket(m2.whole).packet
  <2>2. /\ p1 \in Packet /\ ValidateWire(p1) = Nil
        /\ p2 \in Packet /\ ValidateWire(p2) = Nil
    BY <2>1
  <2>3. DecodeContentDigest(m1.whole) = DecodeContentDigest(m2.whole)
          <=> ContentDigest(p1) = ContentDigest(p2)
    <3>1. /\ DecodeContentDigest(m1.whole) = [err |-> Nil, digest |-> ContentDigest(p1)]
          /\ DecodeContentDigest(m2.whole) = [err |-> Nil, digest |-> ContentDigest(p2)]
      BY <2>1
    <3> HIDE DEF p1, p2
    <3>2. QED
      BY <3>1
  <2> HIDE DEF p1, p2
  <2>4. ContentDigest(p1) = ContentDigest(p2) <=> Content(p1) = Content(p2)
    BY <2>2, ContentDeterminesDigest, DigestDeterminesContent
  <2>5. QED
    BY <2>3, <2>4 DEF p1, p2
<1>2. QED
  BY <1>1, TypeCorrect, AlwaysCanonical, PTL

-----------------------------------------------------------------------------
(* The mesh implements MeshDelivery.  The mapping forgets the air, the     *)
(* digests and the paths: Send offers a content, Accept accepts one, and   *)
(* every other step stutters.                                              *)

LEMMA ContentsAppend ==
  ASSUME NEW S, NEW s \in Seq(S), NEW e \in S
  PROVE  Contents(Append(s, e)) = Append(Contents(s), Content(e.packet))
<1> DEFINE c == Len(s)
           all == Append(s, e)
           T == {Content(x.packet) : x \in S}
           a == Contents(all)
           b == Append(Contents(s), Content(e.packet))
<1>1. /\ c \in Nat /\ all \in Seq(S) /\ Len(all) = c + 1
      /\ DOMAIN s = 1 .. c /\ DOMAIN all = 1 .. c + 1
      /\ all[c + 1] = e /\ \A i \in 1 .. c : all[i] = s[i] /\ s[i] \in S
  OBVIOUS
<1> HIDE DEF c, all
<1>2. /\ DOMAIN Contents(s) = 1 .. c
      /\ \A i \in 1 .. c : Contents(s)[i] = Content(s[i].packet)
      /\ Contents(s) = [i \in 1 .. c |-> Content(s[i].packet)]
  BY <1>1 DEF Contents
<1>3. \A i \in 1 .. c : Content(s[i].packet) \in T
  BY <1>1
<1> HIDE DEF T
<1>4. Contents(s) \in Seq(T) /\ Len(Contents(s)) = c
  <2>1. [i \in 1 .. c |-> Content(s[i].packet)] \in Seq(T)
    BY <1>1, <1>3
  <2>2. Contents(s) \in Seq(T)
    BY <1>2, <2>1
  <2>3. QED
    BY <1>1, <1>2, <2>2, LenProperties
<1>5. Content(e.packet) \in T
  BY DEF T
<1>6. /\ b \in Seq(T) /\ Len(b) = c + 1 /\ b[c + 1] = Content(e.packet)
      /\ \A i \in 1 .. c : b[i] = Contents(s)[i]
  BY <1>4, <1>5, AppendProperties
<1>7. /\ DOMAIN a = 1 .. c + 1
      /\ \A i \in 1 .. c + 1 : a[i] = Content(all[i].packet)
      /\ a = [i \in 1 .. c + 1 |-> Content(all[i].packet)]
  BY <1>1 DEF Contents
<1> HIDE DEF a, b
<1>8. \A i \in 1 .. c + 1 : i \in 1 .. c \/ i = c + 1
  BY <1>1
<1>9. \A i \in 1 .. c + 1 : a[i] = b[i]
  BY <1>1, <1>2, <1>6, <1>7, <1>8
<1>10. DOMAIN b = 1 .. c + 1
  BY <1>6, LenProperties
<1>11. b = [i \in 1 .. c + 1 |-> b[i]]
  BY <1>6, <1>10
<1>12. a = [i \in 1 .. c + 1 |-> b[i]]
  BY <1>7, <1>9
<1>13. a = b
  BY <1>11, <1>12
<1>14. QED
  BY <1>13 DEF a, b, all

(* What a receiver accepts is a beginning of the content of its offer. *)
LEMMA AcceptedIsBeginning ==
  ASSUME TypeOK, FlightInv, NEW m \in air, DropReason(m.to, m.frame) = Nil
  PROVE  Content(DecodePacket(m.frame).packet)
           \in Delivery!BeginningsOf(Content(m.offer.packet))
<1> DEFINE p == DecodePacket(m.frame).packet
           w == WholeOf(m)
           o == m.offer.packet
           q == Normalised(o)
<1>1. /\ p.Type = w.Type /\ p.PathHashSize = w.PathHashSize /\ p.Path = w.Path
      /\ IsBeginning(p.Payload, w.Payload)
  BY AcceptedPart
<1>2. o \in Packet /\ EncodePacket(o).err = Nil
  BY MeshAssumption DEF FlightInv, Travelled, TypeOK, Message
<1>3. /\ q.Type = o.Type /\ q.Payload = o.Payload /\ q.Path = o.Path
      /\ q.PathHashSize = WithDefaultHashSize(o).PathHashSize
      /\ q \in Packet
  BY <1>2, NormalisedFacts
<1>4. WithDefaultHashSize(p) = p
  BY AcceptFacts, DecodedFacts
<1>5. /\ w.Type = q.Type
      /\ IsBeginning(w.Payload, q.Payload)
      /\ w.Type = PayloadTrace => w = q
  BY DEF FlightInv, Travelled, Carried
<1> DEFINE v == WithDefaultHashSize(o)
<1>6. v.Type = o.Type /\ v.Payload = o.Payload /\ v.Path = o.Path
  BY <1>2 DEF WithDefaultHashSize, Packet
<1> HIDE DEF p, w, q, v, o
<1>7. o.Payload \in Seq(Byte)
  BY <1>2 DEF Packet
<1>8. IsBeginning(p.Payload, o.Payload)
  BY <1>1, <1>3, <1>5, <1>7, BeginningIsTransitive
<1>9. PICK k \in 0 .. Len(o.Payload) : p.Payload = SubSeq(o.Payload, 1, k)
  BY <1>8 DEF IsBeginning
<1> DEFINE mark(x) == IF x.Type = PayloadTrace THEN <<x.PathHashSize, HopCount(x)>>
                                               ELSE << >>
<1>10. mark(p) = mark(v)
  <2>1. p.Type = v.Type
    BY <1>1, <1>3, <1>5, <1>6
  <2>2. CASE p.Type # PayloadTrace
    BY <2>1, <2>2
  <2>3. CASE p.Type = PayloadTrace
    <3>1. w = q
      BY <1>1, <1>5, <2>3
    <3>2. p.PathHashSize = v.PathHashSize /\ p.Path = v.Path
      BY <1>1, <1>3, <1>6, <3>1 DEF v
    <3>3. HopCount(p) = HopCount(v)
      BY <3>2 DEF HopCount
    <3>4. QED
      BY <2>1, <3>2, <3>3
  <2>4. QED
    BY <2>2, <2>3
<1>11. /\ Content(p) = <<p.Type, p.Payload, mark(p)>>
       /\ Content(o) = <<v.Type, v.Payload, mark(v)>>
  BY <1>4 DEF Content, v
<1> HIDE DEF mark
<1>12. Content(p) = <<Content(o)[1], SubSeq(Content(o)[2], 1, k), Content(o)[3]>>
  BY <1>1, <1>3, <1>5, <1>6, <1>9, <1>10, <1>11
<1>13. k \in 0 .. Len(Content(o)[2])
  BY <1>6, <1>11
<1>14. Content(p) \in Delivery!BeginningsOf(Content(o))
  BY <1>12, <1>13 DEF Delivery!BeginningsOf
<1>15. QED
  BY <1>14 DEF p, o

LEMMA DeliversSend ==
  ASSUME TypeOK, NEW o \in Offers, Send(o)
  PROVE  Delivery!Next
<1> DEFINE c == Content(o.packet)
<1>1. c \in OfferedContents(Offers)
  BY DEF OfferedContents
<1>2. sent' = sent \union {o} /\ got' = got
  BY DEF Send
<1>3. OfferedContents(sent') = OfferedContents(sent) \union {c}
  BY <1>2 DEF OfferedContents
<1>4. [n \in Node |-> Contents(got'[n])] = [n \in Node |-> Contents(got[n])]
  BY <1>2
<1>5. Delivery!Offer(c)
  BY <1>3, <1>4 DEF Delivery!Offer
<1>6. QED
  BY <1>1, <1>5 DEF Delivery!Next

LEMMA DeliversAccept ==
  ASSUME TypeOK, FlightInv, AcceptanceInv, NEW m \in air, Accept(m)
  PROVE  Delivery!Next
<1> DEFINE to  == m.to
           p   == DecodePacket(m.frame).packet
           c   == Content(p)
           e   == Taken(m)
           acc == [n \in Node |-> Contents(got[n])]
<1>1. /\ DropReason(to, m.frame) = Nil
      /\ got' = [got EXCEPT ![to] = Append(@, e)]
      /\ sent' = sent
  BY DEF Accept, Taken
<1>2. to \in Node /\ got \in [Node -> Seq(Acceptance)]
  BY DEF TypeOK, Message
<1>3. /\ p \in Packet /\ ValidateWire(p) = Nil
      /\ ContentDigest(p) \notin seen[to]
  BY <1>1, AcceptFacts
<1>4. c \in Delivery!BeginningsOf(Content(m.offer.packet))
  BY <1>1, AcceptedIsBeginning
<1>5. Content(m.offer.packet) \in OfferedContents(sent)
  BY DEF FlightInv, Travelled, OfferedContents
<1>6. e.packet = p
  BY DEF Taken
<1> HIDE DEF to, p, e
<1>7. /\ got[to] \in Seq(Acceptance)
      /\ got'[to] = Append(got[to], e)
      /\ \A n \in Node \ {to} : got'[n] = got[n]
  BY <1>1, <1>2
<1>8. Contents(got'[to]) = Append(Contents(got[to]), c)
  <2>1. e \in Acceptance
    <3>1. m.offer \in Offers /\ m.trail \in Seq(Node) /\ m.pure \in BOOLEAN
      BY DEF TypeOK, Message
    <3>2. (IF Flooded(p) THEN EncodePacket(WithHop(p, m.to)).err ELSE "NotFlooded") \in
             WireErrors \union {Nil, "NotFlooded"}
      BY ErrorsOfEncode
    <3>3. (m.pure /\ m.frame = m.whole) \in BOOLEAN
      BY <3>1
    <3>4. QED
      BY <1>3, <3>1, <3>2, <3>3 DEF Acceptance, Taken, e, p
  <2>2. QED
    BY <1>6, <1>7, <2>1, ContentsAppend
<1>9. [n \in Node |-> Contents(got'[n])] = [acc EXCEPT ![to] = Append(@, c)]
  <2> DEFINE new == [n \in Node |-> Contents(got'[n])]
             upd == [acc EXCEPT ![to] = Append(@, c)]
  <2>1. new[to] = upd[to]
    BY <1>2, <1>8
  <2>2. \A n \in Node \ {to} : new[n] = upd[n]
    BY <1>7
  <2>3. new = [n \in Node |-> new[n]] /\ upd = [n \in Node |-> upd[n]]
    OBVIOUS
  <2> HIDE DEF new, upd
  <2>4. \A n \in Node : new[n] = upd[n]
    BY <2>1, <2>2
  <2>5. new = upd
    BY <2>3, <2>4
  <2>6. QED
    BY <2>5 DEF new, upd
<1>10. \A i \in DOMAIN acc[to] : acc[to][i] # c
  <2> SUFFICES ASSUME NEW i \in DOMAIN Contents(got[to]), Contents(got[to])[i] = c
               PROVE  FALSE
    BY <1>2
  <2> DEFINE q == got[to][i].packet
  <2>1. i \in DOMAIN got[to] /\ Content(q) = c
    BY DEF Contents
  <2>2. q \in Packet
    <3>1. got[to][i] \in Acceptance
      BY <1>7, <2>1
    <3>2. QED
      BY <3>1 DEF Acceptance
  <2>3. ValidateWire(q) = Nil /\ ContentDigest(q) \in seen[to]
    BY <1>2, <2>1 DEF AcceptanceInv, Remembered
  <2> HIDE DEF q
  <2>4. ContentDigest(q) = ContentDigest(p)
    BY <1>3, <2>1, <2>2, <2>3, ContentDeterminesDigest
  <2>5. QED
    BY <1>3, <2>3, <2>4
<1>11. Delivery!Accept(to, c)
  BY <1>1, <1>9, <1>10 DEF Delivery!Accept
<1>12. QED
  BY <1>2, <1>4, <1>5, <1>11 DEF Delivery!Next

(* FloodMesh implements MeshDelivery: in every mesh, over every radio, a   *)
(* node accepts a content only when somebody has offered it, up to bytes   *)
(* missing at its end, and never a second time.                            *)
THEOREM MeshDelivers == Spec => Delivers
<1>1. Init => Delivery!Init
  <2>1. OfferedContents({}) = {}
    BY DEF OfferedContents
  <2>2. Contents(<< >>) = << >>
    BY DEF Contents
  <2>3. ASSUME Init PROVE [n \in Node |-> Contents(got[n])] = [n \in Node |-> << >>]
    BY <2>2, <2>3 DEF Init
  <2>4. QED
    BY <2>1, <2>3 DEF Init, Delivery!Init
<1>2. TypeOK /\ FlightInv /\ AcceptanceInv /\ [Next]_vars => [Delivery!Next]_Delivery!vars
  <2> SUFFICES ASSUME TypeOK, FlightInv, AcceptanceInv, [Next]_vars
               PROVE  Delivery!Next \/ UNCHANGED Delivery!vars
    OBVIOUS
  <2>1. ASSUME NEW o \in Offers, Send(o) PROVE Delivery!Next
    BY <2>1, DeliversSend
  <2>2. ASSUME NEW m \in air, Accept(m) PROVE Delivery!Next
    BY <2>2, DeliversAccept
  <2>3. CASE UNCHANGED <<sent, got>>
    BY <2>3 DEF Delivery!vars
  <2>4. ASSUME NEW m \in air,
               \/ Drop(m) \/ Lose(m) \/ Duplicate(m)
               \/ \E k \in 0 .. MaxRemains : CutShort(m, k)
        PROVE  UNCHANGED <<sent, got>>
    BY <2>4 DEF Drop, Lose, Duplicate, CutShort
  <2>5. CASE UNCHANGED vars
    BY <2>3, <2>5 DEF vars
  <2>6. QED
    BY <2>1, <2>2, <2>3, <2>4, <2>5 DEF Next
<1>3. QED
  BY <1>1, <1>2, TypeCorrect, FlightInvariant, AcceptanceInvariant, PTL
     DEF Spec, Delivers, Delivery!Spec
=============================================================================
