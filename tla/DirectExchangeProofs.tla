------------------------ MODULE DirectExchangeProofs ------------------------
(***************************************************************************)
(* Theorems about DirectExchange, for every plan, hash size and radio:     *)
(* texts come from their writers, acknowledgements are for texts that were *)
(* read, and learned paths lead to their peers.                            *)
(***************************************************************************)
EXTENDS DirectExchange, PacketProofs

(* Packets that EncodePacket takes. *)
PayloadBytes(p) == IF p.Type = PayloadAck THEN AckSize ELSE PayloadSize(p.Payload)

FitsIn(p) ==
  /\ IsPathOf(p)
  /\ Len(p.Path) <= MaxPathBytes
  /\ HopCount(p) <= MaxHopCount
  /\ PayloadBytes(p) <= MaxPayloadBytes

IsPacket(p) ==
  /\ p = Packed(p.Route, p.Type, p.PathHashSize, p.Path, p.Payload)
  /\ p.Route \in {RouteFlood, RouteDirect}
  /\ p.Type \in {PayloadTxtMsg, PayloadAck, PayloadPath}
  /\ PayloadBytes(p) \in Nat
  /\ FitsIn(p)

LEMMA PackedFields ==
  ASSUME NEW r, NEW type, NEW size, NEW path, NEW payload,
         NEW p, p = Packed(r, type, size, path, payload)
  PROVE  /\ p.Version = 0 /\ p.Route = r /\ p.Type = type /\ p.PathHashSize = size
         /\ p.Path = path /\ p.Payload = payload
         /\ p = Packed(p.Route, p.Type, p.PathHashSize, p.Path, p.Payload)
BY DEF Packed, CurrentPayloadVer

LEMMA Encodable ==
  ASSUME NEW r \in {RouteFlood, RouteDirect},
         NEW type \in {PayloadTxtMsg, PayloadAck, PayloadPath},
         NEW size, NEW path \in Seq(Byte), NEW payload,
         NEW p, p = Packed(r, type, size, path, payload), PayloadBytes(p) \in Nat
  PROVE  EncodeError(p) = Nil <=> FitsIn(p)
<1> DEFINE n == PayloadBytes(p)
           q == [p EXCEPT !.Payload = Zeros(n)]
<1>1. /\ p.Version = 0 /\ p.Route = r /\ p.Type = type /\ p.PathHashSize = size
      /\ p.Path = path
  BY PackedFields
<1>2. /\ q.Version = p.Version /\ q.Route = p.Route /\ q.Type = p.Type
      /\ q.PathHashSize = p.PathHashSize /\ q.Path = p.Path /\ q.Payload = Zeros(n)
  BY DEF Packed
<1>3. EncodeError(p) = ValidateWire(q)
  BY DEF EncodeError, PayloadBytes
<1>4. n \in Nat
  OBVIOUS
<1> HIDE DEF n, q
<1>5. Len(q.Payload) = n
  BY <1>2, <1>4, ZerosFacts
<1>6. ~ (q.Version # CurrentPayloadVer)
  BY <1>1, <1>2 DEF CurrentPayloadVer
<1>7. ~ (q.Route > RouteTransportDirect)
  BY <1>1, <1>2 DEF RouteTransportDirect, RouteFlood, RouteDirect
<1>8. ~ (q.Type > 15)
  BY <1>1, <1>2 DEF PayloadTxtMsg, PayloadAck, PayloadPath
<1>9. HopCount(q) = HopCount(p)
  BY <1>2, HopsOfSamePath
<1>10. Len(p.Path) \in Nat /\ p.Path \in Seq(Byte)
  BY <1>1
<1>11. CASE p.PathHashSize \notin 1 .. 3
  <2>1. ValidateWire(q) # Nil
    BY <1>2, <1>6, <1>7, <1>8, <1>11 DEF ValidateWire, Nil
  <2>2. ~ FitsIn(p)
    BY <1>11 DEF FitsIn, IsPathOf
  <2>3. QED
    BY <1>3, <2>1, <2>2
<1>12. CASE p.PathHashSize \in 1 .. 3
  <2>1. p.PathHashSize \in Nat /\ HopCount(p) = Len(p.Path) \div p.PathHashSize
    BY <1>12 DEF HopCount
  <2>2. HopCount(p) \in Nat
    BY <1>10, <1>12, <2>1, QuotientBound
  <2>3. ValidateWire(q) = Nil <=>
          /\ Len(p.Path) % p.PathHashSize = 0
          /\ ~ (Len(p.Path) > MaxPathBytes)
          /\ ~ (n > MaxPayloadBytes)
          /\ ~ (HopCount(p) > MaxHopCount)
    BY <1>2, <1>5, <1>6, <1>7, <1>8, <1>9, <1>12 DEF ValidateWire, Nil
  <2>4. FitsIn(p) <=>
          /\ Len(p.Path) % p.PathHashSize = 0
          /\ Len(p.Path) <= MaxPathBytes
          /\ HopCount(p) <= MaxHopCount
          /\ n <= MaxPayloadBytes
    BY <1>10, <1>12 DEF FitsIn, IsPathOf, n
  <2>5. /\ ~ (Len(p.Path) > MaxPathBytes) <=> Len(p.Path) <= MaxPathBytes
        /\ ~ (n > MaxPayloadBytes) <=> n <= MaxPayloadBytes
        /\ ~ (HopCount(p) > MaxHopCount) <=> HopCount(p) <= MaxHopCount
    BY <1>4, <1>10, <2>2, EnvelopeLimits DEF MaxHopCount
  <2>6. QED
    BY <1>3, <2>3, <2>4, <2>5
<1>13. QED
  BY <1>11, <1>12

LEMMA PacketFacts ==
  ASSUME NEW p, IsPacket(p)
  PROVE  /\ EncodeError(p) = Nil
         /\ p.PathHashSize \in 1 .. 3
         /\ p.Path \in Seq(Byte)
         /\ Len(p.Path) <= MaxPathBytes
         /\ HopCount(p) <= MaxHopCount
         /\ IsPathOf(p)
<1>1. /\ p = Packed(p.Route, p.Type, p.PathHashSize, p.Path, p.Payload)
      /\ p.Route \in {RouteFlood, RouteDirect}
      /\ p.Type \in {PayloadTxtMsg, PayloadAck, PayloadPath}
      /\ PayloadBytes(p) \in Nat
      /\ FitsIn(p)
  BY DEF IsPacket
<1>2. p.Path \in Seq(Byte) /\ IsPathOf(p) /\ p.PathHashSize \in 1 .. 3
  BY <1>1 DEF FitsIn, IsPathOf
<1>3. EncodeError(p) = Nil
  BY <1>1, <1>2, Encodable
<1>4. QED
  BY <1>1, <1>2, <1>3 DEF FitsIn

(* A path of no hops fits with every payload that fits.                    *)
LEMMA EmptyPathFits ==
  ASSUME NEW r \in {RouteFlood, RouteDirect},
         NEW type \in {PayloadTxtMsg, PayloadAck, PayloadPath},
         NEW size \in 1 .. 3, NEW payload,
         NEW p, p = Packed(r, type, size, << >>, payload),
         PayloadBytes(p) \in Nat, PayloadBytes(p) <= MaxPayloadBytes
  PROVE  IsPacket(p)
<1>1. /\ p.Route = r /\ p.Type = type /\ p.PathHashSize = size /\ p.Path = << >>
      /\ p = Packed(p.Route, p.Type, p.PathHashSize, p.Path, p.Payload)
  BY PackedFields
<1>2. Len(p.Path) = 0 /\ p.Path \in Seq(Byte)
  <2>1. Len(<< >>) = 0 /\ << >> \in Seq(Byte)
    OBVIOUS
  <2>2. p.Path = << >>
    BY <1>1
  <2>3. QED
    BY <2>1, <2>2, Zenon
<1>3. 0 % size = 0 /\ 0 \div size = 0
  OBVIOUS
<1>4. IsPathOf(p) /\ HopCount(p) = 0
  BY <1>1, <1>2, <1>3 DEF IsPathOf, HopCount
<1>5. FitsIn(p)
  BY <1>2, <1>4, EnvelopeLimits DEF FitsIn, MaxHopCount
<1>6. QED
  BY <1>1, <1>5 DEF IsPacket

-----------------------------------------------------------------------------
(* Where a path leads. *)
LEMMA PlanFacts ==
  ASSUME plan \in Plans
  PROVE  /\ KeyOf \in [Node -> Byte \X Byte \X Byte]
         /\ Neighbours \in [Node -> SUBSET Node]
         /\ Drafts \subseteq
              [from : Node, to : Node, text : Seq(Byte), ts : Word, txtType : Byte]
         /\ \A d, e \in Drafts :
              TextNumber(TrimNuls(d.text)) = TextNumber(TrimNuls(e.text)) =>
                TrimNuls(d.text) = TrimNuls(e.text)
         /\ MaxAttempts \in Nat /\ plan.maxLost \in Nat
<1>1. IsPlan(plan)
  BY ExchangeAssumption
<1>2. QED
  BY <1>1, Zenon DEF IsPlan, KeyOf, Neighbours, Drafts, MaxAttempts, Node

LEMMA DraftFacts ==
  ASSUME plan \in Plans, NEW d \in Drafts
  PROVE  /\ d.from \in Node /\ d.to \in Node
         /\ d.text \in Seq(Byte) /\ d.ts \in Word /\ d.txtType \in Byte
<1>1. d \in [from : Node, to : Node, text : Seq(Byte), ts : Word, txtType : Byte]
  BY PlanFacts
<1>2. QED
  BY <1>1

LEMMA KeyIsBytes ==
  ASSUME plan \in Plans, NEW n \in Node
  PROVE  /\ KeyOf[n] \in Seq(Byte) /\ Len(KeyOf[n]) = 3
         /\ KeyOf[n][1] \in Byte /\ KeyOf[n][2] \in Byte /\ KeyOf[n][3] \in Byte
         /\ KeyOf[n] = <<KeyOf[n][1], KeyOf[n][2], KeyOf[n][3]>>
<1> DEFINE key == KeyOf[n]
<1>1. key \in Byte \X Byte \X Byte
  BY PlanFacts
<1> HIDE DEF key
<1>2. /\ key = <<key[1], key[2], key[3]>>
      /\ key[1] \in Byte /\ key[2] \in Byte /\ key[3] \in Byte
  BY <1>1
<1>3. \A a, b, c \in Byte : <<a, b, c>> \in Seq(Byte) /\ Len(<<a, b, c>>) = 3
  OBVIOUS
<1>4. key \in Seq(Byte) /\ Len(key) = 3
  BY <1>2, <1>3
<1>5. QED
  BY <1>2, <1>4 DEF key

LEMMA HopHashFacts ==
  ASSUME plan \in Plans, NEW n \in Node, NEW size \in 1 .. 3
  PROVE  HopHash(n, size) \in Seq(Byte) /\ Len(HopHash(n, size)) = size
<1>1. KeyOf[n] \in Seq(Byte) /\ Len(KeyOf[n]) = 3
  BY KeyIsBytes
<1> DEFINE key == KeyOf[n]
<1> HIDE DEF key
<1>2. key \in Seq(Byte) /\ size \in 0 .. Len(key)
  BY <1>1 DEF key
<1>3. SubSeq(key, 1, size) \in Seq(Byte) /\ Len(SubSeq(key, 1, size)) = size
  BY <1>2, BeginningFacts
<1>4. QED
  BY <1>3 DEF HopHash, key

(* The nodes v are a way from one node to another, hop by hop. *)
IsWay(v, hops, size, from, to) ==
  /\ v \in [1 .. Len(hops) -> Node]
  /\ \A i \in DOMAIN hops : HopHash(v[i], size) = hops[i]
  /\ \A i \in 0 .. Len(hops) :
       (IF i = Len(hops) THEN to ELSE v[i + 1])
         \in Neighbours[IF i = 0 THEN from ELSE v[i]]

LEMMA LeadsByWay ==
  ASSUME NEW path, NEW size, NEW from, NEW to
  PROVE  Leads(Route(path, size), from, to) <=>
           \E v : IsWay(v, Cut(path, size), size, from, to)
<1>1. Route(path, size).path = path /\ Route(path, size).size = size
  BY DEF Route
<1>2. QED
  BY <1>1, Zenon DEF Leads, IsWay

LEMMA LeadsNext ==
  ASSUME plan \in Plans, NEW size \in 1 .. 3, NEW n \in Node, NEW to \in Neighbours[n]
  PROVE  Leads(Route(<< >>, size), n, to)
<1> DEFINE p == [Path |-> << >>, PathHashSize |-> size]
           v == [i \in 1 .. 0 |-> n]
<1>1. p.Path = << >> /\ p.PathHashSize = size
  OBVIOUS
<1>2. Len(<< >>) = 0 /\ << >> \in Seq(Byte) /\ 0 % size = 0 /\ 0 \div size = 0
  OBVIOUS
<1>3. IsPathOf(p) /\ HopCount(p) = 0
  BY <1>1, <1>2 DEF IsPathOf, HopCount
<1> HIDE DEF p
<1>4. Hops(p) \in Seq(Seq(Byte)) /\ Len(Hops(p)) = 0
  BY <1>3, HopsOfPath
<1> DEFINE hops == Cut(<< >>, size)
<1>5. hops = Hops(p)
  BY DEF Cut, p
<1> HIDE DEF hops
<1>6. hops \in Seq(Seq(Byte)) /\ Len(hops) = 0 /\ DOMAIN hops = {}
  BY <1>4, <1>5
<1>7. v \in [1 .. Len(hops) -> Node]
  BY <1>6
<1>8. \A i \in 0 .. Len(hops) : i = 0 /\ i = Len(hops)
  BY <1>6
<1> HIDE DEF v
<1>9. IsWay(v, hops, size, n, to)
  BY <1>6, <1>7, <1>8 DEF IsWay
<1>10. QED
  BY <1>9, LeadsByWay DEF hops

LEMMA LeadsFurther ==
  ASSUME plan \in Plans, NEW p, IsPathOf(p), NEW from \in Node, NEW n \in Node,
         Leads(Route(p.Path, p.PathHashSize), from, n), NEW to \in Neighbours[n]
  PROVE  Leads(Route(p.Path \o HopHash(n, p.PathHashSize), p.PathHashSize), from, to)
<1> DEFINE size == p.PathHashSize
           h    == HopHash(n, size)
           q    == [Path |-> p.Path \o h, PathHashSize |-> size]
           hops == Hops(p)
           more == Append(hops, h)
           c    == Len(hops)
<1>1. size \in 1 .. 3
  BY DEF IsPathOf
<1>2. h \in Seq(Byte) /\ Len(h) = size
  BY <1>1, HopHashFacts
<1>3. q.Path = p.Path \o h /\ q.PathHashSize = size
  OBVIOUS
<1>4. hops \in Seq(Seq(Byte))
  BY HopsOfPath
<1> HIDE DEF h, q
<1>5. Hops(q) = more
  BY <1>2, <1>3, HopsOfLongerPath
<1>6. Cut(p.Path, size) = hops
  BY HopsOfSamePath DEF Cut
<1>7. Cut(p.Path \o h, size) = more
  BY <1>5 DEF Cut, q
<1>8. PICK v : IsWay(v, hops, size, from, n)
  BY <1>6, LeadsByWay
<1>9. /\ more \in Seq(Seq(Byte)) /\ Len(more) = c + 1 /\ c \in Nat
      /\ \A i \in 1 .. c : more[i] = hops[i]
      /\ more[c + 1] = h
  BY <1>2, <1>4, AppendProperties
<1>10. DOMAIN hops = 1 .. c /\ DOMAIN more = 1 .. c + 1
  BY <1>4, <1>9
<1> HIDE DEF hops, more, c
<1> DEFINE w == [i \in 1 .. c + 1 |-> IF i = c + 1 THEN n ELSE v[i]]
<1>11. /\ v \in [1 .. c -> Node]
       /\ \A i \in 1 .. c : HopHash(v[i], size) = hops[i]
       /\ \A i \in 0 .. c : (IF i = c THEN n ELSE v[i + 1])
                              \in Neighbours[IF i = 0 THEN from ELSE v[i]]
  <2>1. Len(hops) = c
    BY DEF c
  <2>2. /\ v \in [1 .. Len(hops) -> Node]
        /\ \A i \in DOMAIN hops : HopHash(v[i], size) = hops[i]
        /\ \A i \in 0 .. Len(hops) : (IF i = Len(hops) THEN n ELSE v[i + 1])
                                         \in Neighbours[IF i = 0 THEN from ELSE v[i]]
    BY <1>8, Zenon DEF IsWay
  <2>3. QED
    BY <1>10, <2>1, <2>2, Zenon
<1>12. \A i \in 1 .. c : v[i] \in Node
  BY <1>11
<1>13. \A i \in 1 .. c : w[i] = v[i]
  BY <1>9
<1>14. w[c + 1] = n
  BY <1>9
<1>15. w \in [1 .. c + 1 -> Node]
  <2>1. \A i \in 1 .. c + 1 : (IF i = c + 1 THEN n ELSE v[i]) \in Node
    BY <1>9, <1>12
  <2>2. QED
    BY <2>1
<1> HIDE DEF w, h
<1>16. \A i \in 1 .. c + 1 : HopHash(w[i], size) = more[i]
  <2>1. ASSUME NEW i \in 1 .. c + 1 PROVE HopHash(w[i], size) = more[i]
    <3>1. CASE i \in 1 .. c
      BY <1>9, <1>11, <1>13, <3>1
    <3>2. CASE i = c + 1
      BY <1>9, <1>14, <3>2 DEF h
    <3>3. QED
      BY <1>9, <3>1, <3>2
  <2>2. QED
    BY <2>1
<1>17. ASSUME NEW i \in 0 .. c + 1
       PROVE  (IF i = c + 1 THEN to ELSE w[i + 1])
                \in Neighbours[IF i = 0 THEN from ELSE w[i]]
  <2>1. CASE i = c + 1
    <3>1. i # 0 /\ w[i] = n
      BY <1>9, <1>14, <2>1
    <3>2. QED
      BY <2>1, <3>1
  <2>2. CASE i = c
    <3>1. i # c + 1 /\ w[i + 1] = n
      BY <1>9, <1>14, <2>2
    <3>2. n \in Neighbours[IF i = 0 THEN from ELSE v[i]]
      BY <1>9, <1>11, <2>2
    <3>3. i # 0 => w[i] = v[i]
      BY <1>9, <1>13, <2>2
    <3>4. QED
      BY <3>1, <3>2, <3>3
  <2>3. CASE i \in 0 .. c /\ i # c
    <3>1. i # c + 1 /\ i + 1 \in 1 .. c /\ (i # 0 => i \in 1 .. c)
      BY <1>9, <2>3
    <3>2. v[i + 1] \in Neighbours[IF i = 0 THEN from ELSE v[i]]
      BY <1>11, <2>3
    <3>3. w[i + 1] = v[i + 1] /\ (i # 0 => w[i] = v[i])
      BY <1>13, <3>1
    <3>4. QED
      BY <3>1, <3>2, <3>3
  <2>4. QED
    BY <1>9, <2>1, <2>2, <2>3
<1>18. IsWay(w, more, size, from, to)
  BY <1>9, <1>10, <1>15, <1>16, <1>17, Zenon DEF IsWay
<1>19. QED
  BY <1>7, <1>18, LeadsByWay DEF h

-----------------------------------------------------------------------------
(* What a node has decoded is what a writer wrote to it, in one of the     *)
(* attempts it has made; hist is how often each draft was sent.            *)
TextOf(d, k) ==
  DirectTextPayload(SharedSecret(d.from, d.to), Hash(d.to), Hash(d.from),
                    d.text, d.ts, d.txtType, k)

ReadAs(d, k) ==
  [from |-> d.from,
   text |-> [DestHash |-> Hash(d.to), SrcHash |-> Hash(d.from), Timestamp |-> d.ts,
             TxtType |-> d.txtType % 64, Attempt |-> k % 4, Text |-> TrimNuls(d.text)]]

WasRead(n, t, hist) ==
  \E d \in Drafts : \E k \in 0 .. MaxAttempts - 1 :
    k < hist[d] /\ d.to = n /\ t = ReadAs(d, k)

(* The packets on the air, each with the place it comes from: a text has   *)
(* been sent by its writer, a returned path made by a node that the text   *)
(* or the path it answers has reached over it, an acknowledgement by a     *)
(* node that has the text.  Whoever made a packet has its content in done; *)
(* the path of a flooded packet leads from there to its receiver.          *)
CameBy(m, from) ==
  m.packet.Route = RouteFlood =>
    Leads(Route(m.packet.Path, m.packet.PathHashSize), from, m.to)

IsSent(m, hist, done) ==
  \E d \in Drafts : \E k \in 0 .. MaxAttempts - 1 :
    /\ k < hist[d]
    /\ m.packet.Payload = TextOf(d, k)
    /\ Content(m.packet) \in done[d.from]
    /\ CameBy(m, d.from)

CrcOf(t) == TextAckCRC(t.text.Timestamp, t.text.Attempt, t.text.Text, KeyOf[t.from])

Return(n, peer, q, extraType, extra) ==
  Seal(SharedSecret(n, peer), Hash(peer), Hash(n),
       PathPlaintext(q.Path, q.PathHashSize, extraType, extra))

PathIn(p) == [Path |-> ReturnedPath(p.Payload).Path, PathHashSize |-> p.PathHashSize]

IsReturned(m, done, read) ==
  LET q == PathIn(m.packet)
  IN  /\ m.packet.Route = RouteFlood
      /\ IsPathOf(q) /\ HopCount(q) <= MaxHopCount
      /\ \E n \in Node, peer \in Node :
           /\ Leads(Route(q.Path, q.PathHashSize), peer, n)
           /\ Content(m.packet) \in done[n]
           /\ CameBy(m, n)
           /\ \/ m.packet.Payload = Return(n, peer, q, 0, << >>)
              \/ \E t \in read[n], random \in RandomBytes :
                   /\ t.from = peer
                   /\ m.packet.Payload =
                        Return(n, peer, q, PayloadAck, AckExtra(CrcOf(t), random))

IsAnswer(m, read) ==
  \E n \in Node : \E t \in read[n] : m.packet.Payload = AckPayload(CrcOf(t))

Sound(m, hist, done, read) ==
  /\ m.to \in Node
  /\ IsPacket(m.packet)
  /\ \/ m.packet.Type = PayloadTxtMsg /\ IsSent(m, hist, done)
     \/ m.packet.Type = PayloadPath   /\ IsReturned(m, done, read)
     \/ m.packet.Type = PayloadAck    /\ IsAnswer(m, read)

(* Learned paths are paths, and lead to their peers. *)
LeadsThere(r, n, peer) ==
  r.known =>
    /\ IsPathOf([Path |-> r.path, PathHashSize |-> r.size])
    /\ Leads(Route(r.path, r.size), n, peer)
    /\ r = Route(r.path, r.size)

(* An attempt counts as acknowledged only when its text was read. *)
WasAnswered(c, read) ==
  \E d \in Drafts : Alike(d, c[1]) /\ \E t \in read[d.to] :
    /\ t.from = d.from
    /\ t.text.Text = TrimNuls(d.text)
    /\ t.text.Timestamp = d.ts
    /\ t.text.Attempt = c[2] % 4

HaveNodes(done, read, ways) ==
  /\ DOMAIN done = Node
  /\ DOMAIN read = Node
  /\ DOMAIN ways = Node
  /\ \A n \in Node : DOMAIN ways[n] = Node

(* The invariant.  TypeOK and the three properties follow from it; none of *)
(* them is inductive, since they say nothing of what is on the air.  It is *)
(* stated of the values of the variables, under the plan.                  *)
Holds(hist, done, read, ways, sky, acked) ==
  /\ hist \in [Drafts -> 0 .. MaxAttempts]
  /\ acked \subseteq Drafts \X (0 .. MaxAttempts - 1)
  /\ HaveNodes(done, read, ways)
  /\ \A n \in Node : \A t \in read[n] : WasRead(n, t, hist)
  /\ \A n \in Node, peer \in Node : LeadsThere(ways[n][peer], n, peer)
  /\ \A m \in sky : Sound(m, hist, done, read)
  /\ \A c \in acked : WasAnswered(c, read)

ExchangeInv ==
  /\ plan \in Plans
  /\ lost \in 0 .. plan.maxLost
  /\ Holds(attempts, seen, inbox, route, air, confirmed)

(* A step does not change the plan, and so nothing that is said of it.     *)
LEMMA SamePlan ==
  ASSUME plan' = plan
  PROVE  /\ Node' = Node /\ Drafts' = Drafts /\ MaxAttempts' = MaxAttempts
         /\ Neighbours' = Neighbours /\ KeyOf' = KeyOf
BY DEF Node, Drafts, MaxAttempts, Neighbours, KeyOf

LEMMA SameNames ==
  ASSUME plan' = plan
  PROVE  /\ \A n : Hash(n)' = Hash(n)
         /\ \A n, size : HopHash(n, size)' = HopHash(n, size)
         /\ \A t : CrcOf(t)' = CrcOf(t)
         /\ \A d, e : Alike(d, e)' <=> Alike(d, e)
BY SamePlan DEF Hash, HopHash, CrcOf, Alike

LEMMA SameWays ==
  ASSUME plan' = plan
  PROVE  \A r, from, to : Leads(r, from, to)' <=> Leads(r, from, to)
BY SamePlan, SameNames DEF Leads

LEMMA SamePayloads ==
  ASSUME plan' = plan
  PROVE  /\ \A d, k : TextOf(d, k)' = TextOf(d, k)
         /\ \A d, k : ReadAs(d, k)' = ReadAs(d, k)
         /\ \A n, peer, q, extraType, extra :
              Return(n, peer, q, extraType, extra)' = Return(n, peer, q, extraType, extra)
         /\ \A m, from : CameBy(m, from)' <=> CameBy(m, from)
<1>1. \A d, k : TextOf(d, k)' = TextOf(d, k)
  BY SameNames DEF TextOf
<1>2. \A d, k : ReadAs(d, k)' = ReadAs(d, k)
  BY SameNames DEF ReadAs
<1>3. \A n, peer, q, extraType, extra :
        Return(n, peer, q, extraType, extra)' = Return(n, peer, q, extraType, extra)
  BY SameNames DEF Return
<1>4. \A m, from : CameBy(m, from)' <=> CameBy(m, from)
  BY SameWays DEF CameBy
<1>5. QED
  BY <1>1, <1>2, <1>3, <1>4

LEMMA SameSound ==
  ASSUME plan' = plan, NEW m
  PROVE  Sound(m, attempts, seen, inbox)' <=> Sound(m, attempts', seen', inbox')
<1>1. IsSent(m, attempts, seen)' <=> IsSent(m, attempts', seen')
  BY SamePlan, SamePayloads DEF IsSent
<1>2. IsReturned(m, seen, inbox)' <=> IsReturned(m, seen', inbox')
  BY SamePlan, SameNames, SameWays, SamePayloads DEF IsReturned
<1>3. IsAnswer(m, inbox)' <=> IsAnswer(m, inbox')
  BY SamePlan, SameNames DEF IsAnswer
<1>4. QED
  BY <1>1, <1>2, <1>3, SamePlan DEF Sound

LEMMA SameInvariant ==
  ASSUME plan' = plan, plan \in Plans, lost' \in 0 .. plan.maxLost,
         Holds(attempts', seen', inbox', route', air', confirmed')
  PROVE  ExchangeInv'
<1>1. \A n, t : WasRead(n, t, attempts)' <=> WasRead(n, t, attempts')
  BY SamePlan, SamePayloads DEF WasRead
<1>2. \A r, n, peer : LeadsThere(r, n, peer)' <=> LeadsThere(r, n, peer)
  BY SameWays DEF LeadsThere
<1>3. \A m : Sound(m, attempts, seen, inbox)' <=> Sound(m, attempts', seen', inbox')
  BY SameSound
<1>4. \A c : WasAnswered(c, inbox)' <=> WasAnswered(c, inbox')
  BY SamePlan, SameNames DEF WasAnswered
<1>5. HaveNodes(seen, inbox, route)' <=> HaveNodes(seen', inbox', route')
  BY SamePlan DEF HaveNodes
<1>6. Holds(attempts, seen, inbox, route, air, confirmed)'
  BY <1>1, <1>2, <1>3, <1>4, <1>5, SamePlan DEF Holds
<1>7. QED
  BY <1>6 DEF ExchangeInv

-----------------------------------------------------------------------------
(* What was true stays true: nodes unlearn nothing. *)
Grown(hist, done, read, hist2, done2, read2) ==
  /\ \A d \in Drafts : \A k \in 0 .. MaxAttempts - 1 : k < hist[d] => k < hist2[d]
  /\ \A n \in Node : done[n] \subseteq done2[n]
  /\ \A n \in Node : read[n] \subseteq read2[n]

LEMMA SoundKept ==
  ASSUME plan \in Plans, NEW hist, NEW done, NEW read, NEW hist2, NEW done2, NEW read2,
         Grown(hist, done, read, hist2, done2, read2),
         NEW m, Sound(m, hist, done, read)
  PROVE  Sound(m, hist2, done2, read2)
<1>1. IsSent(m, hist, done) => IsSent(m, hist2, done2)
  <2>1. SUFFICES ASSUME IsSent(m, hist, done) PROVE IsSent(m, hist2, done2)
    OBVIOUS
  <2>2. PICK d \in Drafts, k \in 0 .. MaxAttempts - 1 :
          /\ k < hist[d]
          /\ m.packet.Payload = TextOf(d, k)
          /\ Content(m.packet) \in done[d.from]
          /\ CameBy(m, d.from)
    BY <2>1 DEF IsSent
  <2>3. d.from \in Node
    BY DraftFacts
  <2>4. k < hist2[d] /\ Content(m.packet) \in done2[d.from]
    BY <2>2, <2>3 DEF Grown
  <2>5. QED
    BY <2>2, <2>4 DEF IsSent
<1>2. IsReturned(m, done, read) => IsReturned(m, done2, read2)
  BY Zenon DEF IsReturned, Grown
<1>3. IsAnswer(m, read) => IsAnswer(m, read2)
  BY DEF IsAnswer, Grown
<1>4. QED
  BY <1>1, <1>2, <1>3 DEF Sound

LEMMA WasReadKept ==
  ASSUME NEW hist, NEW done, NEW read, NEW hist2, NEW done2, NEW read2,
         Grown(hist, done, read, hist2, done2, read2),
         NEW n, NEW t, WasRead(n, t, hist)
  PROVE  WasRead(n, t, hist2)
BY DEF Grown, WasRead

LEMMA WasAnsweredKept ==
  ASSUME plan \in Plans, NEW hist, NEW done, NEW read, NEW hist2, NEW done2, NEW read2,
         Grown(hist, done, read, hist2, done2, read2),
         NEW c, WasAnswered(c, read)
  PROVE  WasAnswered(c, read2)
<1>1. \A d \in Drafts : d.to \in Node
  BY DraftFacts
<1>2. QED
  BY <1>1, Zenon DEF Grown, WasAnswered

(* A node that makes packets has their contents, and its neighbours get    *)
(* them.                                                                   *)
LEMMA MarkFacts ==
  ASSUME DOMAIN seen = Node, NEW n \in Node, NEW packets, NEW done, done = Mark(n, packets)
  PROVE  /\ DOMAIN done = Node
         /\ \A x \in Node : seen[x] \subseteq done[x]
         /\ \A p \in packets : Content(p) \in done[n]
BY DEF Mark

LEMMA AirSound ==
  ASSUME plan \in Plans, NEW hist, NEW done, NEW read, NEW hist2, NEW done2, NEW read2,
         Grown(hist, done, read, hist2, done2, read2),
         \A m \in air : Sound(m, hist, done, read),
         NEW n \in Node, NEW packets,
         \A m \in [to : Neighbours[n], packet : packets] : Sound(m, hist2, done2, read2),
         NEW sky, sky \subseteq air \union Heard(n, packets, seen)
  PROVE  \A m \in sky : Sound(m, hist2, done2, read2)
<1>1. \A m \in air : Sound(m, hist2, done2, read2)
  BY SoundKept
<1>2. Heard(n, packets, seen) \subseteq [to : Neighbours[n], packet : packets]
  BY DEF Heard
<1>3. QED
  BY <1>1, <1>2

(* The parts of the invariant that a step leaves alone. *)
LEMMA HoldsFacts ==
  ASSUME ExchangeInv
  PROVE  /\ plan \in Plans
         /\ lost \in 0 .. plan.maxLost
         /\ attempts \in [Drafts -> 0 .. MaxAttempts]
         /\ confirmed \subseteq Drafts \X (0 .. MaxAttempts - 1)
         /\ DOMAIN seen = Node /\ DOMAIN inbox = Node
         /\ DOMAIN route = Node /\ \A n \in Node : DOMAIN route[n] = Node
         /\ \A n \in Node : \A t \in inbox[n] : WasRead(n, t, attempts)
         /\ \A n \in Node, peer \in Node : LeadsThere(route[n][peer], n, peer)
         /\ \A m \in air : Sound(m, attempts, seen, inbox)
         /\ \A c \in confirmed : WasAnswered(c, inbox)
BY Zenon DEF ExchangeInv, Holds, HaveNodes

LEMMA NextKeeps ==
  ASSUME ExchangeInv, plan' = plan, lost' \in 0 .. plan.maxLost,
         Grown(attempts, seen, inbox, attempts', seen', inbox'),
         attempts' \in [Drafts -> 0 .. MaxAttempts],
         HaveNodes(seen', inbox', route'),
         \A n \in Node : \A t \in inbox'[n] :
           t \in inbox[n] \/ WasRead(n, t, attempts'),
         \A n \in Node, peer \in Node :
           route'[n][peer] = route[n][peer] \/ LeadsThere(route'[n][peer], n, peer),
         \A m \in air' : Sound(m, attempts', seen', inbox'),
         \A c \in confirmed' :
           \/ c \in confirmed
           \/ c \in Drafts \X (0 .. MaxAttempts - 1) /\ WasAnswered(c, inbox')
  PROVE  ExchangeInv'
<1>1. /\ plan \in Plans
      /\ confirmed \subseteq Drafts \X (0 .. MaxAttempts - 1)
      /\ \A n \in Node : \A t \in inbox[n] : WasRead(n, t, attempts)
      /\ \A n \in Node, peer \in Node : LeadsThere(route[n][peer], n, peer)
      /\ \A c \in confirmed : WasAnswered(c, inbox)
  BY HoldsFacts
<1>2. \A n \in Node : \A t \in inbox'[n] : WasRead(n, t, attempts')
  BY <1>1, WasReadKept
<1>3. \A n \in Node, peer \in Node : LeadsThere(route'[n][peer], n, peer)
  BY <1>1
<1>4. \A c \in confirmed' : WasAnswered(c, inbox')
  BY <1>1, WasAnsweredKept
<1>5. confirmed' \subseteq Drafts \X (0 .. MaxAttempts - 1)
  BY <1>1
<1>6. Holds(attempts', seen', inbox', route', air', confirmed')
  BY <1>2, <1>3, <1>4, <1>5, Zenon DEF Holds
<1>7. QED
  BY <1>1, <1>6, SameInvariant

-----------------------------------------------------------------------------
LEMMA InitHolds ==
  ASSUME Init
  PROVE  ExchangeInv
<1>1. /\ plan \in Plans /\ air = {} /\ confirmed = {} /\ lost = 0
      /\ seen = [n \in Node |-> {}]
      /\ attempts = [d \in Drafts |-> 0]
      /\ inbox = [n \in Node |-> {}]
      /\ route = [n \in Node |-> [peer \in Node |-> NoRoute]]
  BY Zenon DEF Init
<1>2. MaxAttempts \in Nat /\ plan.maxLost \in Nat
  BY <1>1, PlanFacts
<1>3. attempts \in [Drafts -> 0 .. MaxAttempts]
  BY <1>1, <1>2
<1>4. HaveNodes(seen, inbox, route)
  BY <1>1 DEF HaveNodes
<1>5. \A n \in Node, peer \in Node : LeadsThere(route[n][peer], n, peer)
  BY <1>1 DEF LeadsThere, NoRoute
<1>6. \A n \in Node : inbox[n] = {}
  BY <1>1
<1>7. Holds(attempts, seen, inbox, route, air, confirmed)
  BY <1>1, <1>3, <1>4, <1>5, <1>6, Zenon DEF Holds
<1>8. QED
  BY <1>1, <1>2, <1>7 DEF ExchangeInv

LEMMA TextPacketFacts ==
  ASSUME ExchangeInv, NEW d \in Drafts, NEW r \in {NoRoute, route[d.from][d.to]},
         NEW k \in Nat, NEW p, p = TextPacket(d, k, r)
  PROVE  /\ p = Packed(p.Route, PayloadTxtMsg, p.PathHashSize, p.Path, TextOf(d, k))
         /\ p.Route \in {RouteFlood, RouteDirect}
         /\ p.Path \in Seq(Byte)
         /\ p.Type = PayloadTxtMsg /\ p.Payload = TextOf(d, k)
         /\ PayloadBytes(p) \in Nat
         /\ p.Route = RouteFlood => p.Path = << >> /\ p.PathHashSize = HashSize
<1>1. plan \in Plans /\ d.from \in Node /\ d.to \in Node
  BY HoldsFacts, DraftFacts
<1>2. CASE r.known
  <2>1. r # NoRoute
    BY <1>2 DEF NoRoute
  <2>2. LeadsThere(r, d.from, d.to)
    BY <1>1, <2>1, HoldsFacts
  <2>3. r.path \in Seq(Byte)
    BY <1>2, <2>2 DEF LeadsThere, IsPathOf
  <2>4. p = Packed(RouteDirect, PayloadTxtMsg, r.size, r.path, TextOf(d, k))
    BY <1>2 DEF TextPacket, TextOf
  <2>5. QED
    <3>1. /\ p.Route = RouteDirect /\ p.Path = r.path /\ p.PathHashSize = r.size
          /\ p.Type = PayloadTxtMsg /\ p.Payload = TextOf(d, k)
      BY <2>4, PackedFields
    <3>2. PayloadBytes(p) = 4 + Len(TextOf(d, k).plain)
      BY <3>1 DEF PayloadBytes, PayloadSize, CipherMACSize, PayloadTxtMsg, PayloadAck
    <3>3. Len(TextOf(d, k).plain) \in Nat
      BY <1>1, DraftFacts, TextIsRead DEF TextOf
    <3>4. RouteDirect # RouteFlood
      BY DEF RouteDirect, RouteFlood
    <3>5. QED
      BY <2>3, <2>4, <3>1, <3>2, <3>3, <3>4
<1>3. CASE ~ r.known
  <2>1. p = Packed(RouteFlood, PayloadTxtMsg, HashSize, << >>, TextOf(d, k))
    BY <1>3 DEF TextPacket, TextOf, Flooded
  <2>2. /\ p.Route = RouteFlood /\ p.Path = << >> /\ p.PathHashSize = HashSize
        /\ p.Type = PayloadTxtMsg /\ p.Payload = TextOf(d, k)
    BY <2>1, PackedFields
  <2>3. PayloadBytes(p) = 4 + Len(TextOf(d, k).plain)
    BY <2>2 DEF PayloadBytes, PayloadSize, CipherMACSize, PayloadTxtMsg, PayloadAck
  <2>4. Len(TextOf(d, k).plain) \in Nat
    BY <1>1, DraftFacts, TextIsRead DEF TextOf
  <2>5. << >> \in Seq(Byte)
    OBVIOUS
  <2>6. QED
    <3>1. p.Path \in Seq(Byte)
      BY <2>2, <2>5, Zenon
    <3>2. p = Packed(p.Route, PayloadTxtMsg, p.PathHashSize, p.Path, TextOf(d, k))
      BY <2>1, <2>2, Zenon
    <3>3. PayloadBytes(p) \in Nat
      BY <2>3, <2>4
    <3>4. QED
      BY <2>2, <3>1, <3>2, <3>3, Zenon
<1>4. QED
  BY <1>2, <1>3

LEMMA SendKeeps ==
  ASSUME ExchangeInv, NEW d \in Drafts, NEW r \in {NoRoute, route[d.from][d.to]},
         SendText(d, r)
  PROVE  ExchangeInv'
<1> DEFINE n    == d.from
           k    == attempts[d]
           p    == TextPacket(d, k, r)
           done == Mark(n, {p})
           hist == [attempts EXCEPT ![d] = @ + 1]
<1>1. /\ attempts' = hist /\ seen' = done /\ air' = air \union Heard(n, {p}, seen)
      /\ plan' = plan /\ confirmed' = confirmed /\ inbox' = inbox /\ route' = route
      /\ lost' = lost
      /\ k < MaxAttempts /\ EncodeError(p) = Nil
  BY DEF SendText
<1>2. /\ plan \in Plans /\ n \in Node /\ attempts \in [Drafts -> 0 .. MaxAttempts]
      /\ DOMAIN seen = Node /\ MaxAttempts \in Nat
      /\ DOMAIN inbox = Node /\ DOMAIN route = Node
      /\ \A x \in Node : DOMAIN route[x] = Node
      /\ lost \in 0 .. plan.maxLost
  BY HoldsFacts, DraftFacts, PlanFacts
<1>3. /\ k \in Nat /\ k \in 0 .. MaxAttempts - 1
      /\ hist \in [Drafts -> 0 .. MaxAttempts] /\ k < hist[d]
      /\ \A e \in Drafts : attempts[e] \in Nat /\ hist[e] \in Nat /\ attempts[e] <= hist[e]
  BY <1>1, <1>2
<1> HIDE DEF p, k, hist
<1>4. /\ p = Packed(p.Route, PayloadTxtMsg, p.PathHashSize, p.Path, TextOf(d, k))
      /\ p.Route \in {RouteFlood, RouteDirect}
      /\ p.Path \in Seq(Byte)
      /\ p.Type = PayloadTxtMsg /\ p.Payload = TextOf(d, k)
      /\ PayloadBytes(p) \in Nat
      /\ p.Route = RouteFlood => p.Path = << >> /\ p.PathHashSize = HashSize
  BY <1>3, TextPacketFacts DEF p
<1>5. IsPacket(p)
  <2>1. FitsIn(p)
    BY <1>1, <1>4, Encodable
  <2>2. QED
    BY <1>4, <2>1 DEF IsPacket
<1>6. /\ DOMAIN done = Node
      /\ \A x \in Node : seen[x] \subseteq done[x]
      /\ Content(p) \in done[n]
  BY <1>2, MarkFacts
<1> HIDE DEF done
<1>7. Grown(attempts, seen, inbox, hist, done, inbox)
  BY <1>3, <1>6 DEF Grown
<1>8. \A m \in [to : Neighbours[n], packet : {p}] : Sound(m, hist, done, inbox)
  <2>1. SUFFICES ASSUME NEW m \in [to : Neighbours[n], packet : {p}]
                 PROVE  Sound(m, hist, done, inbox)
    OBVIOUS
  <2>2. m.packet = p /\ m.to \in Neighbours[n]
    OBVIOUS
  <2>3. m.to \in Node
    BY <1>2, <2>2, PlanFacts
  <2>4. CameBy(m, n)
    <3>1. SUFFICES ASSUME p.Route = RouteFlood
                   PROVE  Leads(Route(p.Path, p.PathHashSize), n, m.to)
      BY <2>2 DEF CameBy
    <3>2. p.Path = << >> /\ p.PathHashSize = HashSize /\ HashSize \in 1 .. 3
      BY <1>4, <3>1, ExchangeAssumption
    <3>3. QED
      BY <1>2, <2>2, <3>2, LeadsNext
  <2>5. IsSent(m, hist, done)
    BY <1>3, <1>4, <1>6, <2>2, <2>4 DEF IsSent
  <2>6. QED
    BY <1>4, <1>5, <2>2, <2>3, <2>5 DEF Sound
<1>9. \A m \in air' : Sound(m, hist, done, inbox)
  <2>1. \A m \in air : Sound(m, attempts, seen, inbox)
    BY HoldsFacts
  <2>2. air' \subseteq air \union Heard(n, {p}, seen)
    BY <1>1
  <2>3. QED
    BY <1>2, <1>7, <1>8, <2>1, <2>2, AirSound
<1>10. HaveNodes(done, inbox, route)
  BY <1>2, <1>6 DEF HaveNodes
<1>11. QED
  BY <1>1, <1>2, <1>3, <1>7, <1>9, <1>10, NextKeeps

(* What a node does with a packet: it may read a text, learn a path, take  *)
(* attempts for acknowledged, and send packets of its own or on.           *)
LEMMA AnswerKeeps ==
  ASSUME ExchangeInv, NEW m \in air, NEW packets, Answer(m, packets),
         plan' = plan, attempts' = attempts, lost' = lost,
         NEW done, done = Mark(m.to, {m.packet} \union packets),
         NEW read, inbox' = read, DOMAIN read = Node,
         \A n \in Node : inbox[n] \subseteq read[n],
         \A n \in Node : \A t \in read[n] : t \in inbox[n] \/ WasRead(n, t, attempts),
         NEW ways, route' = ways, DOMAIN ways = Node,
         \A n \in Node : DOMAIN ways[n] = Node,
         \A n \in Node, peer \in Node :
           ways[n][peer] = route[n][peer] \/ LeadsThere(ways[n][peer], n, peer),
         \A c \in confirmed' :
           \/ c \in confirmed
           \/ c \in Drafts \X (0 .. MaxAttempts - 1) /\ WasAnswered(c, read),
         \A o \in [to : Neighbours[m.to], packet : packets] :
           Sound(o, attempts, done, read)
  PROVE  ExchangeInv'
<1> DEFINE n == m.to
<1>1. seen' = done /\ air' = (air \ {m}) \union Heard(n, packets, seen)
  BY DEF Answer
<1>2. /\ plan \in Plans /\ lost \in 0 .. plan.maxLost /\ DOMAIN seen = Node
      /\ attempts \in [Drafts -> 0 .. MaxAttempts]
      /\ \A o \in air : Sound(o, attempts, seen, inbox)
  BY HoldsFacts
<1>3. n \in Node
  BY <1>2 DEF Sound
<1>4. DOMAIN done = Node /\ \A x \in Node : seen[x] \subseteq done[x]
  BY <1>2, <1>3, MarkFacts
<1>5. Grown(attempts, seen, inbox, attempts, done, read)
  BY <1>4 DEF Grown
<1> DEFINE sky == air'
<1>6. \A o \in sky : Sound(o, attempts, done, read)
  <2>1. sky \subseteq air \union Heard(n, packets, seen)
    BY <1>1
  <2>2. \A o \in [to : Neighbours[n], packet : packets] : Sound(o, attempts, done, read)
    OBVIOUS
  <2>3. \A o \in air : Sound(o, attempts, seen, inbox)
    BY <1>2
  <2> HIDE DEF n, sky
  <2>4. \A o \in air : Sound(o, attempts, done, read)
    BY <1>2, <1>5, <2>3, SoundKept
  <2>5. Heard(n, packets, seen) \subseteq [to : Neighbours[n], packet : packets]
    BY DEF Heard
  <2>6. QED
    BY <2>1, <2>2, <2>4, <2>5
<1>7. HaveNodes(done, read, ways)
  BY <1>4 DEF HaveNodes
<1>8. QED
  BY <1>1, <1>2, <1>5, <1>6, <1>7, NextKeeps

LEMMA RelayKeeps ==
  ASSUME ExchangeInv, NEW m \in air, NEW packets, Answer(m, packets),
         UNCHANGED <<plan, attempts, confirmed, inbox, route, lost>>,
         \A o \in [to : Neighbours[m.to], packet : packets] :
           Sound(o, attempts, Mark(m.to, {m.packet} \union packets), inbox)
  PROVE  ExchangeInv'
<1> DEFINE done == Mark(m.to, {m.packet} \union packets)
<1>1. \A o \in [to : Neighbours[m.to], packet : packets] : Sound(o, attempts, done, inbox)
  OBVIOUS
<1> HIDE DEF done
<1>2. /\ DOMAIN inbox = Node /\ DOMAIN route = Node
      /\ \A n \in Node : DOMAIN route[n] = Node
  BY HoldsFacts
<1>3. \A n \in Node : inbox[n] \subseteq inbox[n]
  OBVIOUS
<1>4. /\ plan' = plan /\ attempts' = attempts /\ confirmed' = confirmed
      /\ inbox' = inbox /\ route' = route /\ lost' = lost
  OBVIOUS
<1>5. QED
  BY <1>1, <1>2, <1>3, <1>4, AnswerKeeps DEF done

LEMMA FewerKeeps ==
  ASSUME ExchangeInv, air' \subseteq air, lost' \in 0 .. plan.maxLost,
         UNCHANGED <<plan, seen, attempts, confirmed, inbox, route>>
  PROVE  ExchangeInv'
<1>1. /\ DOMAIN seen = Node /\ DOMAIN inbox = Node /\ DOMAIN route = Node
      /\ \A n \in Node : DOMAIN route[n] = Node
      /\ attempts \in [Drafts -> 0 .. MaxAttempts]
      /\ \A o \in air : Sound(o, attempts, seen, inbox)
  BY HoldsFacts
<1>2. Grown(attempts, seen, inbox, attempts, seen, inbox)
  BY DEF Grown
<1>3. HaveNodes(seen, inbox, route)
  BY <1>1 DEF HaveNodes
<1>4. /\ plan' = plan /\ seen' = seen /\ attempts' = attempts /\ confirmed' = confirmed
      /\ inbox' = inbox /\ route' = route
  OBVIOUS
<1>5. \A o \in air' : Sound(o, attempts, seen, inbox)
  BY <1>1
<1>6. QED
  BY <1>1, <1>2, <1>3, <1>4, <1>5, NextKeeps

LEMMA DroppedKeeps ==
  ASSUME ExchangeInv, NEW m \in air, Ignore(m) \/ Lose(m)
  PROVE  ExchangeInv'
<1>1. lost \in 0 .. plan.maxLost /\ plan.maxLost \in Nat
  BY HoldsFacts, PlanFacts
<1>2. CASE Ignore(m)
  <2>1. air' \subseteq air /\ lost' = lost
        /\ UNCHANGED <<plan, seen, attempts, confirmed, inbox, route>>
    BY <1>2 DEF Ignore
  <2>2. QED
    BY <1>1, <2>1, FewerKeeps
<1>3. CASE Lose(m)
  <2>1. air' \subseteq air /\ lost < plan.maxLost /\ lost' = lost + 1
        /\ UNCHANGED <<plan, seen, attempts, confirmed, inbox, route>>
    BY <1>3 DEF Lose
  <2>2. lost' \in 0 .. plan.maxLost
    BY <1>1, <2>1
  <2>3. QED
    BY <2>1, <2>2, FewerKeeps
<1>4. QED
  BY <1>2, <1>3

-----------------------------------------------------------------------------
(* Relays change the path of a packet only. *)
LEMMA CarriedOn ==
  ASSUME ExchangeInv, NEW m \in air, NEW p, p = m.packet,
         NEW path \in Seq(Byte),
         NEW q, q = Packed(p.Route, p.Type, p.PathHashSize, path, p.Payload),
         PayloadBytes(q) \in Nat => FitsIn(q),
         NEW o, o.packet = q, o.to \in Node,
         \A from \in Node : CameBy(m, from) => CameBy(o, from),
         NEW done, \A x \in Node : seen[x] \subseteq done[x]
  PROVE  Sound(o, attempts, done, inbox)
<1>1. plan \in Plans /\ Sound(m, attempts, seen, inbox)
  BY HoldsFacts
<1>2. IsPacket(p)
  BY <1>1 DEF Sound
<1>3. /\ q.Route = p.Route /\ q.Type = p.Type /\ q.PathHashSize = p.PathHashSize
      /\ q.Path = path /\ q.Payload = p.Payload
      /\ q = Packed(q.Route, q.Type, q.PathHashSize, q.Path, q.Payload)
  BY PackedFields
<1>4. PayloadBytes(q) = PayloadBytes(p)
  BY <1>3 DEF PayloadBytes
<1>5. IsPacket(q)
  BY <1>2, <1>3, <1>4, Zenon DEF IsPacket
<1>6. /\ o.packet.Payload = m.packet.Payload /\ o.packet.Type = m.packet.Type
      /\ o.packet.Route = m.packet.Route
      /\ Content(o.packet) = Content(m.packet) /\ PathIn(o.packet) = PathIn(m.packet)
  BY <1>3 DEF Content, PathIn
<1>7. IsSent(m, attempts, seen) => IsSent(o, attempts, done)
  <2>1. SUFFICES ASSUME IsSent(m, attempts, seen) PROVE IsSent(o, attempts, done)
    OBVIOUS
  <2>2. PICK d \in Drafts, k \in 0 .. MaxAttempts - 1 :
          /\ k < attempts[d]
          /\ m.packet.Payload = TextOf(d, k)
          /\ Content(m.packet) \in seen[d.from]
          /\ CameBy(m, d.from)
    BY <2>1 DEF IsSent
  <2>3. d.from \in Node
    BY <1>1, DraftFacts
  <2>4. Content(o.packet) \in done[d.from] /\ CameBy(o, d.from)
    BY <1>6, <2>2, <2>3
  <2>5. QED
    BY <1>6, <2>2, <2>4 DEF IsSent
<1>8. IsReturned(m, seen, inbox) => IsReturned(o, done, inbox)
  BY <1>6, Zenon DEF IsReturned
<1>9. IsAnswer(m, inbox) => IsAnswer(o, inbox)
  BY <1>6, Zenon DEF IsAnswer
<1>10. QED
  BY <1>1, <1>5, <1>6, <1>7, <1>8, <1>9 DEF Sound

LEMMA PathChanged ==
  ASSUME NEW p, p = Packed(p.Route, p.Type, p.PathHashSize, p.Path, p.Payload),
         NEW path
  PROVE  [p EXCEPT !.Path = path] =
           Packed(p.Route, p.Type, p.PathHashSize, path, p.Payload)
<1>1. \A r, type, size, old, payload :
        [Packed(r, type, size, old, payload) EXCEPT !.Path = path] =
          Packed(r, type, size, path, payload)
  BY DEF Packed
<1> DEFINE r       == p.Route
           type    == p.Type
           size    == p.PathHashSize
           old     == p.Path
           payload == p.Payload
<1>2. p = Packed(r, type, size, old, payload)
  OBVIOUS
<1> HIDE DEF r, type, size, old, payload
<1>3. [p EXCEPT !.Path = path] = Packed(r, type, size, path, payload)
  BY <1>1, <1>2
<1>4. QED
  BY <1>3 DEF r, type, size, payload

LEMMA FloodKeeps ==
  ASSUME ExchangeInv, NEW m \in air, Flood(m)
  PROVE  ExchangeInv'
<1> DEFINE p       == m.packet
           n       == m.to
           h       == HopHash(n, p.PathHashSize)
           path    == p.Path \o h
           q       == [p EXCEPT !.Path = @ \o h]
           packets == IF EncodeError(q) = Nil THEN {q} ELSE {}
           done    == Mark(n, {p} \union packets)
<1>1. /\ p.Route = RouteFlood /\ Answer(m, packets)
      /\ UNCHANGED <<plan, attempts, confirmed, inbox, route, lost>>
  BY DEF Flood
<1>2. plan \in Plans /\ DOMAIN seen = Node /\ Sound(m, attempts, seen, inbox)
  BY HoldsFacts
<1>3. IsPacket(p) /\ n \in Node
  BY <1>2 DEF Sound
<1>4. /\ IsPathOf(p) /\ p.PathHashSize \in 1 .. 3 /\ p.Path \in Seq(Byte)
      /\ p.Type \in {PayloadTxtMsg, PayloadAck, PayloadPath}
      /\ p = Packed(p.Route, p.Type, p.PathHashSize, p.Path, p.Payload)
  BY <1>3, PacketFacts DEF IsPacket
<1>5. h \in Seq(Byte)
  BY <1>2, <1>3, <1>4, HopHashFacts
<1> HIDE DEF h
<1>6. path \in Seq(Byte)
  BY <1>4, <1>5, TwoParts
<1>7. q = Packed(p.Route, p.Type, p.PathHashSize, path, p.Payload)
  <2>1. q = [p EXCEPT !.Path = path]
    OBVIOUS
  <2>2. QED
    BY <1>4, <2>1, PathChanged
<1>8. q.Path = path /\ q.PathHashSize = p.PathHashSize /\ q.Route = p.Route
  BY <1>7, PackedFields
<1>9. \A x \in Node : seen[x] \subseteq done[x]
  BY <1>2, <1>3, MarkFacts
<1> HIDE DEF q, path, done
<1>10. ASSUME NEW o \in [to : Neighbours[n], packet : packets]
       PROVE  Sound(o, attempts, done, inbox)
  <2>1. o.packet \in packets /\ o.to \in Neighbours[n]
    OBVIOUS
  <2>2. o.packet = q /\ EncodeError(q) = Nil
    BY <2>1
  <2>3. o.to \in Node
    BY <1>2, <1>3, <2>1, PlanFacts
  <2>4. PayloadBytes(q) \in Nat => FitsIn(q)
    BY <1>1, <1>4, <1>6, <1>7, <2>2, Encodable
  <2>5. ASSUME NEW from \in Node, CameBy(m, from)
        PROVE  CameBy(o, from)
    <3>1. Leads(Route(p.Path, p.PathHashSize), from, n)
      BY <1>1, <2>5 DEF CameBy
    <3>2. Leads(Route(path, p.PathHashSize), from, o.to)
      BY <1>2, <1>3, <1>4, <2>1, <3>1, LeadsFurther DEF path, h
    <3>3. QED
      BY <1>8, <2>2, <3>2 DEF CameBy
  <2>6. QED
    BY <1>6, <1>7, <1>9, <2>2, <2>3, <2>4, <2>5, CarriedOn
<1>11. QED
  BY <1>1, <1>10, RelayKeeps DEF done

LEMMA OneLessMultiple ==
  ASSUME NEW x \in Nat, NEW s \in 1 .. 3, x % s = 0, x # 0
  PROVE  /\ x - s \in Nat
         /\ (x - s) % s = 0
         /\ (x - s) \div s \in Nat
         /\ (x - s) \div s <= x \div s
<1>1. s = 1 \/ s = 2 \/ s = 3
  OBVIOUS
<1>2. CASE s = 2
  BY <1>2
<1>3. CASE s = 3
  BY <1>3
<1>4. QED
  BY <1>1, <1>2, <1>3

LEMMA FollowKeeps ==
  ASSUME ExchangeInv, NEW m \in air, FollowPath(m)
  PROVE  ExchangeInv'
<1> DEFINE p    == m.packet
           n    == m.to
           s    == p.PathHashSize
           path == SubSeq(p.Path, s + 1, Len(p.Path))
           q    == [p EXCEPT !.Path = SubSeq(@, s + 1, Len(@))]
           done == Mark(n, {p} \union {q})
<1>1. /\ p.Route # RouteFlood /\ p.Path # << >> /\ Answer(m, {q})
      /\ UNCHANGED <<plan, attempts, confirmed, inbox, route, lost>>
  BY DEF FollowPath, Arrived
<1>2. plan \in Plans /\ DOMAIN seen = Node /\ Sound(m, attempts, seen, inbox)
  BY HoldsFacts
<1>3. IsPacket(p) /\ n \in Node
  BY <1>2 DEF Sound
<1>4. /\ IsPathOf(p) /\ s \in 1 .. 3 /\ p.Path \in Seq(Byte) /\ Len(p.Path) % s = 0
      /\ Len(p.Path) <= MaxPathBytes /\ HopCount(p) <= MaxHopCount
      /\ PayloadBytes(p) <= MaxPayloadBytes
      /\ p = Packed(p.Route, p.Type, p.PathHashSize, p.Path, p.Payload)
  BY <1>3, PacketFacts DEF IsPacket, FitsIn, IsPathOf
<1>5. q = Packed(p.Route, p.Type, p.PathHashSize, path, p.Payload)
  <2>1. q = [p EXCEPT !.Path = path]
    OBVIOUS
  <2>2. QED
    BY <1>4, <2>1, PathChanged
<1> HIDE DEF q, path
<1>6. /\ q.Path = path /\ q.PathHashSize = s /\ q.Route = p.Route
      /\ q.Type = p.Type /\ q.Payload = p.Payload
  BY <1>5, PackedFields
<1>7. \A x \in Node : seen[x] \subseteq done[x]
  BY <1>2, <1>3, MarkFacts
<1>8. path \in Seq(Byte) /\ Len(path) = Len(p.Path) - s
      /\ Len(path) % s = 0 /\ Len(path) \div s <= Len(p.Path) \div s
      /\ Len(path) \div s \in Nat
  <2> DEFINE whole == p.Path
             l     == Len(whole)
             r     == l - s
  <2>1. whole \in Seq(Byte) /\ whole # << >> /\ l \in Nat
    BY <1>1, <1>4
  <2> HIDE DEF whole
  <2>2. l # 0
    BY <2>1
  <2>3. l % s = 0
    BY <1>4 DEF whole
  <2> HIDE DEF l, s
  <2>4. r \in Nat /\ r % s = 0 /\ r \div s \in Nat /\ r \div s <= l \div s
    BY <1>4, <2>1, <2>2, <2>3, OneLessMultiple
  <2>5. s \in Nat /\ s + r = l
    BY <1>4, <2>1
  <2>6. s + r <= Len(whole)
    BY <2>1, <2>5 DEF l
  <2> HIDE DEF r
  <2>7. SubSeq(whole, s + 1, s + r) \in Seq(Byte) /\ Len(SubSeq(whole, s + 1, s + r)) = r
    BY <2>1, <2>4, <2>5, <2>6, Slice
  <2>8. path = SubSeq(whole, s + 1, s + r)
    BY <2>5 DEF path, whole, l, s
  <2>9. r = Len(p.Path) - s
    BY DEF r, l, whole
  <2>10. QED
    BY <2>4, <2>7, <2>8, <2>9 DEF l, whole
<1> HIDE DEF done, s
<1>9. FitsIn(q)
  <2>1. IsPathOf(q)
    BY <1>4, <1>6, <1>8 DEF IsPathOf, s
  <2>2. HopCount(q) = Len(path) \div s /\ HopCount(p) = Len(p.Path) \div s
    BY <1>4, <1>6 DEF HopCount, s
  <2>3. PayloadBytes(q) = PayloadBytes(p)
    BY <1>6 DEF PayloadBytes
  <2> DEFINE l == Len(p.Path)
  <2>4. l \in Nat
    BY <1>4
  <2> HIDE DEF l
  <2>5. l \div s \in Nat
    BY <1>4, <2>4, QuotientBound
  <2>6. Len(p.Path) \in Nat /\ Len(p.Path) \div s \in Nat
    BY <2>4, <2>5 DEF l
  <2>7. HopCount(q) <= MaxHopCount
    <3>1. HopCount(q) \in Nat /\ HopCount(p) \in Nat /\ HopCount(q) <= HopCount(p)
      BY <1>8, <2>2, <2>6, Zenon
    <3>2. HopCount(p) <= MaxHopCount
      BY <1>4
    <3>3. QED
      BY <3>1, <3>2 DEF MaxHopCount
  <2>8. Len(path) <= MaxPathBytes
    BY <1>4, <1>8, <2>6, EnvelopeLimits
  <2>9. QED
    BY <1>4, <1>6, <2>1, <2>3, <2>7, <2>8 DEF FitsIn
<1>10. ASSUME NEW o \in [to : Neighbours[n], packet : {q}]
       PROVE  Sound(o, attempts, done, inbox)
  <2>1. o.packet = q /\ o.to \in Neighbours[n]
    OBVIOUS
  <2>2. o.to \in Node
    BY <1>2, <1>3, <2>1, PlanFacts
  <2>3. \A from \in Node : CameBy(m, from) => CameBy(o, from)
    BY <1>1, <1>6, <2>1 DEF CameBy
  <2>4. QED
    BY <1>5, <1>7, <1>8, <1>9, <2>1, <2>2, <2>3, CarriedOn
<1>11. QED
  BY <1>1, <1>10, RelayKeeps DEF done, q

-----------------------------------------------------------------------------
(* Acknowledgements: equal checksums are of texts that are alike. *)
LEMMA ThreeBytes ==
  ASSUME NEW a \in Byte, NEW b \in Byte, NEW c \in Byte,
         NEW x \in Byte, NEW y \in Byte, NEW z \in Byte,
         a + 256 * b + 65536 * c = x + 256 * y + 65536 * z
  PROVE  a = x /\ b = y /\ c = z
BY SMT DEF Byte

LEMMA SameKey ==
  ASSUME plan \in Plans, NEW a \in Node, NEW b \in Node,
         KeyNumber(KeyOf[a]) = KeyNumber(KeyOf[b])
  PROVE  KeyOf[a] = KeyOf[b]
<1> DEFINE x == KeyOf[a]
           y == KeyOf[b]
<1>1. /\ x[1] \in Byte /\ x[2] \in Byte /\ x[3] \in Byte /\ x = <<x[1], x[2], x[3]>>
      /\ y[1] \in Byte /\ y[2] \in Byte /\ y[3] \in Byte /\ y = <<y[1], y[2], y[3]>>
  BY KeyIsBytes
<1>2. x[1] + 256 * x[2] + 65536 * x[3] = y[1] + 256 * y[2] + 65536 * y[3]
  BY DEF KeyNumber
<1> HIDE DEF x, y
<1>3. x[1] = y[1] /\ x[2] = y[2] /\ x[3] = y[3]
  BY <1>1, <1>2, ThreeBytes
<1>4. QED
  BY <1>1, <1>3 DEF x, y

LEMMA CrcIsOfText ==
  ASSUME ExchangeInv, NEW n \in Node, NEW a \in Node, NEW t \in inbox[a],
         NEW c \in Confirms(n, CrcOf(t))
  PROVE  c \in Drafts \X (0 .. MaxAttempts - 1) /\ WasAnswered(c, inbox)
<1> DEFINE e == c[1]
           j == c[2]
<1>1. plan \in Plans /\ WasRead(a, t, attempts)
  BY HoldsFacts
<1>2. PICK d \in Drafts, k \in 0 .. MaxAttempts - 1 : d.to = a /\ t = ReadAs(d, k)
  BY <1>1 DEF WasRead
<1>3. /\ c \in {x \in Drafts : x.from = n} \X (0 .. MaxAttempts - 1)
      /\ CrcOf(t) = TextAckCRC(e.ts, j, TrimNuls(e.text), KeyOf[n])
  BY DEF Confirms
<1>4. e \in Drafts /\ e.from = n /\ j \in 0 .. MaxAttempts - 1
      /\ c \in Drafts \X (0 .. MaxAttempts - 1)
  BY <1>3
<1>5. /\ t.from = d.from /\ t.text.Timestamp = d.ts /\ t.text.Attempt = k % 4
      /\ t.text.Text = TrimNuls(d.text)
  BY <1>2 DEF ReadAs
<1>6. CrcOf(t) = TextAckCRC(d.ts, k % 4, TrimNuls(d.text), KeyOf[d.from])
  BY <1>5 DEF CrcOf
<1> HIDE DEF e, j
<1>7. /\ d.ts = e.ts
      /\ (k % 4) % 4 = j % 4
      /\ TextNumber(TrimNuls(d.text)) = TextNumber(TrimNuls(e.text))
      /\ KeyNumber(KeyOf[d.from]) = KeyNumber(KeyOf[n])
  BY <1>3, <1>6 DEF TextAckCRC
<1>8. TrimNuls(d.text) = TrimNuls(e.text)
  BY <1>1, <1>4, <1>7, PlanFacts
<1>9. d.from \in Node
  BY <1>1, DraftFacts
<1>10. KeyOf[d.from] = KeyOf[e.from]
  BY <1>1, <1>4, <1>7, <1>9, SameKey
<1>11. Alike(d, e)
  BY <1>7, <1>8, <1>10 DEF Alike
<1>12. (k % 4) % 4 = k % 4
  OBVIOUS
<1>13. t.text.Attempt = j % 4
  BY <1>5, <1>7, <1>12
<1>14. WasAnswered(c, inbox)
  BY <1>2, <1>5, <1>11, <1>13 DEF WasAnswered, e, j
<1>15. QED
  BY <1>4, <1>14

LEMMA TakeAckKeeps ==
  ASSUME ExchangeInv, NEW m \in air, TakeAck(m)
  PROVE  ExchangeInv'
<1> DEFINE done == Mark(m.to, {m.packet} \union {})
<1>1. /\ m.packet.Type = PayloadAck
      /\ confirmed' = confirmed \union Confirms(m.to, m.packet.Payload.crc)
      /\ Answer(m, {})
      /\ plan' = plan /\ attempts' = attempts /\ inbox' = inbox
      /\ route' = route /\ lost' = lost
  BY DEF TakeAck
<1>2. /\ Sound(m, attempts, seen, inbox)
      /\ DOMAIN inbox = Node /\ DOMAIN route = Node
      /\ \A n \in Node : DOMAIN route[n] = Node
  BY HoldsFacts
<1>3. m.to \in Node /\ IsAnswer(m, inbox)
  BY <1>1, <1>2 DEF Sound, PayloadAck, PayloadPath, PayloadTxtMsg
<1>4. PICK a \in Node : \E t \in inbox[a] : m.packet.Payload = AckPayload(CrcOf(t))
  BY <1>3 DEF IsAnswer
<1>5. PICK t \in inbox[a] : m.packet.Payload = AckPayload(CrcOf(t))
  BY <1>4
<1>6. m.packet.Payload.crc = CrcOf(t)
  BY <1>5 DEF AckPayload
<1>7. ASSUME NEW c \in confirmed'
      PROVE  \/ c \in confirmed
             \/ c \in Drafts \X (0 .. MaxAttempts - 1) /\ WasAnswered(c, inbox)
  BY <1>1, <1>3, <1>6, <1>7, CrcIsOfText
<1>8. \A n \in Node : inbox[n] \subseteq inbox[n]
  OBVIOUS
<1> HIDE DEF done
<1>9. \A o \in [to : Neighbours[m.to], packet : {}] : Sound(o, attempts, done, inbox)
  OBVIOUS
<1>10. QED
  BY <1>1, <1>2, <1>7, <1>8, <1>9, AnswerKeeps DEF done

-----------------------------------------------------------------------------
(* A path that is returned is read as it was put in, and fits. *)
LEMMA CrcIsCrc ==
  ASSUME NEW t
  PROVE  IsCrc(CrcOf(t))
BY DEF IsCrc, CrcOf, TextAckCRC

LEMMA ReturnIsSound ==
  ASSUME plan \in Plans, NEW n \in Node, NEW peer \in Node,
         NEW p, IsPathOf(p), HopCount(p) <= MaxHopCount, Len(p.Path) <= MaxPathBytes,
         Leads(Route(p.Path, p.PathHashSize), peer, n),
         NEW hist, NEW done, NEW read, NEW payload,
         \/ payload = Return(n, peer, p, 0, << >>)
         \/ \E t \in read[n], random \in RandomBytes :
              /\ t.from = peer
              /\ payload = Return(n, peer, p, PayloadAck, AckExtra(CrcOf(t), random)),
         NEW a, a = Packed(RouteFlood, PayloadPath, p.PathHashSize, << >>, payload),
         Content(a) \in done[n],
         NEW o, o.packet = a, o.to \in Neighbours[n]
  PROVE  Sound(o, hist, done, read)
<1> DEFINE q == PathIn(a)
<1>1. /\ a.Route = RouteFlood /\ a.Type = PayloadPath /\ a.PathHashSize = p.PathHashSize
      /\ a.Path = << >> /\ a.Payload = payload
  BY PackedFields
<1>2. p.PathHashSize \in 1 .. 3 /\ p.Path \in Seq(Byte)
  BY DEF IsPathOf
<1>3. /\ PathOf(payload) = p.Path
      /\ Len(payload.plain) \in Nat
      /\ Len(payload.plain) <= Len(p.Path) + 23
  <2>1. CASE payload = Return(n, peer, p, 0, << >>)
    <3>1. Carries(payload, p, 0, << >>)
      BY <2>1 DEF Carries, Return
    <3>2. QED
      BY <3>1, ReturnedAlone
  <2>2. ASSUME NEW t \in read[n], NEW random \in RandomBytes,
               payload = Return(n, peer, p, PayloadAck, AckExtra(CrcOf(t), random))
        PROVE  /\ PathOf(payload) = p.Path
               /\ Len(payload.plain) \in Nat
               /\ Len(payload.plain) <= Len(p.Path) + 23
    <3>1. random \in Byte
      BY ExchangeAssumption
    <3> DEFINE crc == CrcOf(t)
    <3>2. Carries(payload, p, PayloadAck, AckExtra(crc, random))
      BY <2>2 DEF Carries, Return
    <3>3. IsCrc(crc)
      BY CrcIsCrc
    <3> HIDE DEF crc
    <3>4. QED
      BY <3>1, <3>2, <3>3, ReturnedWithAck
  <2>3. QED
    BY <2>1, <2>2
<1>4. IsPacket(a)
  <2> DEFINE l == Len(p.Path)
             b == Len(payload.plain)
  <2>1. PayloadBytes(a) = 4 + b
    BY <1>1 DEF PayloadBytes, PayloadSize, CipherMACSize, PayloadPath, PayloadAck
  <2>2. l \in Nat /\ l <= MaxPathBytes /\ b \in Nat /\ b <= l + 23
    BY <1>2, <1>3
  <2> HIDE DEF l, b
  <2>3. PayloadBytes(a) \in Nat /\ PayloadBytes(a) <= MaxPayloadBytes
    BY <2>1, <2>2, EnvelopeLimits, AnswersFit
  <2>4. RouteFlood \in {RouteFlood, RouteDirect}
        /\ PayloadPath \in {PayloadTxtMsg, PayloadAck, PayloadPath}
    OBVIOUS
  <2>5. QED
    BY <1>2, <2>3, <2>4, EmptyPathFits
<1>5. q.Path = p.Path /\ q.PathHashSize = p.PathHashSize
  BY <1>1, <1>3 DEF PathIn, PathOf
<1> HIDE DEF q
<1>6. IsPathOf(q) /\ HopCount(q) <= MaxHopCount
  BY <1>5 DEF IsPathOf, HopCount
<1>7. \A type, extra : Return(n, peer, q, type, extra) = Return(n, peer, p, type, extra)
  BY <1>5 DEF Return
<1>8. o.to \in Node
  BY PlanFacts
<1>9. CameBy(o, n)
  <2>1. Leads(Route(<< >>, p.PathHashSize), n, o.to)
    BY <1>2, LeadsNext
  <2>2. Leads(Route(a.Path, a.PathHashSize), n, o.to)
    BY <1>1, <2>1, Zenon
  <2>3. QED
    BY <2>2 DEF CameBy
<1>10. Leads(Route(q.Path, q.PathHashSize), peer, n)
  BY <1>5
<1>11. \/ payload = Return(n, peer, q, 0, << >>)
       \/ \E t \in read[n], random \in RandomBytes :
            /\ t.from = peer
            /\ payload = Return(n, peer, q, PayloadAck, AckExtra(CrcOf(t), random))
  BY <1>7
<1>12. IsReturned(o, done, read)
  <2>1. q = PathIn(o.packet)
    BY DEF q
  <2>2. o.packet.Route = RouteFlood /\ o.packet.Payload = payload
        /\ Content(o.packet) \in done[n]
    BY <1>1
  <2>3. QED
    BY <1>6, <1>9, <1>10, <1>11, <2>1, <2>2, Zenon DEF IsReturned
<1>13. QED
  BY <1>1, <1>4, <1>8, <1>12 DEF Sound

-----------------------------------------------------------------------------
(* Whom a sealed payload opens for: the two ends share one secret. *)
LEMMA OtherEnd ==
  ASSUME NEW n, NEW c, NEW a, NEW b, SharedSecret(n, c) = SharedSecret(a, b),
         c # n, n # a
  PROVE  c = a /\ n = b
BY DEF SharedSecret

LEMMA ReadFacts ==
  ASSUME DOMAIN inbox = Node, NEW n \in Node, NEW item,
         NEW read, read = [inbox EXCEPT ![n] = @ \union {item}]
  PROVE  /\ DOMAIN read = Node /\ item \in read[n]
         /\ \A x \in Node : inbox[x] \subseteq read[x]
         /\ \A x \in Node : \A t \in read[x] : t \in inbox[x] \/ (x = n /\ t = item)
<1>1. DOMAIN read = Node
  OBVIOUS
<1>2. \A x \in Node : read[x] = IF x = n THEN inbox[x] \union {item} ELSE inbox[x]
  OBVIOUS
<1>3. item \in read[n]
  BY <1>2
<1>4. \A x \in Node : inbox[x] \subseteq read[x]
  BY <1>2
<1>5. ASSUME NEW x \in Node, NEW t \in read[x]
      PROVE  t \in inbox[x] \/ (x = n /\ t = item)
  BY <1>2
<1>6. QED
  BY <1>1, <1>3, <1>4, <1>5

LEMMA TakeTextKeeps ==
  ASSUME ExchangeInv, NEW m \in air, TakeText(m)
  PROVE  ExchangeInv'
<1> DEFINE n == m.to
           p == m.packet
           s == p.Payload
<1>1. /\ p.Type = PayloadTxtMsg /\ IsNew(m)
      /\ \E writer \in Writers(m), random \in RandomBytes :
           LET d == DecodeDirectTextPayload(SharedSecret(n, writer), s)
           IN  /\ d.err = Nil
               /\ inbox' = [inbox EXCEPT ![n] = @ \union {[from |-> writer, text |-> d.text]}]
               /\ Answer(m, {TextAnswer(n, writer, p, d.text, random)})
               /\ UNCHANGED <<plan, attempts, confirmed, route, lost>>
  BY DEF TakeText
<1>2. PICK writer \in Writers(m), random \in RandomBytes :
        /\ DecodeDirectTextPayload(SharedSecret(n, writer), s).err = Nil
        /\ inbox' = [inbox EXCEPT ![n] = @ \union
             {[from |-> writer,
               text |-> DecodeDirectTextPayload(SharedSecret(n, writer), s).text]}]
        /\ Answer(m, {TextAnswer(n, writer, p,
                        DecodeDirectTextPayload(SharedSecret(n, writer), s).text, random)})
        /\ UNCHANGED <<plan, attempts, confirmed, route, lost>>
  BY <1>1, Zenon
<1> DEFINE decoded == DecodeDirectTextPayload(SharedSecret(n, writer), s)
<1>3. /\ plan \in Plans /\ DOMAIN seen = Node /\ Sound(m, attempts, seen, inbox)
      /\ DOMAIN inbox = Node /\ DOMAIN route = Node
      /\ \A x \in Node : DOMAIN route[x] = Node
  BY HoldsFacts
<1>4. n \in Node /\ IsPacket(p) /\ IsSent(m, attempts, seen)
  BY <1>1, <1>3 DEF Sound, PayloadTxtMsg, PayloadPath, PayloadAck
<1>5. PICK d \in Drafts, k \in 0 .. MaxAttempts - 1 :
        /\ k < attempts[d]
        /\ s = TextOf(d, k)
        /\ Content(p) \in seen[d.from]
        /\ CameBy(m, d.from)
  BY <1>4 DEF IsSent
<1>6. n # d.from /\ Content(p) \notin seen[n]
  BY <1>1, <1>5 DEF IsNew
<1>7. writer = d.from /\ n = d.to
  <2>1. writer # n /\ s.secret = SharedSecret(n, writer)
    BY DEF Writers, Opens
  <2>2. s.secret = SharedSecret(d.from, d.to)
    BY <1>5 DEF TextOf, DirectTextPayload, Seal
  <2>3. n # d.from /\ writer # n /\ SharedSecret(n, writer) = SharedSecret(d.from, d.to)
    BY <1>6, <2>1, <2>2
  <2> DEFINE from == d.from
             to   == d.to
  <2> HIDE DEF n, from, to
  <2>4. n # from /\ writer # n /\ SharedSecret(n, writer) = SharedSecret(from, to)
    BY <2>3 DEF from, to
  <2>5. writer = from /\ n = to
    BY <2>4, OtherEnd
  <2>6. QED
    BY <2>5 DEF from, to
<1>8. decoded.text = ReadAs(d, k).text
  <2>1. decoded.text = DirectText(s)
    BY <1>2 DEF DecodeDirectTextPayload
  <2>2. d.text \in Seq(Byte) /\ d.ts \in Word /\ d.txtType \in Byte /\ k \in Nat
    BY <1>3, <1>5, DraftFacts
  <2>3. DirectText(TextOf(d, k)) =
          [DestHash |-> Hash(d.to), SrcHash |-> Hash(d.from), Timestamp |-> d.ts,
           TxtType |-> d.txtType % 64, Attempt |-> k % 4, Text |-> TrimNuls(d.text)]
    BY <2>2, TextIsRead DEF TextOf
  <2>4. ReadAs(d, k).text =
          [DestHash |-> Hash(d.to), SrcHash |-> Hash(d.from), Timestamp |-> d.ts,
           TxtType |-> d.txtType % 64, Attempt |-> k % 4, Text |-> TrimNuls(d.text)]
    BY DEF ReadAs
  <2>5. QED
    BY <1>5, <2>1, <2>3, <2>4, Zenon
<1> HIDE DEF decoded
<1> DEFINE item   == ReadAs(d, k)
           read   == [inbox EXCEPT ![n] = @ \union {item}]
           answer == TextAnswer(n, writer, p, item.text, random)
           done   == Mark(n, {p} \union {answer})
<1>9. [from |-> writer, text |-> item.text] = item
  BY <1>7 DEF ReadAs
<1>10. inbox' = read /\ Answer(m, {answer})
       /\ plan' = plan /\ attempts' = attempts /\ confirmed' = confirmed
       /\ route' = route /\ lost' = lost
  BY <1>2, <1>8, <1>9, Zenon DEF decoded
<1> HIDE DEF item
<1>11. /\ DOMAIN read = Node /\ item \in read[n]
       /\ \A x \in Node : inbox[x] \subseteq read[x]
       /\ \A x \in Node : \A t \in read[x] : t \in inbox[x] \/ (x = n /\ t = item)
  <2>1. read = [inbox EXCEPT ![n] = @ \union {item}]
    OBVIOUS
  <2> HIDE DEF read, n
  <2>2. QED
    BY <1>3, <1>4, <2>1, ReadFacts
<1>12. WasRead(n, item, attempts)
  BY <1>5, <1>7 DEF WasRead, item
<1>13. \A x \in Node : \A t \in read[x] : t \in inbox[x] \/ WasRead(x, t, attempts)
  BY <1>11, <1>12
<1>14. Content(answer) \in done[n]
  BY <1>3, <1>4, MarkFacts
<1> HIDE DEF read, done
<1>15. ASSUME NEW o \in [to : Neighbours[n], packet : {answer}]
       PROVE  Sound(o, attempts, done, read)
  <2> DEFINE crc == TextAckCRC(item.text.Timestamp, item.text.Attempt, item.text.Text,
                               KeyOf[writer])
  <2>1. o.packet = answer /\ o.to \in Neighbours[n]
    OBVIOUS
  <2>2. item.from = writer /\ crc = CrcOf(item)
    BY <1>7 DEF item, ReadAs, CrcOf
  <2> HIDE DEF crc
  <2>3. CASE p.Route = RouteFlood
    <3> DEFINE payload == Return(n, writer, p, PayloadAck, AckExtra(crc, random))
    <3>1. answer = Packed(RouteFlood, PayloadPath, p.PathHashSize, << >>, payload)
      BY <2>3 DEF TextAnswer, Return, crc
    <3>2. \E t \in read[n], byte \in RandomBytes :
            /\ t.from = writer
            /\ payload = Return(n, writer, p, PayloadAck, AckExtra(CrcOf(t), byte))
      BY <1>11, <2>2, Zenon
    <3>3. Leads(Route(p.Path, p.PathHashSize), writer, n)
      BY <1>5, <1>7, <2>3 DEF CameBy
    <3>4. writer \in Node
      BY <1>3, <1>7, DraftFacts
    <3>5. /\ IsPathOf(p) /\ HopCount(p) <= MaxHopCount /\ Len(p.Path) <= MaxPathBytes
      BY <1>4, PacketFacts
    <3> HIDE DEF payload, answer, p, n
    <3>6. QED
      BY <1>3, <1>4, <1>14, <2>1, <3>1, <3>2, <3>3, <3>4, <3>5, ReturnIsSound
  <2>4. CASE p.Route # RouteFlood
    <3>1. answer = Packed(RouteFlood, PayloadAck, HashSize, << >>, AckPayload(crc))
      BY <2>4 DEF TextAnswer, Flooded, crc
    <3> HIDE DEF answer
    <3>2. /\ answer.Type = PayloadAck /\ answer.Payload = AckPayload(crc)
      BY <3>1 DEF Packed
    <3>3. IsPacket(answer)
      <4>1. PayloadBytes(answer) = 4
        BY <3>2 DEF PayloadBytes, AckSize
      <4>2. 4 \in Nat /\ 4 <= MaxPayloadBytes
        BY EnvelopeLimits, AnswersFit
      <4>3. HashSize \in 1 .. 3
        BY ExchangeAssumption
      <4>4. RouteFlood \in {RouteFlood, RouteDirect}
            /\ PayloadAck \in {PayloadTxtMsg, PayloadAck, PayloadPath}
        OBVIOUS
      <4>5. QED
        BY <3>1, <4>1, <4>2, <4>3, <4>4, EmptyPathFits
    <3>4. IsAnswer(o, read)
      BY <1>4, <1>11, <2>1, <2>2, <3>2 DEF IsAnswer
    <3>5. o.to \in Node
      BY <1>3, <1>4, <2>1, PlanFacts
    <3>6. QED
      BY <2>1, <3>2, <3>3, <3>4, <3>5 DEF Sound
  <2>5. QED
    BY <2>3, <2>4
<1>16. QED
  BY <1>3, <1>10, <1>11, <1>13, <1>15, AnswerKeeps DEF done

LEMMA LearnedFacts ==
  ASSUME DOMAIN route = Node, \A x \in Node : DOMAIN route[x] = Node,
         NEW n \in Node, NEW peer \in Node, NEW r,
         NEW ways, ways = [route EXCEPT ![n][peer] = r]
  PROVE  /\ DOMAIN ways = Node /\ \A x \in Node : DOMAIN ways[x] = Node
         /\ ways[n][peer] = r
         /\ \A x \in Node, y \in Node :
              ways[x][y] = route[x][y] \/ (x = n /\ y = peer)
<1>1. DOMAIN ways = Node
  OBVIOUS
<1>2. \A x \in Node : ways[x] = IF x = n THEN [route[n] EXCEPT ![peer] = r] ELSE route[x]
  OBVIOUS
<1>3. \A x \in Node : DOMAIN ways[x] = Node
  BY <1>2
<1>4. ways[n][peer] = r
  BY <1>2
<1>5. \A x \in Node, y \in Node : ways[x][y] = route[x][y] \/ (x = n /\ y = peer)
  BY <1>2
<1>6. QED
  BY <1>1, <1>3, <1>4, <1>5

LEMMA TakePathKeeps ==
  ASSUME ExchangeInv, NEW m \in air, TakePath(m)
  PROVE  ExchangeInv'
<1> DEFINE n == m.to
           p == m.packet
           s == p.Payload
           d == ReturnedPath(s)
           Reply(peer) ==
             Packed(RouteFlood, PayloadPath, p.PathHashSize, << >>, Return(n, peer, p, 0, << >>))
           packets(peer) == IF ConfirmedBy(d) # {} THEN {Reply(peer)} ELSE {}
<1>1. p.Type = PayloadPath /\ IsNew(m)
  BY DEF TakePath
<1>2. PICK peer \in Writers(m) :
        /\ route' = [route EXCEPT ![n][peer] = Route(d.Path, p.PathHashSize)]
        /\ confirmed' = confirmed \union UNION {Confirms(n, crc) : crc \in ConfirmedBy(d)}
        /\ Answer(m, packets(peer))
        /\ plan' = plan /\ attempts' = attempts /\ inbox' = inbox /\ lost' = lost
  <2>1. PICK peer \in Writers(m) :
          /\ DecodePathPayload(SharedSecret(n, peer), s).err = Nil
          /\ route' = [route EXCEPT ![n][peer] =
               Route(DecodePathPayload(SharedSecret(n, peer), s).path.Path, p.PathHashSize)]
          /\ confirmed' = confirmed \union
               UNION {Confirms(n, crc) :
                 crc \in ConfirmedBy(DecodePathPayload(SharedSecret(n, peer), s).path)}
          /\ Answer(m, IF ConfirmedBy(DecodePathPayload(SharedSecret(n, peer), s).path) # {}
                       THEN {Reply(peer)} ELSE {})
          /\ plan' = plan /\ attempts' = attempts /\ inbox' = inbox /\ lost' = lost
    BY DEF TakePath, Return
  <2>2. DecodePathPayload(SharedSecret(n, peer), s).path = d
    BY <2>1 DEF DecodePathPayload
  <2>3. QED
    BY <2>1, <2>2
<1>3. /\ plan \in Plans /\ DOMAIN seen = Node /\ Sound(m, attempts, seen, inbox)
      /\ DOMAIN inbox = Node /\ DOMAIN route = Node
      /\ \A x \in Node : DOMAIN route[x] = Node
  BY HoldsFacts
<1>4. n \in Node /\ IsPacket(p) /\ IsReturned(m, seen, inbox)
  BY <1>1, <1>3 DEF Sound, PayloadTxtMsg, PayloadPath, PayloadAck
<1> DEFINE q == PathIn(p)
<1>5. PICK a \in Node, b \in Node :
        /\ Leads(Route(q.Path, q.PathHashSize), b, a)
        /\ Content(p) \in seen[a]
        /\ CameBy(m, a)
        /\ \/ s = Return(a, b, q, 0, << >>)
           \/ \E t \in inbox[a], random \in RandomBytes :
                /\ t.from = b
                /\ s = Return(a, b, q, PayloadAck, AckExtra(CrcOf(t), random))
  BY <1>4, Zenon DEF IsReturned
<1>6. p.Route = RouteFlood /\ IsPathOf(q) /\ HopCount(q) <= MaxHopCount
  BY <1>4, Zenon DEF IsReturned
<1>7. peer = a /\ n = b
  <2>1. peer # n /\ s.secret = SharedSecret(n, peer)
    BY DEF Writers, Opens
  <2>2. s.secret = SharedSecret(a, b)
    <3>1. \A type, extra : Return(a, b, q, type, extra).secret = SharedSecret(a, b)
      BY DEF Return, Seal
    <3> HIDE DEF q, s
    <3>2. QED
      BY <1>5, <3>1
  <2>3. n # a
    BY <1>1, <1>5 DEF IsNew
  <2> HIDE DEF n, s
  <2>4. QED
    BY <2>1, <2>2, <2>3, OtherEnd
<1>8. q.Path = d.Path /\ q.PathHashSize = p.PathHashSize
  BY DEF PathIn
<1>9. PICK crcs : crcs = ConfirmedBy(d)
  OBVIOUS
<1>10. \A crc \in crcs : \E t \in inbox[a] : crc = CrcOf(t)
  <2>1. CASE s = Return(a, b, q, 0, << >>)
    <3>1. Carries(s, q, 0, << >>)
      BY <2>1 DEF Carries, Return
    <3> HIDE DEF q, s
    <3>2. ConfirmedBy(ReturnedPath(s)) = {}
      BY <1>6, <3>1, ReturnedAlone
    <3>3. QED
      BY <1>9, <3>2
  <2>2. ASSUME NEW t \in inbox[a], NEW random \in RandomBytes,
               s = Return(a, b, q, PayloadAck, AckExtra(CrcOf(t), random))
        PROVE  \A crc \in crcs : crc = CrcOf(t)
    <3> DEFINE crc == CrcOf(t)
    <3>1. Carries(s, q, PayloadAck, AckExtra(crc, random))
      BY <2>2 DEF Carries, Return
    <3>2. IsCrc(crc) /\ random \in Byte
      BY CrcIsCrc, ExchangeAssumption
    <3> HIDE DEF q, s, crc
    <3>3. ConfirmedBy(ReturnedPath(s)) = {crc}
      BY <1>6, <3>1, <3>2, ReturnedWithAck
    <3>4. QED
      BY <1>9, <3>3 DEF crc
  <2>3. QED
    BY <1>5, <2>1, <2>2
<1> DEFINE r    == Route(d.Path, p.PathHashSize)
           ways == [route EXCEPT ![n][peer] = r]
           sent == packets(peer)
           done == Mark(n, {p} \union sent)
<1>11. LeadsThere(r, n, peer)
  <2>1. r = Route(q.Path, q.PathHashSize)
    BY <1>8
  <2> HIDE DEF q, r
  <2>2. r.path = q.Path /\ r.size = q.PathHashSize
    BY <2>1 DEF Route
  <2>3. IsPathOf([Path |-> q.Path, PathHashSize |-> q.PathHashSize])
    BY <1>6 DEF IsPathOf
  <2>4. r = Route(r.path, r.size)
    BY <2>1, <2>2
  <2>5. Leads(r, n, peer)
    BY <1>5, <1>7, <2>1
  <2>6. QED
    BY <2>1, <2>2, <2>3, <2>4, <2>5, Zenon DEF LeadsThere
<1>12. peer \in Node
  BY <1>7
<1>13. ASSUME NEW c \in confirmed'
       PROVE  \/ c \in confirmed
              \/ c \in Drafts \X (0 .. MaxAttempts - 1) /\ WasAnswered(c, inbox)
  <2>1. CASE c \in UNION {Confirms(n, crc) : crc \in crcs}
    <3>1. PICK crc \in crcs : c \in Confirms(n, crc)
      BY <2>1
    <3>2. PICK t \in inbox[a] : crc = CrcOf(t)
      BY <1>10
    <3>3. QED
      BY <1>4, <3>1, <3>2, CrcIsOfText
  <2>2. QED
    BY <1>2, <1>9, <2>1
<1>14. sent \subseteq {Reply(peer)}
  OBVIOUS
<1>15. ASSUME NEW o \in [to : Neighbours[n], packet : sent]
       PROVE  Sound(o, attempts, done, inbox)
  <2> DEFINE payload == Return(n, peer, p, 0, << >>)
             answer  == Reply(peer)
  <2>1. o.packet \in sent /\ o.to \in Neighbours[n]
    OBVIOUS
  <2>2. o.packet = answer
    BY <1>14, <2>1
  <2>3. Content(answer) \in done[n]
    BY <1>3, <1>4, <2>1, <2>2, MarkFacts
  <2>4. answer = Packed(RouteFlood, PayloadPath, p.PathHashSize, << >>, payload)
    OBVIOUS
  <2>5. Leads(Route(p.Path, p.PathHashSize), peer, n)
    BY <1>5, <1>6, <1>7 DEF CameBy
  <2>6. IsPathOf(p) /\ HopCount(p) <= MaxHopCount /\ Len(p.Path) <= MaxPathBytes
    BY <1>4, PacketFacts
  <2>7. payload = Return(n, peer, p, 0, << >>)
    OBVIOUS
  <2> HIDE DEF payload, answer, p, n, done
  <2>8. QED
    BY <1>3, <1>4, <1>12, <2>1, <2>2, <2>3, <2>4, <2>5, <2>6, <2>7, ReturnIsSound
<1>16. /\ DOMAIN ways = Node /\ \A x \in Node : DOMAIN ways[x] = Node
       /\ \A x \in Node, y \in Node :
            ways[x][y] = route[x][y] \/ LeadsThere(ways[x][y], x, y)
  <2>1. ways = [route EXCEPT ![n][peer] = r]
    OBVIOUS
  <2> HIDE DEF ways, r, n
  <2>2. /\ DOMAIN ways = Node /\ \A x \in Node : DOMAIN ways[x] = Node
        /\ ways[n][peer] = r
        /\ \A x \in Node, y \in Node :
             ways[x][y] = route[x][y] \/ (x = n /\ y = peer)
    BY <1>3, <1>4, <1>12, <2>1, LearnedFacts
  <2>3. QED
    BY <1>11, <2>2
<1>17. route' = ways /\ Answer(m, sent)
  BY <1>2
<1>18. /\ plan' = plan /\ attempts' = attempts /\ inbox' = inbox /\ lost' = lost
       /\ done = Mark(m.to, {m.packet} \union sent)
       /\ \A o \in [to : Neighbours[m.to], packet : sent] : Sound(o, attempts, done, inbox)
  BY <1>2, <1>15
<1>19. /\ DOMAIN inbox = Node
       /\ \A x \in Node : inbox[x] \subseteq inbox[x]
       /\ \A x \in Node : \A t \in inbox[x] : t \in inbox[x] \/ WasRead(x, t, attempts)
  BY <1>3
<1> HIDE DEF ways, sent, done, n, p, s, d, q, r
<1>20. QED
  BY <1>13, <1>16, <1>17, <1>18, <1>19, AnswerKeeps

-----------------------------------------------------------------------------
(* One lemma for each action; Spec allows steps that change nothing.       *)
LEMMA StepKeeps ==
  ASSUME ExchangeInv, [Next]_vars
  PROVE  ExchangeInv'
<1>1. CASE UNCHANGED vars
  <2>1. lost \in 0 .. plan.maxLost
    BY HoldsFacts
  <2>2. /\ air' \subseteq air /\ lost' \in 0 .. plan.maxLost
        /\ UNCHANGED <<plan, seen, attempts, confirmed, inbox, route>>
    BY <1>1, <2>1 DEF vars
  <2>3. QED
    BY <2>2, FewerKeeps
<1>2. CASE \E d \in Drafts : SendAny(d)
  BY <1>2, SendKeeps DEF SendAny
<1>3. ASSUME NEW m \in air, TakeText(m) PROVE ExchangeInv'
  BY <1>3, TakeTextKeeps
<1>4. ASSUME NEW m \in air, TakePath(m) PROVE ExchangeInv'
  BY <1>4, TakePathKeeps
<1>5. ASSUME NEW m \in air, TakeAck(m) PROVE ExchangeInv'
  BY <1>5, TakeAckKeeps
<1>6. ASSUME NEW m \in air, Flood(m) PROVE ExchangeInv'
  BY <1>6, FloodKeeps
<1>7. ASSUME NEW m \in air, FollowPath(m) PROVE ExchangeInv'
  BY <1>7, FollowKeeps
<1>8. ASSUME NEW m \in air, Ignore(m) \/ Lose(m) PROVE ExchangeInv'
  BY <1>8, DroppedKeeps
<1>9. QED
  BY <1>1, <1>2, <1>3, <1>4, <1>5, <1>6, <1>7, <1>8 DEF Next

(* In every conversation, what is on the air was made by a node from what  *)
(* it had read or received, in the place its path says, and what nodes     *)
(* have read, learned and taken for acknowledged comes from that.          *)
THEOREM ExchangeInvariant == Spec => []ExchangeInv
<1>1. Init => ExchangeInv
  BY InitHolds
<1>2. ExchangeInv /\ [Next]_vars => ExchangeInv'
  BY StepKeeps
<1>3. QED
  BY <1>1, <1>2, PTL DEF Spec

LEMMA Typed ==
  ASSUME ExchangeInv
  PROVE  TypeOK
<1>1. /\ plan \in Plans
      /\ lost \in 0 .. plan.maxLost
      /\ attempts \in [Drafts -> 0 .. MaxAttempts]
      /\ confirmed \subseteq Drafts \X (0 .. MaxAttempts - 1)
      /\ \A n \in Node, peer \in Node : LeadsThere(route[n][peer], n, peer)
      /\ \A m \in air : Sound(m, attempts, seen, inbox)
  BY HoldsFacts
<1>2. ASSUME NEW m \in air
      PROVE  /\ m.to \in Node
             /\ m.packet.PathHashSize \in 1 .. 3
             /\ m.packet.Path \in Seq(Byte)
             /\ EncodeError(m.packet) = Nil
  <2>1. m.to \in Node /\ IsPacket(m.packet)
    BY <1>1 DEF Sound
  <2>2. QED
    BY <2>1, PacketFacts
<1>3. \A n, peer \in Node : route[n][peer].known => route[n][peer].path \in Seq(Byte)
  BY <1>1 DEF LeadsThere, IsPathOf
<1>4. QED
  BY <1>1, <1>2, <1>3 DEF TypeOK

(* Packets on the air are such that EncodePacket takes them, and attempts, *)
(* confirmations and losses stay in their bounds.                          *)
THEOREM ExchangeTypeCorrect == Spec => []TypeOK
<1>1. ExchangeInv => TypeOK
  BY Typed
<1>2. QED
  BY <1>1, ExchangeInvariant, PTL

(* An attempt is taken for acknowledged only when a peer has decoded that  *)
(* very text, of that second and that attempt (TextAckCRC of ack.go).      *)
THEOREM AcksAreEarned == Spec => []AckConfirmsText
<1>1. ExchangeInv => AckConfirmsText
  <2>1. SUFFICES ASSUME ExchangeInv PROVE AckConfirmsText
    OBVIOUS
  <2>2. \A c \in confirmed : WasAnswered(c, inbox)
    BY <2>1, HoldsFacts
  <2>3. QED
    BY <2>2, Zenon DEF AckConfirmsText, WasAnswered
<1>2. QED
  BY <1>1, ExchangeInvariant, PTL

(* Whoever decodes a text is the one it was written to, and reads what its *)
(* writer wrote (DecodeDirectTextPayload of txtmsg.go).                    *)
THEOREM TextsAreTheirWriters == Spec => []TextIsFromItsWriter
<1>1. ExchangeInv => TextIsFromItsWriter
  <2>1. SUFFICES ASSUME ExchangeInv, NEW n \in Node, NEW t \in inbox[n]
                 PROVE  \E d \in Drafts :
                          /\ d.from = t.from /\ d.to = n
                          /\ t.text = [DestHash |-> Hash(n), SrcHash |-> Hash(d.from),
                                       Timestamp |-> d.ts, TxtType |-> d.txtType % 64,
                                       Attempt |-> t.text.Attempt, Text |-> TrimNuls(d.text)]
                          /\ t.text.Attempt < attempts[d]
    BY DEF TextIsFromItsWriter
  <2>2. WasRead(n, t, attempts) /\ attempts \in [Drafts -> 0 .. MaxAttempts]
        /\ plan \in Plans
    BY <2>1, HoldsFacts
  <2>3. PICK d \in Drafts, k \in 0 .. MaxAttempts - 1 :
          k < attempts[d] /\ d.to = n /\ t = ReadAs(d, k)
    BY <2>2 DEF WasRead
  <2>4. MaxAttempts \in Nat /\ attempts[d] \in Nat
    BY <2>2, PlanFacts
  <2>5. k % 4 < attempts[d]
    BY <2>3, <2>4
  <2>6. /\ t.from = d.from
        /\ t.text.Attempt = k % 4
        /\ t.text = [DestHash |-> Hash(n), SrcHash |-> Hash(d.from),
                     Timestamp |-> d.ts, TxtType |-> d.txtType % 64,
                     Attempt |-> k % 4, Text |-> TrimNuls(d.text)]
    BY <2>3 DEF ReadAs
  <2>7. t.text.Attempt < attempts[d]
    BY <2>5, <2>6
  <2>8. QED
    BY <2>3, <2>6, <2>7, Zenon
<1>2. QED
  BY <1>1, ExchangeInvariant, PTL

(* A learned path leads over neighbours from the node that learned it to   *)
(* its peer, however many relays there are and whatever hash size was used *)
(* (PathReturnPacket and DecodePathPayload of req.go).                     *)
THEOREM PathsLead == Spec => []LearnedPathLeads
<1>1. ExchangeInv => LearnedPathLeads
  <2>1. SUFFICES ASSUME ExchangeInv, NEW n \in Node, NEW peer \in Node,
                        route[n][peer].known
                 PROVE  /\ Len(route[n][peer].path) % route[n][peer].size = 0
                        /\ Leads(route[n][peer], n, peer)
    BY DEF LearnedPathLeads
  <2> DEFINE r == route[n][peer]
  <2>2. LeadsThere(r, n, peer)
    BY <2>1, HoldsFacts
  <2> HIDE DEF r
  <2>3. /\ IsPathOf([Path |-> r.path, PathHashSize |-> r.size])
        /\ Leads(Route(r.path, r.size), n, peer)
        /\ r = Route(r.path, r.size)
    BY <2>1, <2>2 DEF LeadsThere, r
  <2>4. Len(r.path) % r.size = 0
    BY <2>3 DEF IsPathOf
  <2>5. Leads(r, n, peer)
    BY <2>3, Zenon
  <2>6. QED
    BY <2>4, <2>5 DEF r
<1>2. QED
  BY <1>1, ExchangeInvariant, PTL

=============================================================================
