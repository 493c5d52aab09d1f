--------------------------- MODULE DirectExchange ---------------------------
(***************************************************************************)
(* Nodes that write texts to one another with txtmsg.go, ack.go and        *)
(* req.go, over relays that flood or follow a path.                        *)
(*                                                                         *)
(* A text is flooded at first.  Its recipient returns the path the text    *)
(* came by, together with the acknowledgement, and the writer answers with *)
(* the path of that packet: from then on texts may travel along a learned  *)
(* path, and are acknowledged by a plain ACK.  A text that is not          *)
(* acknowledged in time is sent again with the next attempt number; the    *)
(* late answer to an earlier attempt may still arrive.                     *)
(*                                                                         *)
(* Applications, relays and the radio are external, as in FloodMesh, and   *)
(* packets stand for their frames (PacketProofs!RoundTrip).                *)
(***************************************************************************)
EXTENDS DirectMessage

CONSTANTS
  Plans,        \* who is there, who hears whom, and what is written
  HashSize,     \* the WithPathHashSize option of all senders
  RandomBytes   \* what rand.Read can return for the last byte of an ACK extra

(* A plan: keys[n] is the public key of node n, its first three bytes;     *)
(* neighbours[n] are the nodes that hear n; drafts are the texts that      *)
(* applications write, with their timestamps, and have no two texts of one *)
(* number; maxAttempts says how often an application sends a text before   *)
(* it gives up.  The last two are bounds: packets on the air when a text   *)
(* is sent, and packets that the radio loses.                              *)
IsPlan(p) ==
  LET node == DOMAIN p.keys
  IN  /\ p.keys \in [node -> Byte \X Byte \X Byte]
      /\ p.neighbours \in [node -> SUBSET node]
      /\ p.drafts \subseteq
           [from : node, to : node, text : Seq(Byte), ts : Word, txtType : Byte]
      /\ \A d, e \in p.drafts :
           TextNumber(TrimNuls(d.text)) = TextNumber(TrimNuls(e.text)) =>
             TrimNuls(d.text) = TrimNuls(e.text)
      /\ {p.maxAttempts, p.maxOnAir, p.maxLost} \subseteq Nat

ASSUME ExchangeAssumption ==
  /\ \A p \in Plans : IsPlan(p)
  /\ HashSize \in 1 .. 3
  /\ RandomBytes \subseteq Byte

(* A path of any length can be returned: 4 bytes before the ciphertext,    *)
(* and in it a length, the path, a type and an extra of 6 bytes, padded.   *)
ASSUME AnswersFit == MaxPathBytes + 27 =< MaxPayloadBytes

VARIABLES
  plan,       \* the plan of this behaviour
  air,        \* packets on their way, each with its receiver
  seen,       \* seen[n]: the contents node n has processed
  attempts,   \* attempts[d]: how often draft d was sent
  confirmed,  \* the attempts that were acknowledged, as <<draft, attempt>>
  inbox,      \* inbox[n]: the texts n has decoded, with their writers
  route,      \* route[n]: the paths n has learned, for each peer
  lost        \* how many packets the radio has lost

vars == <<plan, air, seen, attempts, confirmed, inbox, route, lost>>

Node        == DOMAIN plan.keys
Neighbours  == plan.neighbours
KeyOf       == plan.keys
Drafts      == plan.drafts
MaxAttempts == plan.maxAttempts

NoRoute == [known |-> FALSE]
Route(path, size) == [known |-> TRUE, path |-> path, size |-> size]

Hash(n) == KeyOf[n][1]
HopHash(n, size) == SubSeq(KeyOf[n], 1, size)

Packed(r, type, size, path, payload) ==
  [Version |-> CurrentPayloadVer, Route |-> r, Type |-> type,
   PathHashSize |-> size, Path |-> path, Payload |-> payload]

Flooded(type, payload) == Packed(RouteFlood, type, HashSize, << >>, payload)

(* The checks of EncodePacket; only the length of the payload matters.     *)
EncodeError(p) ==
  ValidateWire([p EXCEPT !.Payload =
    Zeros(IF p.Type = PayloadAck THEN AckSize ELSE PayloadSize(p.Payload))])

(* What relays and recipients tell packets apart by (ContentDigest). *)
Content(p) == <<p.Type, p.Payload>>

(* A node ignores what it has seen, so nothing is lost by leaving out the  *)
(* packets to such a node.                                                 *)
Heard(n, packets, marked) ==
  {m \in [to : Neighbours[n], packet : packets] : Content(m.packet) \notin marked[m.to]}

Mark(n, packets) == [seen EXCEPT ![n] = @ \union {Content(p) : p \in packets}]

-----------------------------------------------------------------------------
Init ==
  /\ plan \in Plans
  /\ air = {}
  /\ seen = [n \in Node |-> {}]
  /\ attempts = [d \in Drafts |-> 0]
  /\ confirmed = {}
  /\ inbox = [n \in Node |-> {}]
  /\ route = [n \in Node |-> [peer \in Node |-> NoRoute]]
  /\ lost = 0

IsConfirmed(d) == \E c \in confirmed : c[1] = d

(* DirectTextPacket, or DirectTextPacketViaPath with a path learned before. *)
TextPacket(d, attempt, r) ==
  LET payload == DirectTextPayload(SharedSecret(d.from, d.to), Hash(d.to), Hash(d.from),
                                   d.text, d.ts, d.txtType, attempt)
  IN  IF r.known THEN Packed(RouteDirect, PayloadTxtMsg, r.size, r.path, payload)
      ELSE Flooded(PayloadTxtMsg, payload)

(* The first attempt, or the next one when the application has waited long *)
(* enough.  It may flood although it knows a path.                         *)
SendText(d, r) ==
  LET p == TextPacket(d, attempts[d], r)
  IN  /\ ~IsConfirmed(d)
      /\ attempts[d] < MaxAttempts
      /\ Cardinality(air) <= plan.maxOnAir
      /\ EncodeError(p) = Nil
      /\ attempts' = [attempts EXCEPT ![d] = @ + 1]
      /\ seen' = Mark(d.from, {p})
      /\ air' = air \union Heard(d.from, {p}, seen)
      /\ UNCHANGED <<plan, confirmed, inbox, route, lost>>

(* A direct packet is processed by whom its path has led to. *)
Arrived(p) == p.Route = RouteFlood \/ p.Path = << >>

IsNew(m) == Content(m.packet) \notin seen[m.to]

(* The contacts whose shared secret opens the payload of m; their hash is  *)
(* one byte, and several nodes may have it.                                *)
Writers(m) ==
  LET s == m.packet.Payload
  IN  {c \in Node \ {m.to} : /\ s.dest = Hash(m.to)
                             /\ s.src = Hash(c)
                             /\ Opens(SharedSecret(m.to, c), s)}

IsFor(m) ==
  IF m.packet.Type = PayloadAck
  THEN \E d \in Drafts : d.from = m.to /\ \E k \in 0 .. attempts[d] - 1 :
         m.packet.Payload.crc = TextAckCRC(d.ts, k, TrimNuls(d.text), KeyOf[d.from])
  ELSE Writers(m) # {}

Answer(m, packets) ==
  /\ seen' = Mark(m.to, {m.packet} \union packets)
  /\ air' = (air \ {m}) \union Heard(m.to, packets, seen)

(* PathTextAckReturnPacketFromIdentity for a text that was flooded, and    *)
(* TextAckPacket for one that came along a path.                           *)
TextAnswer(n, writer, p, t, random) ==
  LET crc == TextAckCRC(t.Timestamp, t.Attempt, t.Text, KeyOf[writer])
  IN  IF p.Route = RouteFlood
      THEN Packed(RouteFlood, PayloadPath, p.PathHashSize, << >>,
             Seal(SharedSecret(n, writer), Hash(writer), Hash(n),
                  PathPlaintext(p.Path, p.PathHashSize, PayloadAck, AckExtra(crc, random))))
      ELSE Flooded(PayloadAck, AckPayload(crc))

TakeText(m) ==
  /\ m.packet.Type = PayloadTxtMsg /\ Arrived(m.packet) /\ IsNew(m)
  /\ \E writer \in Writers(m), random \in RandomBytes :
       LET d == DecodeDirectTextPayload(SharedSecret(m.to, writer), m.packet.Payload)
       IN  /\ d.err = Nil
           /\ inbox' = [inbox EXCEPT ![m.to] = @ \union {[from |-> writer, text |-> d.text]}]
           /\ Answer(m, {TextAnswer(m.to, writer, m.packet, d.text, random)})
           /\ UNCHANGED <<plan, attempts, confirmed, route, lost>>

Confirms(n, crc) ==
  {c \in {d \in Drafts : d.from = n} \X (0 .. MaxAttempts - 1) :
     /\ c[2] < attempts[c[1]]
     /\ crc = TextAckCRC(c[1].ts, c[2], TrimNuls(c[1].text), KeyOf[n])}

(* The returned path leads to its sender; the hash size, which             *)
(* DecodePathPayload does not return, is that of the packet.  The path of  *)
(* an acknowledgement is answered with the path it came by.                *)
TakePath(m) ==
  /\ m.packet.Type = PayloadPath /\ IsNew(m)
  /\ \E peer \in Writers(m) :
       LET n      == m.to
           p      == m.packet
           secret == SharedSecret(n, peer)
           d      == DecodePathPayload(secret, p.Payload)
           answer == Packed(RouteFlood, PayloadPath, p.PathHashSize, << >>,
                       Seal(secret, Hash(peer), Hash(n),
                            PathPlaintext(p.Path, p.PathHashSize, 0, << >>)))
       IN  /\ d.err = Nil
           /\ route' = [route EXCEPT ![n][peer] = Route(d.path.Path, p.PathHashSize)]
           /\ confirmed' = confirmed \union
                             UNION {Confirms(n, crc) : crc \in ConfirmedBy(d.path)}
           /\ Answer(m, IF ConfirmedBy(d.path) # {} THEN {answer} ELSE {})
           /\ UNCHANGED <<plan, attempts, inbox, lost>>

TakeAck(m) ==
  /\ m.packet.Type = PayloadAck /\ IsNew(m) /\ IsFor(m)
  /\ confirmed' = confirmed \union Confirms(m.to, m.packet.Payload.crc)
  /\ Answer(m, {})
  /\ UNCHANGED <<plan, attempts, inbox, route, lost>>

(* A relay sends on what is not for itself, if its hash still fits.        *)
Flood(m) ==
  LET q == [m.packet EXCEPT !.Path = @ \o HopHash(m.to, m.packet.PathHashSize)]
  IN  /\ m.packet.Route = RouteFlood /\ IsNew(m) /\ ~IsFor(m)
      /\ Answer(m, IF EncodeError(q) = Nil THEN {q} ELSE {})
      /\ UNCHANGED <<plan, attempts, confirmed, inbox, route, lost>>

(* The next hop of a path takes its hash off. *)
FollowPath(m) ==
  LET p == m.packet
      q == [p EXCEPT !.Path = SubSeq(@, p.PathHashSize + 1, Len(@))]
  IN  /\ ~Arrived(p) /\ IsNew(m)
      /\ SubSeq(p.Path, 1, p.PathHashSize) = HopHash(m.to, p.PathHashSize)
      /\ Answer(m, {q})
      /\ UNCHANGED <<plan, attempts, confirmed, inbox, route, lost>>

(* What is not new, or direct and for someone else. *)
Ignore(m) ==
  LET p == m.packet
  IN  /\ \/ ~IsNew(m)
         \/ ~Arrived(p) /\ SubSeq(p.Path, 1, p.PathHashSize) # HopHash(m.to, p.PathHashSize)
         \/ p.Route = RouteDirect /\ p.Path = << >> /\ ~IsFor(m)
      /\ air' = air \ {m}
      /\ UNCHANGED <<plan, seen, attempts, confirmed, inbox, route, lost>>

Receive(m) ==
  TakeText(m) \/ TakePath(m) \/ TakeAck(m) \/ Flood(m) \/ FollowPath(m) \/ Ignore(m)

Lose(m) ==
  /\ lost < plan.maxLost
  /\ lost' = lost + 1
  /\ air' = air \ {m}
  /\ UNCHANGED <<plan, seen, attempts, confirmed, inbox, route>>

SendAny(d) == \E r \in {NoRoute, route[d.from][d.to]} : SendText(d, r)

Next ==
  \/ \E d \in Drafts : SendAny(d)
  \/ \E m \in air :
       \/ TakeText(m)
       \/ TakePath(m)
       \/ TakeAck(m)
       \/ Flood(m)
       \/ FollowPath(m)
       \/ Ignore(m)
       \/ Lose(m)

IsWaiting(d) == attempts[d] > 0 /\ ~IsConfirmed(d)

(* A radio hands over what it has received and not lost, and an            *)
(* application that waits for an acknowledgement sends again.              *)
Fairness ==
  /\ WF_vars(\E m \in air : Receive(m))
  /\ WF_vars(\E d \in Drafts : IsWaiting(d) /\ SendAny(d))

Spec == Init /\ [][Next]_vars
FairSpec == Spec /\ Fairness

-----------------------------------------------------------------------------
TypeOK ==
  /\ plan \in Plans
  /\ \A m \in air : /\ m.to \in Node
                    /\ m.packet.PathHashSize \in 1 .. 3
                    /\ m.packet.Path \in Seq(Byte)
                    /\ EncodeError(m.packet) = Nil
  /\ attempts \in [Drafts -> 0 .. MaxAttempts]
  /\ confirmed \subseteq Drafts \X (0 .. MaxAttempts - 1)
  /\ \A n, peer \in Node : route[n][peer].known => route[n][peer].path \in Seq(Byte)
  /\ lost \in 0 .. plan.maxLost

(* Texts whose acknowledgements are the same: the checksum says which      *)
(* text of which second its sender wrote, and not to whom.                 *)
Alike(d, e) ==
  /\ KeyOf[d.from] = KeyOf[e.from]
  /\ d.ts = e.ts
  /\ TrimNuls(d.text) = TrimNuls(e.text)

(* An application takes an attempt for acknowledged only when a peer has   *)
(* decoded that very text, of that second and that attempt, as its own:    *)
(* neither an equal text of another second, nor a late answer to an        *)
(* earlier attempt, nor a path without an acknowledgement counts           *)
(* (TextAckCRC of ack.go, the extra of req.go).  The peer is the one it    *)
(* was written to, unless the same went to several in one second.          *)
AckConfirmsText ==
  \A c \in confirmed :
    \E d \in Drafts : Alike(d, c[1]) /\ \E t \in inbox[d.to] :
      /\ t.from = d.from
      /\ t.text.Text = TrimNuls(d.text)
      /\ t.text.Timestamp = d.ts
      /\ t.text.Attempt = c[2] % 4

(* Whoever decodes a text is the one it was written to, and reads what its *)
(* writer wrote, up to NULs at the end, although dest_hash and src_hash    *)
(* fit several nodes (DecodeDirectTextPayload of txtmsg.go).               *)
TextIsFromItsWriter ==
  \A n \in Node : \A t \in inbox[n] :
    \E d \in Drafts :
      /\ d.from = t.from /\ d.to = n
      /\ t.text = [DestHash |-> Hash(n), SrcHash |-> Hash(d.from), Timestamp |-> d.ts,
                   TxtType |-> d.txtType % 64, Attempt |-> t.text.Attempt,
                   Text |-> TrimNuls(d.text)]
      /\ t.text.Attempt < attempts[d]

(* The nodes that a path, cut into hashes of its size, can name. *)
Cut(path, size) == Hops([Path |-> path, PathHashSize |-> size])

Leads(r, from, to) ==
  LET hops == Cut(r.path, r.size)
  IN  \E v \in [1 .. Len(hops) -> Node] :
        /\ \A i \in DOMAIN hops : HopHash(v[i], r.size) = hops[i]
        /\ \A i \in 0 .. Len(hops) :
             (IF i = Len(hops) THEN to ELSE v[i + 1])
               \in Neighbours[IF i = 0 THEN from ELSE v[i]]

(* A learned path, cut by the hash size of the packet that brought it,     *)
(* leads over neighbours from the node that learned it to its peer, on     *)
(* both sides and at every hash size: what PathReturnPacket puts in comes  *)
(* out of DecodePathPayload aligned (req.go:196-208, 293-297).             *)
LearnedPathLeads ==
  \A n, peer \in Node :
    route[n][peer].known =>
      /\ Len(route[n][peer].path) % route[n][peer].size = 0
      /\ Leads(route[n][peer], n, peer)

(* Every text is acknowledged in the end, when fewer packets are lost than *)
(* attempts are made: no attempt is taken for a repetition of an earlier   *)
(* one and dropped on the way (the attempt bits of txtmsg.go:44 and        *)
(* ack.go:28).                                                             *)
TextGetsThrough == []<>(\A d \in Drafts : ~IsWaiting(d))
=============================================================================
