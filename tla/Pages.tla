-------------------------------- MODULE Pages --------------------------------
(***************************************************************************)
(* Pages and apps that work with the operations of ops.go, through         *)
(* CallJSON of call.go: two of them hold a conversation and trace the way  *)
(* that it has taught them, and single calls go from one to another.       *)
(*                                                                         *)
(* The library keeps nothing between two calls.  What a page remembers is  *)
(* JSON that an operation has returned, and it goes into the next call:    *)
(* the path and the hash size of an envelope into an acknowledgement, a    *)
(* returned path into the next text, a checksum into a comparison.  Pages, *)
(* the order of their calls, relays and the radio are external.  A relay   *)
(* adds its hash to what is flooded, and the SNR to a TRACE, whose route   *)
(* it follows (trace.go:89-96).                                           *)
(***************************************************************************)
EXTENDS Operations

CONSTANTS
  Plans,     \* who talks, over which relays, what and when; what is called
  RandomByte \* what rand.Read returns

(* A plan.  writer and reader have a form of keys, the argument that is    *)
(* their private key, their public key, and the limit of their int.  A way *)
(* is the sequence of relays from the writer to the reader; a relay is the *)
(* first eight bytes of its key.  hashSize is 0 when the writer is a page, *)
(* and the WithPathHashSize option when it is a Go program.  repeats is 0  *)
(* when the reader answers a direct text with an ACK, and otherwise the    *)
(* number of MULTIPARTs that it sends.  snrs are what relays measure.  The *)
(* bounds: times are the seconds at which pages call, maxAttempts and      *)
(* maxLost count texts and packets.                                        *)
Forms == {"seed", "expanded", "legacy"}

(* The scalar of a side: nobody else has it, or finds it from a public     *)
(* key.  An identity has an Ed25519 public key.                            *)
OwnScalar(side) ==
  IF side.form = "seed" THEN Expanded(side.private.key) ELSE side.private.key

IsSide(side) ==
  /\ side.form \in Forms /\ side.limit \in Nat
  /\ side.private = [key |-> side.private.key, size |-> side.private.size]
  /\ OwnScalar(side)[1] # "log"
  /\ side.public \in DOMAIN PublicBytes
  /\ side.public = <<side.public[1], side.public[2]>>
  /\ side.form # "legacy" => side.public[1] = "ed"
  /\ side.form = "seed" => EdPublic(side.private.key) \in DOMAIN PublicBytes
  /\ side.form = "legacy" => XPublic(side.private.key) \in DOMAIN PublicBytes

(* Checksums, cut from a hash, are numbers of 32 bits that tell the texts  *)
(* of a conversation apart.  Its text does not end in a NUL, which is not  *)
(* read.                                                                   *)
IsText(p) ==
  LET key == KeyNumber(PublicBytes[p.writer.public])
      sum(ts, attempt, text) == Checksum(<<Uint32(ts), attempt, TextNumber(text), key>>)
      seconds == {p.times[i] : i \in DOMAIN p.times}
      texts   == {p.text, Shown(p.text)}
  IN  /\ p.text \in Seq(Byte)
      /\ p.text = << >> \/ Last(p.text) # 0
      /\ \A s, t \in seconds, a, b \in 0 .. 3, x, y \in texts :
           /\ sum(s, a, x) \in 0 .. UintModulus - 1
           /\ sum(s, a, x) = sum(t, b, y) => Uint32(s) = Uint32(t) /\ a = b

IsPlan(p) ==
  /\ IsSide(p.writer) /\ IsSide(p.reader) /\ OwnScalar(p.writer) # OwnScalar(p.reader)
  /\ p.hashSize \in 0 .. 3 /\ p.repeats \in 0 .. 15
  /\ p.hashSize # 0 => p.writer.form = "seed"
  /\ p.ways \subseteq Seq([1 .. 8 -> Byte])
  /\ p.tracesBack \in BOOLEAN
  /\ \A t \in p.traces : t.nodes \in Seq([1 .. 8 -> Byte])
  /\ p.times \in Seq(Nat) \ {<< >>} /\ p.snrs \in Seq(-128 .. 127) \ {<< >>}
  /\ {p.maxAttempts, p.maxLost} \subseteq Nat
  /\ p.writer.form = "legacy" => p.maxAttempts <= 1
  /\ IsText(p)

ASSUME PagesAssumption ==
  /\ \A p \in Plans : IsPlan(p)
  /\ RandomByte \in Byte

VARIABLES
  plan,       \* the plan of this behaviour
  tick,       \* the clock: an index of plan.times
  air,        \* packets on their way, each with the side it goes to
  written,    \* the attempts of the writer, and how it will know the answer
  shown,      \* the results that the reader got for texts
  confirmed,  \* the attempts that the writer takes for acknowledged
  route,      \* what the writer knows of the way
  lost,       \* how many packets the radio has lost
  trace,      \* the TRACE
  asked       \* the single calls, with what came of them

vars == <<plan, tick, air, written, shown, confirmed, route, lost, trace, asked>>

conversation == <<tick, air, written, shown, confirmed, route, lost>>

NoRoute == [known |-> FALSE]
NoTrace == [phase |-> "none"]

Time == plan.times[tick]

Env(limit) ==
  [intLimit |-> limit, now |-> Time, random |-> RandomByte, fresh |-> Seed(9)]

(* CallJSON with the name of the operation. *)
Call(side, Operation(_, _), args) == Operation(Env(side.limit), args)

PeerOf(side) == HexKey((IF side = plan.writer THEN plan.reader ELSE plan.writer).public)

Init ==
  /\ plan \in Plans
  /\ tick = 1
  /\ air = {}
  /\ written = << >>
  /\ shown = {}
  /\ confirmed = {}
  /\ route = NoRoute
  /\ lost = 0
  /\ trace = NoTrace
  /\ asked = {}

Tick ==
  /\ tick < Len(plan.times)
  /\ tick' = tick + 1
  /\ UNCHANGED <<plan, air, written, shown, confirmed, route, lost, trace, asked>>

-----------------------------------------------------------------------------
(* Writing.  Another attempt keeps the second of the first one.  When a    *)
(* text is acknowledged, the writer goes on with the next one, in another  *)
(* second and on the way that it has learned.                              *)
Current == {k \in DOMAIN written : written[k].ts = Last(written).ts}

IsNext == written = << >> \/ confirmed \cap Current # {}

MayWrite ==
  IF written = << >> THEN plan.maxAttempts > 0
  ELSE IF IsNext THEN route.known /\ Time > Last(written).ts /\ written[1].ts = Last(written).ts
  ELSE Last(written).attempt + 1 < plan.maxAttempts

TextCall(ts, attempt) ==
  LET w    == plan.writer
      peer == PeerOf(w)
      what == <<Text(plan.text), Number(ts), Number(attempt)>>
      way  == <<Bytes(route.path), Number(route.size)>>
      fresh == ~route.known
  IN  CASE w.form = "seed" /\ fresh ->
             Call(w, encodeDirectTextIdentity, <<w.private, peer>> \o what)
        [] w.form = "seed" /\ ~fresh ->
             Call(w, encodeDirectTextIdentityPath, <<w.private, peer>> \o what \o way)
        [] w.form = "expanded" /\ fresh ->
             Call(w, encodeDirectTextExpanded, <<w.private, HexKey(w.public), peer>> \o what)
        [] w.form = "expanded" /\ ~fresh ->
             Call(w, encodeDirectTextExpandedPath,
                  <<w.private, HexKey(w.public), peer>> \o what \o way)
        [] w.form = "legacy" ->
             Call(w, encodeDirectText, <<w.private, peer, Text(plan.text)>>)

(* A Go program that has a seed. *)
NativeText(ts, attempt) ==
  DirectTextPacketFromIdentity(plan.writer.private, PeerOf(plan.writer), plan.text, ts, attempt,
    IF route.known THEN Along(route.path, route.size) ELSE Flooding(plan.hashSize))

TextOf(ts, attempt) ==
  IF plan.hashSize = 0 THEN TextCall(ts, attempt) ELSE NativeText(ts, attempt)

ReadText(side, payload) ==
  LET what == <<payload, side.private, PeerOf(side)>>
  IN  CASE side.form = "seed"     -> Call(side, decodeDirectTextIdentity, what)
        [] side.form = "expanded" -> Call(side, decodeDirectTextExpanded, what)
        [] side.form = "legacy"   -> Call(side, decodeDirectText, what)

(* A page reads its own packet for the second that went into it, and asks  *)
(* for the checksum of the answer; a Go program computes it.               *)
Expected(packet, ts, attempt) ==
  IF plan.hashSize # 0
  THEN [crc |-> AckNumber(ts, attempt, plan.text, plan.writer.public)]
  ELSE Of(LAMBDA mine :
            IF IsError(mine) THEN mine
            ELSE Call(plan.writer, textAckCrc,
                      <<Number(mine.timestamp), Number(mine.attempt), Text(plan.text),
                        HexKey(plan.writer.public)>>),
          ReadText(plan.writer, [payload |-> packet.Payload]))

Write ==
  LET attempt == IF IsNext THEN 0 ELSE Last(written).attempt + 1
      ts      == IF IsNext THEN Time ELSE Last(written).ts
  IN  /\ MayWrite
      /\ \E result \in {TextOf(ts, attempt)} :
           /\ ~IsError(result)
           /\ written' = Append(written,
                [ts |-> ts, attempt |-> attempt,
                 expect |-> Expected(result.hex.packet, ts, attempt)])
           /\ air' = air \union {[to |-> plan.reader, packet |-> result.hex.packet]}
      /\ UNCHANGED <<plan, tick, shown, confirmed, route, lost, trace, asked>>

-----------------------------------------------------------------------------
(* The radio.  A flooded packet arrives with the hashes of the relays, a   *)
(* direct one if its path names those of some way.                         *)
Hashes(nodes, size) == FlattenSeq([i \in DOMAIN nodes |-> SubSeq(nodes[i], 1, size)])

WaysTo(side) == IF side = plan.reader THEN plan.ways ELSE {Reverse(way) : way \in plan.ways}

Arrivals(m) ==
  LET p == m.packet
      along(way) == Hashes(way, p.PathHashSize)
  IN  IF p.Route = RouteFlood
      THEN {[p EXCEPT !.Path = along(way)] : way \in WaysTo(m.to)}
      ELSE {[p EXCEPT !.Path = << >>] : way \in {w \in WaysTo(m.to) : along(w) = p.Path}}

Envelope(side, packet) == Call(side, decodeEnvelope, <<[packet |-> packet]>>)

(* The reader shows a text, and answers with what it was shown: a returned *)
(* path when the text was flooded, and otherwise an ACK or MULTIPARTs.     *)
PathAnswer(env, t) ==
  LET r    == plan.reader
      what == <<Number(t.timestamp), Number(t.attempt), Text(t.text),
                Bytes(FlattenSeq(env.hops)), Number(env.pathHashSize)>>
  IN  CASE r.form = "seed" ->
             Call(r, encodePathTextAckIdentity, <<r.private, PeerOf(r)>> \o what)
        [] r.form = "expanded" ->
             Call(r, encodePathTextAckExpanded,
                  <<r.private, HexKey(r.public), PeerOf(r)>> \o what)
        [] r.form = "legacy" ->
             Call(r, encodeTextAck, SubSeq(what, 1, 3) \o <<PeerOf(r)>>)

DirectAnswers(t) ==
  LET r    == plan.reader
      what == <<Number(t.timestamp), Number(t.attempt), Text(t.text), PeerOf(r)>>
      sum  == Call(r, textAckCrc, what)
  IN  IF plan.repeats = 0 THEN {Call(r, encodeTextAck, what)}
      ELSE IF IsError(sum) THEN {sum}
      ELSE {Call(r, encodeMultipartAck, <<Number(k), Number(sum.crc)>>) :
              k \in 0 .. plan.repeats - 1}

Answers(env, t) == IF env.routeCode = RouteFlood THEN {PathAnswer(env, t)} ELSE DirectAnswers(t)

Read(m) ==
  /\ m.to = plan.reader
  /\ \E p \in Arrivals(m) : \E env \in {Envelope(m.to, p)} :
       \E t \in {ReadText(m.to, env.payloadHex)} :
         IF IsError(t)
         THEN air' = air \ {m} /\ UNCHANGED shown
         ELSE /\ shown' = shown \union {t}
              /\ air' = (air \ {m}) \union
                   {[to |-> plan.writer, packet |-> a.hex.packet] :
                      a \in {b \in Answers(env, t) : ~IsError(b)}}
  /\ UNCHANGED <<plan, tick, written, confirmed, route, lost, trace, asked>>

(* The writer looks for a checksum in an answer. *)
AnswerIn(env) ==
  LET w    == plan.writer
      what == <<env.payloadHex>>
      keys == <<w.private, PeerOf(w)>>
  IN  CASE env.typeCode = PayloadAck       -> Call(w, decodeAck, what)
        [] env.typeCode = PayloadMultipart -> Call(w, decodeMultipart, what)
        [] env.typeCode = PayloadPath /\ w.form = "seed" ->
             Call(w, decodePathIdentity, what \o keys)
        [] env.typeCode = PayloadPath /\ w.form # "seed" ->
             Call(w, decodePathExpanded, what \o keys)

ChecksumIn(answer) == IF Is("ackCrc", answer) THEN answer.ackCrc ELSE answer.crc

(* The hash size of a returned path is that of the packet which brings it. *)
Notice(m) ==
  /\ m.to = plan.writer
  /\ \E p \in Arrivals(m) : \E env \in {Envelope(m.to, p)} :
       \E answer \in {AnswerIn(env)} :
         /\ ~IsError(answer)
         /\ confirmed' = confirmed \union
              {k \in DOMAIN written : written[k].expect = [crc |-> ChecksumIn(answer)]}
         /\ route' = IF Is("path", answer)
                     THEN [known |-> TRUE, path |-> answer.path, size |-> env.pathHashSize]
                     ELSE route
  /\ air' = air \ {m}
  /\ UNCHANGED <<plan, tick, written, shown, lost, trace, asked>>

Lose(m) ==
  /\ lost < plan.maxLost
  /\ lost' = lost + 1
  /\ air' = air \ {m}
  /\ UNCHANGED <<plan, tick, written, shown, confirmed, route, trace, asked>>

-----------------------------------------------------------------------------
(* Tracing: to the reader and back over the relays of the learned path, or *)
(* along the routes of the plan.  A route has hashes of 1, 2, 4 or 8 bytes *)
(* as two bits of the flags say, so that a path of 3-byte hashes gives     *)
(* none.                                                                   *)
Prefix(public) == SubSeq(PublicBytes[public], 1, 8)

Return(way) == way \o <<Prefix(plan.reader.public)>> \o Reverse(way)

Routes ==
  {[nodes |-> t.nodes, flags |-> t.flags] : t \in plan.traces} \union
    {[nodes |-> Return(way), flags |-> route.size - 1] :
       way \in {w \in plan.ways : /\ plan.tracesBack /\ route.known /\ route.size < 3
                                  /\ Hashes(w, route.size) = route.path}}

StartTrace(r) ==
  LET result == Call(plan.writer, encodeTrace,
                  <<Number(plan.tag), Number(0), Number(r.flags),
                    Bytes(Hashes(r.nodes, 2 ^ (r.flags % 4)))>>)
  IN  /\ trace = NoTrace
      /\ ~IsError(result)
      /\ trace' = [phase |-> "passing", nodes |-> r.nodes, flags |-> r.flags,
                   packet |-> result.hex.packet, seen |-> {}]
      /\ UNCHANGED <<conversation, plan, asked>>

Snr(hop) == plan.snrs[(hop % Len(plan.snrs)) + 1]

(* A relay drops what it has seen before, and what would be too long.      *)
PassTrace ==
  LET p    == trace.packet
      hop  == Len(p.Path) + 1
      mark == <<trace.nodes[hop], ContentHashOf(p)>>
      q    == Encoded([p EXCEPT !.Path = Append(@, ByteOf(Snr(hop)))])
  IN  /\ trace.phase = "passing" /\ hop <= Len(trace.nodes)
      /\ trace' = IF mark \in trace.seen \/ IsError(q)
                  THEN [trace EXCEPT !.phase = "dropped"]
                  ELSE [trace EXCEPT !.packet = q.hex.packet, !.seen = @ \union {mark}]
      /\ UNCHANGED <<conversation, plan, asked>>

ShowTrace ==
  /\ trace.phase = "passing" /\ Len(trace.packet.Path) = Len(trace.nodes)
  /\ trace' = [phase |-> "shown", nodes |-> trace.nodes, flags |-> trace.flags,
                result |-> Call(plan.writer, decodeTrace, <<[packet |-> trace.packet]>>)]
  /\ UNCHANGED <<conversation, plan, asked>>

-----------------------------------------------------------------------------
(* Single calls of a writing operation, and of the operation that reads    *)
(* what it has returned, in builds with ints of their own.                 *)
Ask(c) ==
  /\ asked = {}
  /\ asked' = {[call |-> c, phase |-> "written",
                result |-> CallJSON(Env(c.limit), c.name, c.args)]}
  /\ UNCHANGED <<conversation, plan, trace>>

Subject(name, packet, envelope) ==
  IF name \in {"decodeTrace", "computeContentHash", "decodeEnvelope"} THEN [packet |-> packet]
  ELSE envelope.payloadHex

Look(a) ==
  LET packet   == a.result.hex
      envelope == decodeEnvelope(Env(a.call.at), <<packet>>)
  IN  /\ a.phase = "written" /\ ~IsError(a.result) /\ a.call.reads # "nothing"
      /\ asked' = {[a EXCEPT !.phase = "read",
           !.result = CallJSON(Env(a.call.at), a.call.reads,
                        <<Subject(a.call.reads, packet.packet, envelope)>> \o a.call.with)]}
      /\ UNCHANGED <<conversation, plan, trace>>

Next ==
  \/ Tick
  \/ Write
  \/ \E m \in air : Read(m) \/ Notice(m) \/ Lose(m)
  \/ \E r \in Routes : StartTrace(r)
  \/ PassTrace
  \/ ShowTrace
  \/ \E c \in plan.calls : Ask(c)
  \/ \E a \in asked : Look(a)

(* A radio hands over what it has not lost, a page writes again while it   *)
(* has no answer, and relays pass a TRACE on.                              *)
Fairness ==
  /\ WF_vars(\E m \in air : Read(m) \/ Notice(m))
  /\ WF_vars(~IsNext /\ Write)
  /\ WF_vars(PassTrace \/ ShowTrace)

Spec == Init /\ [][Next]_vars
FairSpec == Spec /\ Fairness

-----------------------------------------------------------------------------
TypeOK ==
  /\ plan \in Plans /\ tick \in DOMAIN plan.times
  /\ \A m \in air : /\ m.to \in {plan.writer, plan.reader}
                    /\ ValidateWire([m.packet EXCEPT !.Payload = << >>]) = Nil
                    /\ m.packet.Payload.head \in Seq(Byte)
                    /\ m.packet.Payload.plain \in Seq(Byte)
  /\ \A k \in DOMAIN written : written[k].attempt \in 0 .. plan.maxAttempts - 1
  /\ confirmed \subseteq DOMAIN written
  /\ route.known => Len(route.path) % route.size = 0
  /\ lost \in 0 .. plan.maxLost
  /\ trace.phase \in {"none", "passing", "dropped", "shown"}
  /\ \A a \in asked : a.call \in plan.calls /\ a.phase \in {"written", "read"}

(* A writer takes an attempt for acknowledged only when the reader was     *)
(* shown that text, of that second and that attempt, whatever the forms of *)
(* their keys and the builds of their pages are, and whether the answer    *)
(* came as an ACK, in a MULTIPART or with a path: checksums are compared   *)
(* as the signed numbers that results hold (ops.go:480-494, 1043-1054,     *)
(* 1116-1133, 958-1036, 1418-1448).                                        *)
AcknowledgedWasRead ==
  \A k \in confirmed : \E t \in shown :
    /\ t.text = Shown(plan.text)
    /\ t.timestamp = Uint32(written[k].ts)
    /\ t.attempt = written[k].attempt % 4

(* The private key of a side is what the form says, and belongs to its     *)
(* public key.                                                             *)
Genuine(side) ==
  LET k == side.private.key
  IN  CASE side.form = "seed"     -> EdPublic(k) = side.public
        [] side.form = "expanded" -> k = Expanded(side.public[2])
        [] side.form = "legacy"   -> XPublic(k) = side.public

Paired ==
  /\ Genuine(plan.writer) /\ Genuine(plan.reader)
  /\ plan.writer.form = "legacy" <=> plan.reader.form = "legacy"

(* A text is shown only when both sides pass the keys that the operations  *)
(* ask for: 32 bytes are 32 bytes, so that a scalar passed for a seed, or  *)
(* keys of the older kind for those of an identity, raise no error before  *)
(* the MAC does (keys.go:104-161, txtmsg.go:180-207, 256-274).             *)
ReadOnlyWithItsKeys == shown # {} => Paired

(* A text that does not flood is on a way to the reader: the path that an  *)
(* acknowledgement brought, with the hash size that only its envelope      *)
(* tells, names relays that are there (ops.go:295-328, 373-400, 966-1036). *)
TextFollowsTheWay ==
  \A m \in air : m.to = plan.reader /\ m.packet.Route = RouteDirect => Arrivals(m) # {}

(* The times at which the pages call fit their ints.                       *)
InTime ==
  \A i \in DOMAIN plan.times :
    /\ Holds(Env(plan.writer.limit), plan.times[i])
    /\ Uint32(plan.times[i]) < plan.reader.limit

(* Every text is acknowledged in the end, if the keys belong together, the *)
(* times fit, the text is UTF-8, there is a way, and fewer packets are     *)
(* lost than attempts are made: every value that an operation returned to  *)
(* a page is taken by the next operation, in every build, a checksum of    *)
(* 2^31 or more among them (ParseOpArgs and jsonResult of call.go).        *)
Answerable ==
  /\ Paired /\ InTime /\ plan.text = Shown(plan.text)
  /\ plan.ways # {} /\ (plan.repeats = 0 \/ plan.ways = {<< >>})
  /\ plan.maxLost < plan.maxAttempts

AnswersReachTheWriter ==
  [](Answerable /\ written # << >> /\ ~IsNext => <>IsNext)

(* What a page shows of a TRACE is what the relays measured, in the order  *)
(* of the route, one signed SNR for each hash (trace.go:30-69, 97-111,     *)
(* ops.go:1375-1410).                                                      *)
SnrAlongRoute ==
  trace.phase = "shown" =>
    LET r     == trace.result
        width == 2 ^ (trace.flags % 4)
    IN  /\ r.routeHashes = [i \in DOMAIN trace.nodes |-> SubSeq(trace.nodes[i], 1, width)]
        /\ r.snrs = [i \in DOMAIN trace.nodes |-> Snr(i)]
        /\ r.hopCount = Len(r.routeHashes)
        /\ (r.tag - plan.tag) % UintModulus = 0

(* A TRACE over at most 63 hops comes to its end, although it passes every *)
(* relay twice on the way back: no relay takes it for one that it has seen *)
(* (content_hash.go:31-45).                                                *)
TraceEnds ==
  [](trace.phase = "passing" /\ Len(trace.nodes) <= MaxHopCount
       => <>(trace.phase = "shown"))

-----------------------------------------------------------------------------
(* What an argument asks for: a null is 0, or nothing.                     *)
Asked(value) == IF value = Null THEN 0 ELSE value.number
Same(a, value, modulus) == (a - Asked(value)) % modulus = 0
TextIn(value) == IF value = Null THEN << >> ELSE Shown(value.text)
BytesIn(value) == IF IsHex(value) /\ Is("bytes", value) THEN value.bytes ELSE << >>
IsPadded(data, bytes) == IsPrefix(bytes, data) /\ Len(data) - Len(bytes) < BlockSize

Says(c, r) ==
  LET arg == c.args
  IN  CASE c.name \in {"encodeGroupText", "encodeGroupTextSecret"} ->
             r.sender = TextIn(arg[2]) /\ r.text = TextIn(arg[3])
        [] c.name \in {"encodeGrpData", "encodeGrpDataSecret"} ->
             Same(r.dataType, arg[2], 65536) /\ r.dataHex = BytesIn(arg[3])
        [] c.name = "encodeDirectText"   -> r.text = TextIn(arg[3])
        [] c.name = "encodePathTextAckExpanded" -> r.path = BytesIn(arg[7])
        [] c.reads = "decodeAck"         -> Same(r.crc, arg[1], UintModulus)
        [] c.name = "encodeMultipartAck" ->
             Same(r.remaining, arg[1], 16) /\ Same(r.ackCrc, arg[2], UintModulus)
        [] c.reads = "decodeReq"         ->
             Same(r.reqType, arg[3], 256) /\ IsPadded(Tail(r.dataHex), BytesIn(arg[4]))
        [] c.name = "encodeAnonReq"      ->
             IsPadded(r.dataHex, BytesIn(arg[3])) /\ r.senderPubKey = HexKey(XPublic(arg[2].key))
        [] c.name = "encodeDiscoverReq"  ->
             /\ Same(r.discoverTypeFilter, arg[1], 256)
             /\ Same(r.discoverTag, arg[2], UintModulus)
             /\ Same(r.discoverSince, arg[3], UintModulus)
             /\ r.flags % 2 = (IF Asked(arg[4]) = 0 THEN 0 ELSE 1)
        [] c.name = "encodeAdvert"       ->
             /\ r.publicKey = arg[1] /\ r.name = TextIn(arg[3])
             /\ r.sigVerified = (\E i \in DOMAIN BytesIn(arg[2]) : BytesIn(arg[2])[i] # 0)
             /\ r.hasGPS = (Asked(arg[4]) # 0)
             /\ r.hasGPS => r.lat = Argument("Float", arg[5]) /\ r.lon = Argument("Float", arg[6])
        [] c.name = "encodeTrace"        ->
             /\ Same(r.tag, arg[1], UintModulus) /\ Same(r.authCode, arg[2], UintModulus)
             /\ Same(r.flags, arg[3], 256)
             /\ FlattenSeq(r.routeHashes) =
                  SubSeq(BytesIn(arg[4]), 1, Len(r.routeHashes) * r.hashWidth)
        [] c.name = "encodeRaw" /\ c.reads = "decodeEnvelope" ->
             /\ Same(r.routeCode, arg[1], 256) /\ Same(r.typeCode, arg[2], 256)
             /\ Same(r.version, arg[3], 256)
             /\ r.payloadHex = [payload |-> PayloadIn(arg[5])]
        [] OTHER -> TRUE

(* Whatever is read is what was asked for, as far as the field can hold    *)
(* it: the numbers are congruent, a null asks for 0 or for nothing, text   *)
(* that is no UTF-8 is asked for with replacement characters, and a type   *)
(* without a name stays what it is (the narrowing in ops.go, ParseOpArgs   *)
(* of call.go).                                                            *)
ReadIsAsked ==
  \A a \in asked : a.phase = "read" /\ ~IsError(a.result) => Says(a.call, a.result)
===============================================================================
