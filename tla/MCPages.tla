------------------------------- MODULE MCPages -------------------------------
(***************************************************************************)
(* Instances of Pages for TLC.  A uint32 has 24 bits here, since TLC's own *)
(* integers have 32, and an int of 32 bits holds what is below 2^23.       *)
(***************************************************************************)
EXTENDS Pages

Modulus == 16777216
Narrow  == 8388608
Wide    == 268435456

Scalar(n) == <<"scalar", n>>
ZeroKey == <<"x", <<"zero", 0>>>>
OffCurve == <<"garbage", <<"x", 0>>>>

BytesOf(a, b, c) == <<a, b, c>> \o [i \in 1 .. 29 |-> a + i]

(* The public keys of two identities share their first byte. *)
PageKeys ==
  (EdPublic(Seed(1)) :> BytesOf(7, 0, 1)) @@ (EdPublic(Seed(2)) :> BytesOf(7, 65, 2)) @@
  (EdPublic(Expanded(Seed(1))) :> BytesOf(8, 0, 3)) @@
  (EdPublic(Expanded(Seed(2))) :> BytesOf(9, 0, 4)) @@
  (XPublic(Scalar(1)) :> BytesOf(66, 0, 5)) @@ (XPublic(Scalar(2)) :> BytesOf(67, 0, 6)) @@
  (XPublic(Expanded(Seed(1))) :> BytesOf(68, 0, 7)) @@
  (XPublic(Seed(9)) :> BytesOf(69, 0, 8)) @@ (ZeroKey :> BytesOf(0, 0, 0)) @@
  (OffCurve :> BytesOf(2, 2, 2))

PageChannels == (<<1>> :> 17) @@ (<<2>> :> 17)
PageNoPoint == {OffCurve}
PageLowOrder == {ZeroKey}

(* Odd attempts give the checksums of 2^31 or more (of Narrow here). *)
PageChecksum(crc) ==
  (crc[2] % 2) * Narrow + (crc[1] % 64) * 131072 + (crc[2] \div 2) * 65536
    + (crc[3] % 256) * 256 + (crc[4] % 256)

-----------------------------------------------------------------------------
SeedSide(n, limit) ==
  [form |-> "seed", private |-> HexKey(Seed(n)), public |-> EdPublic(Seed(n)), limit |-> limit]
ExpandedSide(n, limit) ==
  [form |-> "expanded", private |-> Export(Seed(n)), public |-> EdPublic(Seed(n)), limit |-> limit]
LegacySide(n, limit) ==
  [form |-> "legacy", private |-> HexKey(Scalar(n)), public |-> XPublic(Scalar(n)),
   limit |-> limit]

(* The first half of an export where a seed belongs; the keys of an        *)
(* identity where older ones belong.                                       *)
ScalarForSeed(n) == [SeedSide(n, Wide) EXCEPT !.private = HexKey(Expanded(Seed(n)))]
IdentityForLegacy(n) ==
  [ExpandedSide(n, Wide) EXCEPT !.form = "legacy", !.private = HexKey(Expanded(Seed(n)))]

Relay(a, b) == <<a, b, 3, 4, 5, 6, 7, 8>>
R == Relay(7, 1)
S == Relay(66, 2)

Talk ==
  [writer |-> SeedSide(1, Narrow), reader |-> SeedSide(2, Narrow), text |-> <<3, 1>>,
   hashSize |-> 0, repeats |-> 0, ways |-> {<<R>>, <<R, S>>}, times |-> <<Narrow - 2, Narrow - 1>>,
   snrs |-> <<-12, 29, -128>>, tag |-> -3, maxAttempts |-> 2, maxLost |-> 0,
   tracesBack |-> FALSE, traces |-> {}, calls |-> {}]

Silent ==
  [Talk EXCEPT !.writer = SeedSide(1, Wide), !.tag = Modulus + 5, !.maxAttempts = 0, !.ways = {},
               !.times = <<300>>]

Conversations ==
  { Talk, [Talk EXCEPT !.ways = {<<R>>}, !.times = <<300>>, !.tracesBack = TRUE],
    [Talk EXCEPT !.writer = ExpandedSide(1, Wide), !.ways = {<<R>>}, !.maxAttempts = 3,
                 !.maxLost = 2, !.times = <<300>>],
    [Talk EXCEPT !.reader = ExpandedSide(2, Narrow), !.ways = {<< >>}, !.repeats = 2,
                 !.maxLost = 1],
    \* Go programs with hashes of their own, one of them with bytes that are no UTF-8
    [Talk EXCEPT !.hashSize = 1, !.ways = {<<R, S>>}, !.tracesBack = TRUE],
    [Talk EXCEPT !.hashSize = 3, !.ways = {<<R, S>>}],
    [Talk EXCEPT !.hashSize = 1, !.ways = {<<R>>}, !.text = <<3, InvalidByte>>],
    \* Times that an int of 32 bits does not hold, on either side
    [Talk EXCEPT !.times = <<Narrow - 1, Narrow>>],
    [Talk EXCEPT !.writer = SeedSide(1, Wide), !.times = <<Narrow, Modulus + 1>>],
    \* Older keys, and keys of the wrong kind
    [Talk EXCEPT !.writer = LegacySide(1, Narrow), !.reader = LegacySide(2, Wide),
                 !.maxAttempts = 1],
    [Talk EXCEPT !.writer = ScalarForSeed(1), !.reader = ExpandedSide(2, Wide)],
    [Talk EXCEPT !.reader = ScalarForSeed(2)],
    [Talk EXCEPT !.writer = LegacySide(1, Wide), !.maxAttempts = 1],
    [Talk EXCEPT !.writer = IdentityForLegacy(1), !.maxAttempts = 1,
                 !.reader = [LegacySide(2, Wide) EXCEPT !.public = EdPublic(Seed(2))]] }

-----------------------------------------------------------------------------
Nodes(n) == [i \in 1 .. n |-> Relay(i, 255 - i)]

(* Back and forth between two relays; as many hops as a path holds, and    *)
(* one more.                                                               *)
Traces ==
  { [nodes |-> <<R, S, R, S>>, flags |-> 259], [nodes |-> <<S, R, S>>, flags |-> 2],
    [nodes |-> Nodes(63), flags |-> 0], [nodes |-> Nodes(64), flags |-> 0] }

-----------------------------------------------------------------------------
(* A call in a build with narrow ints is read in one with wide ints.       *)
Asks(name, args, reads, with) ==
  [name |-> name, args |-> args, limit |-> Narrow, reads |-> reads, with |-> with, at |-> Wide]
AsksWide(name, args, reads, with) ==
  [name |-> name, args |-> args, limit |-> Wide, reads |-> reads, with |-> with, at |-> Narrow]

Chan == Text(<<1>>)
ChanSecret == [secret |-> {<<1>>}, size |-> 16]
Mine == HexKey(Scalar(1))
Peer == HexKey(Scalar(2))
MyKey == HexKey(XPublic(Scalar(1)))
PeerKey == HexKey(XPublic(Scalar(2)))
Ed(n) == HexKey(EdPublic(Seed(n)))
Zero == Bytes(<<0, 0>>)
EmptyText == Text(<< >>)

ChannelCalls ==
  { Asks("encodeGroupText", <<Chan, Text(<<1>>), Text(<<2, 5>>)>>, "decodeGroupText", <<Chan>>),
    Asks("encodeGroupText", <<Chan, Null, Text(<<2>>)>>, "decodeGroupTextSecret", <<ChanSecret>>),
    Asks("encodeGroupTextSecret", <<ChanSecret, Text(<<1>>), Null>>, "decodeGroupText", <<Chan>>),
    Asks("encodeGroupTextSecret", <<Zero, Text(<<1>>), Null>>, "decodeGroupText", <<Chan>>),
    Asks("encodeGroupText", <<Chan, Text(<<1>>), Text(<<2>>)>>, "decodeGroupText", <<Text(<<2>>)>>),
    Asks("encodeGrpData", <<Chan, Number(300), Bytes(<<1, 0>>)>>, "decodeGrpData", <<Chan>>),
    Asks("encodeGrpData", <<Chan, Number(-1), Null>>, "decodeGrpDataSecret", <<ChanSecret>>),
    Asks("encodeGrpData", <<Chan, Null, Bytes(Zeros(256))>>, "decodeGrpData", <<Chan>>),
    Asks("encodeGrpDataSecret", <<ChanSecret, Number(65536 + 7), Zero>>, "decodeGrpData", <<Chan>>),
    Asks("deriveChannelSecret", <<Chan>>, "nothing", << >>),
    Asks("deriveChannelSecret", << >>, "nothing", << >>) }

PairCalls ==
  { Asks("encodeDirectText", <<Mine, PeerKey, Text(<<3>>)>>, "decodeDirectText", <<Peer, MyKey>>),
    Asks("encodeReq", <<Mine, PeerKey, Number(257), Bytes(<<9>>)>>, "decodeReq", <<Peer, MyKey>>),
    Asks("encodeReq", <<Mine, PeerKey, Null, Null>>, "decodeResponse", <<Peer, MyKey>>),
    Asks("encodeReq", <<Mine, HexKey(ZeroKey), Null, Null>>, "decodeReq", <<Peer, MyKey>>),
    Asks("encodeReq", <<Mine, [PeerKey EXCEPT !.size = 31], Null, Null>>, "decodeReq", <<Peer, MyKey>>),
    Asks("encodeAnonReq", <<PeerKey, Mine, Bytes(<<9>>)>>, "decodeAnonReq", <<Peer>>),
    Asks("encodeAnonReq", <<PeerKey, Mine, Zero>>, "decodeAnonReq", <<Mine>>),
    Asks("encodePathTextAckIdentity",
         <<HexKey(Seed(1)), Ed(2), Number(300), Null, Text(<<3>>), Bytes(<<4, 5>>), Number(2)>>,
         "decodePath", <<Mine, Ed(1)>>),
    Asks("encodePathTextAckExpanded",
         <<Export(Seed(1)), Ed(1), Ed(2), Number(300), Null, Text(<<3>>), Bytes(<<4, 5, 6>>), Number(2)>>,
         "nothing", << >>),
    Asks("encodePathTextAckExpanded",
         <<Export(Seed(1)), Ed(1), Ed(2), Number(-1), Number(9), Text(<<3>>), Bytes(<<4, 5, 6>>), Number(3)>>,
         "decodePathIdentity", <<HexKey(Seed(2)), Ed(1)>>),
    Asks("encodeDirectTextIdentity",
         <<HexKey(Seed(1)), HexKey(OffCurve), Text(<<3>>), Null, Null>>, "nothing", << >>),
    Asks("sharedSecret", <<Mine, PeerKey>>, "nothing", << >>),
    Asks("generateKeypair", << >>, "nothing", << >>) }

PlainCalls ==
  { Asks("encodeAck", <<Number(-1)>>, "decodeAck", << >>),
    Asks("encodeAck", <<Number(Narrow)>>, "decodeAck", << >>),
    AsksWide("encodeAck", <<Number(Modulus + Narrow)>>, "decodeAck", << >>),
    Asks("encodeAck", <<Text(<<1>>)>>, "decodeAck", << >>),
    Asks("encodeMultipartAck", <<Number(17), Number(-Narrow)>>, "decodeMultipart", << >>),
    AsksWide("encodeMultipartAck", <<Null, Number(Narrow + 3)>>, "decodeMultipart", << >>),
    Asks("encodeDiscoverReq", <<Number(258), Number(-2), Null, Number(-1)>>, "decodeControl", << >>),
    AsksWide("encodeDiscoverReq", <<Null, Number(Narrow), Number(70000), Null>>, "decodeControl", << >>),
    AsksWide("encodeTrace", <<Number(Narrow), Number(-1), Number(257), Bytes(<<1, 2, 3>>)>>,
             "decodeTrace", << >>),
    Asks("encodeTrace", <<Null, Null, Null, Bytes(Zeros(176))>>, "decodeTrace", << >>),
    Asks("encodeAck", <<Null>>, "decodeTrace", << >>),
    Asks("encodeAck", <<Null>>, "computeContentHash", << >>),
    Asks("encodeAck", << >>, "nothing", << >>),
    Asks("encodeNothing", << >>, "nothing", << >>) }

Advertised(signature, name, gps, lat, lon) ==
  Asks("encodeAdvert", <<Ed(1), signature, name, gps, lat, lon>>, "decodeAdvert", << >>)

AdvertCalls ==
  { Advertised(Zero, Text(<<1, 5>>), Number(1), [micro |-> 500000], Number(-120)),
    Advertised(Null, EmptyText, Null, Number(0), Null),
    Advertised(Zero, Null, Number(256), Number(91), Null),
    Advertised(Bytes(<<1>>), Text(<<2>>), Null, Null, Null) }

(* RAW packets: a type without a name, and others that are narrowed to one *)
(* that there is.                                                          *)
Raw(r, type, version, size) ==
  Asks("encodeRaw", <<Number(r), Number(type), version, size, Bytes(<<0, 1, 2, 3>>)>>,
       "decodeEnvelope", << >>)

RawCalls ==
  { Raw(1, 12, Null, Null), Raw(1, 14, Null, Number(3)), Raw(0, 15, Number(256), Number(1)),
    Raw(3, 259, Null, Number(2)), Raw(4, 3, Null, Null), Raw(257, 16, Null, Null),
    Raw(1, 3, Number(1), Null), Raw(1, 3, Null, Number(-1)), Raw(1, 3, Null, Number(257)),
    [Raw(258, 9, Null, Number(1)) EXCEPT !.reads = "decodeTrace"] }

(* What a page is given to read may come from anywhere. *)
Given(name, value) == Asks(name, <<value>>, "nothing", << >>)

ReadCalls ==
  { Given("decodeEnvelope", Null), Given("decodeEnvelope", Text(<<1>>)),
    Given("decodeEnvelope", Bytes(<<48, 1, 2, 3, 4, 1, 9, 9>>)),
    Given("computeContentHash", Bytes(<<13, 0, 1>>)), Given("computeContentHash", Bytes(<<13>>)),
    Given("decodeAck", Bytes(<<1, 2, 3>>)), Given("decodeMultipart", Bytes(<<69, 1>>)),
    Given("decodeMultipart", Null), Given("decodeControl", Null),
    Given("decodeControl", Bytes(<<146, 244, 1, 2, 3, 0, 9>>)),
    Given("decodeControl", Bytes(<<144, 1>>)) }

Calls ==
  ReadCalls \union ChannelCalls \union PairCalls \union PlainCalls \union AdvertCalls
    \union RawCalls

PagePlans ==
  Conversations \union
    { [Silent EXCEPT !.traces = Traces],
      [Silent EXCEPT !.calls = Calls, !.times = <<300, Narrow>>] }
===============================================================================
