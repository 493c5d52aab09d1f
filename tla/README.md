# Verification of meshpkt

TLA+ models of [meshpkt](../src), the Go library that encodes and decodes MeshCore radio packets, and of its JavaScript
loader; TLC runs that check them on small instances; and proofs, for all values of the parameters, of what matters
most. The code in `src/` is the reference: `PROJECT.json` names, for every definition that models code, the lines it
stands for.

## The system

meshpkt is a library without goroutines and, apart from the loader, without state. What is hard about it shows when
several nodes use it: every node encodes, relays, deduplicates and decodes what others made, at other times, with other
options, over a radio that loses, repeats and truncates. So the models are of two kinds: operators that translate the
functions (`Envelope`, `ContentHash`, `Advert`, `DirectMessage`, `Payloads`, `Keys`, `Operations`), and state machines of
applications that call them (`FloodMesh`, `AdvertExchange`, `DirectExchange`, `Dispatch`, `Pages`). Applications, relays and the radio are not in
`src/`; they do what the library's documentation has them do, and their actions are marked external in the map. The
loader (`Loader`) has state and concurrency of its own.

### Inventory

| Component | Source | State | Operations | Hard about it | What makes it correct |
|---|---|---|---|---|---|
| Envelope | `packet.go`, `validate.go` | none | `EncodePacket`, `DecodePacket`, `Hops`, `HopCount`, `ValidateWire`, `ValidateFirmwareSemantics` | every length comes from an earlier byte; two limits on the path; defaults filled in on encoding only; a cut payload cannot be told | what is encoded is decoded as it was; what is decoded can be relayed unchanged; a cut frame is no other packet |
| Content hash | `content_hash.go` | none | `ContentDigest`, `DecodeContentDigest` and the hashes | taken of packets in memory and of frames, which must agree; TRACE includes its path | same digest exactly for the same content, whatever the route |
| ADVERT | `advert.go` | none; reads the clock | `SignAdvert`, `SignAdvertPayload`, `EncodeAdvertPayload`, `DecodeAdvertPayload`, `VerifyAdvert` | the clock is read once to sign and once to encode; verification encodes anew; optional fields shift one another | what is accepted was signed; what was signed is accepted |
| TXT_MSG, ACK, PATH | `txtmsg.go`, `ack.go`, `req.go` | none | building and reading; `TextAckCRC` | retries with two attempt bits; late acknowledgements; hashes of one byte; a path that loses its hash size | an acknowledgement is for a text that was read; a learned path leads to its peer; a text gets through |
| REQ, RESPONSE, ANON_REQ, GRP_TXT, GRP_DATA, TRACE, MULTIPART, CONTROL | `req.go`, `anonreq.go`, `grptxt.go`, `grpdata.go`, `trace.go`, `multipart.go`, `control.go`, `channel.go` | none | building and reading | block padding, truncation that is tolerated, one-byte channel hashes | what is read is what was written |
| Dispatch | `registry.go` | `DecodeContext` and `Registry` of the caller | `DecodePayload` | the same packet is opaque, an error or a value as the context changes | a fitting context reads what was kept; decoders get what they are registered for |
| Loader | `js/src/index.ts`, `cmd/meshpkt-wasm/main.go` | `runtimeReady`, `apiReady`, `globalThis.Go`, `globalThis.meshpktCall` | `load` | overlapping calls, several copies on a page, every await can fail, a deadline | one program per copy; every call ends; the API is live |
| Crypto and keys | `crypto.go`, `keys.go`, `channel.go` | none | identities, older key pairs, shared secrets from a seed, an expanded key or a pair, sealing, opening, channel secrets | all keys are 32 bytes, and a wrong one is noticed by a MAC at most; a secret can be too short unnoticed | two peers compute one secret exactly when both pass the keys that are asked for |
| Operation table | `ops.go`, `call.go` | none | `CallJSON`, `ParseOpArgs`, `Run` of 44 operations | integers are narrowed unchecked; an int has 32 bits on some builds; null and bad UTF-8 pass silently; what one operation returns goes into the next | what is read is what was asked for; a conversation through operations comes to its acknowledgements |
| Bindings, generators, examples | `cmd/gen-ts`, `mobile/`, `bindings/`, `js/src/wasm.gen.ts`, `examples.go` | none | generated code and one-line bridges | - | not modelled |

The components meet in bytes only. An application fills a `Packet` in and calls `EncodePacket`; the payload was made by
one of the payload functions, with a secret from `keys.go` or `channel.go`; a receiver calls `DecodePacket`, skips what
`ContentDigest` says it has seen, and hands the payload to `DecodePayload`, or relays the packet with one more hop. A
page calls `load()`, which starts the WebAssembly build and waits for it to set `meshpktCall`, through which all
operations go.

`PROJECT.json` lists the hazards of this code, each at its line with the properties that watch it.

## The modules

| Module | Models | Uses |
|---|---|---|
| `Envelope` | packets, frames, `EncodePacket`, `DecodePacket`, `ValidateWire` | |
| `ContentHash` | the digests, `ValidateFirmwareSemantics` | `Envelope` |
| `FloodMesh` | nodes that send, deduplicate, accept and relay; the radio | `ContentHash`; implements `MeshDelivery` |
| `MeshDelivery` | what a mesh promises: no content twice, and none that nobody offered | |
| `FloodMeshProofs` | theorems about them | `PacketProofs` |
| `DataFacts` | lemmas on sequences and numbers | |
| `Advert` | the ADVERT payload and its signature | |
| `AdvertExchange` | applications that sign, broadcast and receive adverts as the clock ticks | `Advert` |
| `AdvertProofs` | theorems about both | `DataFacts` |
| `DirectMessage` | sealing, TXT_MSG, ACK and PATH | `Envelope` |
| `DirectExchange` | nodes that write, acknowledge, return and learn paths, and retry | `DirectMessage` |
| `DirectExchangeProofs` | theorems about the exchange | `PacketProofs` |
| `Payloads` | GRP_TXT, GRP_DATA, REQ, RESPONSE, ANON_REQ, TRACE, MULTIPART, CONTROL | `DirectMessage` |
| `Dispatch` | `DecodePayload` in an application that keeps packets and learns | `Payloads`, `Advert` |
| `PacketProofs` | frames, sealed payloads, texts, paths and routes are read as they were built | `Payloads`, `DataFacts` |
| `DispatchProofs` | theorems about `Dispatch` | `PacketProofs` |
| `Keys` | identities, the three forms of keys, shared secrets | |
| `Operations` | `CallJSON`, `ParseOpArgs` and all operations of `ops.go` | `Payloads`, `ContentHash`, `Keys`, `Advert` |
| `Pages` | pages and Go programs that talk, trace and call, through `CallJSON` | `Operations` |
| `PagesProofs` | theorems about `Pages` | `PacketProofs` |
| `Loader` | `load()` with all its awaits | |
| `LoaderProofs` | theorems | |
| `MCFloodMesh`, `MCAdvertExchange`, `MCDirectExchange`, `MCDispatch`, `MCPages` | the instances that TLC checks | |

A Go call that returns `(value, error)` is a record with an `err` field, `Nil` for no error. Bytes are numbers, and
frames and plaintexts sequences of them, so that offsets, widths and masks are those of the code.

**FloodMesh.** `Send` is an application that calls `EncodePacket` and remembers `ContentDigest` of the packet in
memory. `Accept` is a receiver for which `DecodePacket`, `ValidateFirmwareSemantics` and the digest raise no objection
(`DropReason`); it remembers the digest and relays a flooded packet with the first bytes of its key appended to the path,
if `EncodePacket` takes the result. `Drop` is every other reception. `Lose`, `Duplicate` and `CutShort` are the radio.
Messages and acceptances carry what the properties compare with, and no action reads it: the offer, the trail of relays,
and whether the frame was ever cut.

**AdvertExchange.** `Sign` is `SignAdvert`, `Broadcast` encodes a signed advert at any later time,
`BroadcastSignedPayload` encodes and then signs the payload (`SignAdvertPayload`), `BroadcastUnsigned` does not sign.
`Garble` changes one payload on the air, `Receive` is `DecodeAdvertPayload`. A signature is a key and the message it was
made of. The timestamp has a small modulus in place of 2^32.
Coordinates of an advert are the integers of 32 bits that the code rounds them to; what it makes of a float that does
not fit depends on the processor, and is left out.

**DirectExchange.** `SendText` sends a text flooded or along a learned path, again with the next attempt as long as no
acknowledgement is there. `TakeText` decodes a text and answers a flooded one with PATH and ACK
(`PathTextAckReturnPacketFromIdentity`) and one that came by a path with an ACK; `TakePath` learns the path, takes the
checksum in it, and returns its own path; `TakeAck` takes a plain ACK. `Flood` and `FollowPath` are relays, `Ignore` is
a receiver of what it has seen or what is for another. Packets stand for their frames, which `PacketProofs!RoundTrip`
justifies. Packets to a node that has seen their content are left out when they are transmitted, since it would ignore
them. A secret is the set of its two identities; a sealed payload names the secret that opens it; the acknowledgement
checksum is a number that determines its arguments. Chance collisions (a MAC of 2 bytes, a checksum of 4, a digest of
8) are outside the models.
Timestamps are the `uint32` of the code (`Word`). The checksum says what was written, by whom and when, but not to
whom: when one node writes the same text to two peers in one second, the answer of either acknowledges both, and
`AckConfirmsText` promises no more than that (`Alike`).

**Dispatch.** `Write` is a peer that builds a packet of any type, `CutShort` a radio that loses the end of its payload,
`Learn` and `Register` change the context, and `Read` is a call of `DecodePayload` (then, for an ANON_REQ,
`DecodeAnonReqPayload`) with one of the contexts the application can make. A call that returns an error or a `RawPayload`
changes nothing. An ADVERT has its 100 bytes of key, timestamp and signature, and any appdata, as `SignAdvertPayload`
takes it; it is signed and decoded by the functions of `Advert`, with all their errors. The signature stands whole in each
of its 64 places. `Message` has everything that a peer can pass to a packet function, by the types of its Go parameters;
the runs take 37 of these.

**Keys.** A key is symbolic bytes that know how they came about (a seed, the first half of its SHA-512, an Ed25519 or an
X25519 public key), and that can be passed wherever 32 bytes are asked for, as in the code. A secret is the set of the
two scalars it can be computed from. The order of the length checks and the clamping are those of `keys.go`; keys that
are no point, and points of low order, are refused where the libraries refuse them.

**Operations.** One operator per entry of the table, named like it, from the arguments that `ParseOpArgs` has converted
to the fields of the result; a failure is a record with the field `error`. `WithArgs` is `ParseOpArgs`: the number of
arguments, the kind of each, null for each kind, the range of an int. Integers are narrowed where the code converts
them (`ByteOf`, `Uint16Of`, `Uint32`), and widened to an int of 32 or 64 bits where it does that (`Int32Or64`). The
surroundings of a call are `env`: the second, the random bytes, the range of an int.

**Pages.** Two of them hold a conversation, each with a form of keys and a build of its own: `Write` sends a text, again
while there is no answer, and the next one along the way it has learned; `Read` shows it and answers with
`encodePathTextAck...`, `encodeTextAck` or `encodeMultipartAck`; `Notice` compares the checksum in the answer with the one
that `textAckCrc` gave. Everything that goes into a call has come out of an earlier one. `StartTrace`, `PassTrace` and
`ShowTrace` are a TRACE over the learned way and back, or over a route of the plan; its relays drop what they have seen.
`Ask` is a single call, and `Look` another page, with ints of the other width, that reads its result. Relays of texts
do not deduplicate here: `FloodMesh` and `DirectExchange` have that.

**Loader.** An action is what happens between two awaits: `Load` (a call of `load()`), `ScriptLoaded` and
`ScriptFailed` (`wasm_exec.js`), `Fetched`, `Streamed` and `Buffered` (the module and its compilation; the last two start
the program with `Run` and look for the call with `Poll`), `Wake` (the end of a nap of `waitForCall`). `Register` is the
program that sets `meshpktCall`, `Tick` is time. Copies of the package share the globals only.

## What the runs show

All runs finish; every configuration turns the deadlock check off, because these systems may stop: nobody has to send,
write or load anything, and in the end nothing is on the air.

| Run | Question | Result |
|---|---|---|
| `flood_hostile` | One packet in a triangle, small or at a limit (64 path bytes, 63 hops, 184 bytes of payload, or one more), with one fault: a frame lost, repeated, or cut at any byte. Is every transmitted frame canonical (`AirIsCanonical`)? Is the path the way the frame took (`PathIsTrail`)? Does nothing come back to where it was (`LoopFree`)? Is a cut frame never another packet (`CutNeverForges`)? Does a relay stop exactly when no hop fits (`StopsOnlyWhenFull`)? Does the mesh implement `MeshDelivery` (`Delivers`)? | holds |
| `flood_fair` | Up to three of seven offers, without faults: messages that begin one another, TRACEs with other hop counts, a MULTIPART the firmware refuses, one content on two routes with two hash sizes. Is nothing accepted twice (`AcceptedOnce`)? Are digests equal exactly for equal content (`DigestIsContent`)? Does everyone hear everything (`EveryoneHears`)? | holds |
| `flood_trace` | Is the digest of a packet in memory the digest of its frame? | **no**, see findings |
| `advert_exchange` | Two keys, four drafts with every optional field and the extreme coordinates, a clock that ticks, one payload damaged. Is a good advert accepted (`IntactIsAccepted`), is what is accepted signed by its key (`AcceptedWasSigned`), is it what was filled in (`AcceptedSaysWhatWasDrafted`), and does `VerifyAdvert` agree (`VerifyConfirms`)? | holds |
| `advert_undated` | Is what `SignAdvert` signed accepted? | **no** |
| `advert_trimmed` | Does `VerifyAdvert` confirm what decoding found valid? | **no** |
| `direct_texts` | The same text written in two seconds over two ways, among nodes that share hash bytes, or a text sent up to four times at any time with three packets lost; by flooding and then along learned paths. Are acknowledgements for texts that were read (`AckConfirmsText`), texts from their writers (`TextIsFromItsWriter`), and paths right (`LearnedPathLeads`)? Is a text acknowledged in the end (`TextGetsThrough`)? | holds |
| `pages` | Fourteen conversations of pages and Go programs, four long TRACEs, and single calls of the operations. Is only acknowledged what was read (`AcknowledgedWasRead`)? Is nothing read without the keys that belong together (`ReadOnlyWithItsKeys`)? Do texts follow the learned way (`TextFollowsTheWay`)? Is every answerable text acknowledged in the end (`AnswersReachTheWriter`)? Does a TRACE come to its end (`TraceEnds`) with the SNRs of its route (`SnrAlongRoute`)? Is what is read what was asked for (`ReadIsAsked`)? | holds |
| `dispatch` | One of 37 payloads of every type and at the edges of its format, whole or cut by up to 12 bytes, with two channels that share a hash, two peers that share one, and decoders that take or refuse. Is what is read what was written (`ReadIsWritten`)? Only by whom it was sealed for (`SealedStaysSealed`)? Do decoders get what they are registered for (`DecodersGetTheirKind`)? Does a fitting context read all but the adverts that lack a field or are off the earth (`FittingContextReads`)? | holds |
| `dispatch_halves` | Does the context of the README read what a peer sealed? | **no** |
| `loader_fair` | Two copies, two calls each, every failure. One program per copy (`OneInstance`), a live API or an error (`ApiIsLive`), and an end to every call (`LoadSettles`)? | holds |
| `loader_overslept` | Is "was not registered" true when it is said? | **no** |

Each module with variables has one `TypeOK`, which one of its runs checks.

### Bounds, and why they are enough

- *Three nodes in a mesh.* In a triangle a frame reaches everyone by two ways, comes back, and takes two relays; in a
  line everything must be relayed. Keys share their first byte, so hop hashes collide. The path's own limits are met
  with paths that are almost full at the start.
- *`MaxSent`, `MaxFaults`, `MaxRemains`.* Faults other than cuts only remove or repeat a frame, and deduplication sees
  one frame at a time, so one fault per behaviour meets every check; it is a cut at any byte of every frame
  (`MaxRemains` is at least the length of the longest frame less one, 253). Three contents at once is what it takes for two of them to be confused at a
  node that relays the third. The theorems hold for any number.
- *Adverts.* Two payloads on the air, one damaged, at two times. The signature is over one payload, so a third could not
  matter. `TimestampModulus` 8 has timestamps that do not fit their field, as 2^32 has.
- *Direct texts.* A behaviour has one of two plans. One has two texts and no losses, with the four-node kite that gives
  two ways of different lengths; one more packet on the air than its `maxOnAir` lets through would be a third text. The
  other has one text and as many attempts as the attempt bits tell apart. Its bounds are tight: with four losses, all
  attempts can be lost, and a fifth attempt is dropped by relays as a repetition of the first. `TextNumber` determines
  texts of at most 11 characters below 6, which all texts of the runs are.
- *Pages.* `UintModulus` is 2^24 in place of 2^32, since TLC's own integers have 32 bits, and a narrow int ends below
  2^23: the numbers that do not fit are as many as in the code. `Checksum` is a number that determines its arguments in
  these plans, and is beyond a narrow int for odd attempts. Three attempts and two losses meet every order of answers
  and attempts; two texts are enough to use what the first one taught. TRACEs have 3 and 4 hops, two of them passed
  twice, and 63 and 64, the last that fits and the first that does not. Single calls are enough for operations, which
  keep nothing: every operation is called, with the edges of each argument (null, negative, one beyond a byte or a
  uint16, another kind, too few).
- *Dispatch.* The code keeps nothing from one payload to the next, so one message per behaviour is enough; what
  matters is the order in which it, the secrets and the decoders arrive. Cuts of 12 bytes reach every optional field
  and the minimum of every type in clear except TRACE with its longest route, whose hashes they cut instead. Adverts have
  no appdata (so that every cut is too short), end exactly with their coordinates or a feature or lack its last byte, lie
  on the edge of the map or one millionth of a degree beyond it, and have the longest name that fits or one byte more.
- *Loader.* A second call and a second copy are enough for every overlap: a copy's state does not depend on how many
  calls wait for it. `Deadline` 3 naps in place of 1000 allows to register before, at and after it.

### Fairness

- `FloodMesh!FairSpec`: a frame that a radio has and has not lost is handed over. Nobody is obliged to send or lose.
- `DirectExchange!FairSpec`: receivers receive, and an application that has sent a text sends it again while it is not
  acknowledged and attempts are left; this is what the attempt argument of the library is for.
- `Pages!FairSpec`: a packet that is not lost is handed over, a page writes again while it has no answer and attempts
  are left, and relays pass a TRACE on. Nobody has to begin a conversation, go on with a second text, trace or call.
  `AnswersReachTheWriter` is about plans (`Answerable`) whose keys belong together, whose times fit the ints of both
  builds, whose text is UTF-8, and that lose fewer packets than attempts are made.
- `Loader!FairSpec`: time passes, requests and compilations are answered one way or the other, and a nap that is over
  ends, as a browser or Node does. It is not assumed that anyone calls `load()`, that the program registers, or that a
  nap ends before the deadline.

### Mutants

An operator whose name starts with `Bad` is its namesake with a mistake that the code could have had. Nothing uses it.
With the mistake in place the property beside it fails, which shows that the property depends on that code:

| Mistake | Breaks |
|---|---|
| `BadHashSizeOf`: the mode bits are the hash size | `AirIsCanonical` |
| `BadPathLenByte`: the hop count is written one too low | `PathIsTrail`, `Delivers` |
| `BadContentDigestOfPath`: every type hashes its path descriptor | `LoopFree` |
| `BadPathBytesOf`: a short path is taken as it is | `CutNeverForges` |
| `BadMaxHopCount`: 62 | `StopsOnlyWhenFull` |
| `BadLittleEndian`: a low byte that is not cut off | `FloodMesh!TypeOK` |
| `BadContentDigestOfRoute`, `BadContentDigestNoTrace`, `BadContentDigestShort`: the digest has the route, not the hops of a TRACE, or one byte of payload | `AcceptedOnce`, `DigestIsContent`, `EveryoneHears` |
| `BadUint16Bytes`, `BadFeat2At`, `BadAdvertSignedMessage`, `BadFeat1At`, `BadInt32In`: a byte not cut off, a feature at a fixed place, a timestamp that is not signed, coordinates without sign | `AdvertExchange!TypeOK`, `IntactIsAccepted`, `AcceptedWasSigned`, `AcceptedSaysWhatWasDrafted`, `VerifyConfirms` |
| `BadReturnedPathBytesNoMask`, `BadReturnedPathBytesOneEach`: the path length with its mode bits, or without its hash size | `DirectExchange!TypeOK`; `LearnedPathLeads` and `Pages!TypeOK` |
| `BadTextAckCRCNoTime`, `BadTextAckCRCNoAttempt`: a checksum without the second or the attempt | `AckConfirmsText`, `AcknowledgedWasRead` |
| `BadOpens`: the MAC is not looked at | `TextIsFromItsWriter`, `SealedStaysSealed` |
| `BadFlags`: one attempt bit | `TextGetsThrough` |
| `BadMultipartAckPayload`, `BadGrpDataBytes`, `BadRegistered`, `BadGroupError`: a descriptor that is no byte, padding taken for data, a decoder taken whatever its key, a length check off by one | `Dispatch!TypeOK`, `ReadIsWritten`, `DecodersGetTheirKind`, `FittingContextReads` |
| `BadIdentityFromSeed`: the seed is taken for the scalar | `ReadOnlyWithItsKeys` |
| `BadAlong`: the hash size of a path is not passed on | `TextFollowsTheWay` |
| `BadIntUnsigned`: a number of 32 bits is returned to an int of 32 bits without its sign | `AnswersReachTheWriter` |
| `BadTraceSNRs`, `BadContentDigestNoTrace`: SNRs without sign; a digest that is the same at every hop | `SnrAlongRoute`, `TraceEnds` |
| `BadUint16OfByte`: an argument cut to a byte | `ReadIsAsked` |
| `BadLoaded`, `BadCached`, `BadPollHopeful`, `BadPollForEver`: an error without a name, calls that overlap start twice, the deadline is taken for success, or ignored | `Loader!TypeOK`, `OneInstance`, `ApiIsLive`, `LoadSettles` |

### Findings

- `content_hash.go:33`: a TRACE with `PathHashSize` 0 has another digest in memory than from its frame, although 0 is
  documented as the default. (`flood_trace`)
- `advert.go:225`: an advert without timestamp that `SignAdvert` signed is refused by all receivers when it is encoded in
  a later second. (`advert_undated`)
- `advert.go:244`: `VerifyAdvert` refuses a valid advert whose name ends in white space. (`advert_trimmed`)
- `README.md:117` of the library shows a `DecodeContext` with `shared[:16]`, which fails every MAC, as `registry.go:53`
  says. (`dispatch_halves`)
- `js/src/index.ts:114`: `waitForCall` looks at the clock before it looks for the call, and says that it was not
  registered when it was. (`loader_overslept`)

Met on the way, plain in a single call and without a run: types 0x0C to 0x0E are accepted (`packet.go:96` says not);
`ResponseDecoders` and `CustomDecoders` are never consulted (`registry.go:19-26`); `PathHashes` (`req.go:174`) returns
one string per byte at every hash size; `ErrMultipartRemainingBits` is never returned;
`TracePacket` takes routes of 64 and more one-byte hops, whose SNRs no path holds; `decodeControl` does not return the
tag of a DISCOVER response; `decodePathIdentity` and `decodePathExpanded` do not return the hash size of the path;
`textAckCrc` takes a key of any length, other than `encodeTextAck`.

## What is proved

With TLAPS, for all values of the constants that the named assumptions allow (`EnvelopeLimits`, `MeshAssumption`,
`TimestampAssumption`, `ExchangeAssumption`, `AnswersFit`, `DispatchAssumption`, `LoaderAssumption`,
`OperationsAssumption`, `PagesAssumption`). Most of them only say types. Beyond that,

- keys have at least three bytes, a hash size is 1, 2 or 3, neighbours are nodes, and a deadline is not 0;
- an advert that is to be signed is unsigned;
- a public key is 32 bytes, and different ones have different bytes (`OperationsAssumption`); a relay is the eight bytes
  that a hash of a TRACE has at most, and has measured some SNR (`PagesAssumption`);
- the two sides of a conversation have scalars of their own, and a scalar is not one that only a public key would give
  away (`OwnScalar`, `IsSide`); the private key and the public key of one side need not belong together. Who has an
  identity has an Ed25519 key, a Go program has a seed, and a page with keys of the older kind makes one attempt, since
  `encodeDirectText` takes neither a second nor an attempt (`IsPlan`);
- in one conversation, the checksums of different seconds and attempts are different 32-bit numbers, which stands for
  four bytes of a SHA-256 that do not meet by chance, and the text does not end in a NUL, which is never read (`IsText`;
  that `TextAckCRC` hashes second and attempt is not assumed);
- identities have different keys, and none is also the name of a channel, which stands for secrets that are not equal by
  chance (`DispatchAssumption`); the one-byte hashes of both may be equal;
- in one conversation, texts with one `TextNumber` are equal texts, which stands for a SHA-256 without collisions;
- a path of `MaxPathBytes` with an acknowledgement and its padding fits a payload (`AnswersFit`). With the limits of the
  code this is 64 + 27 =< 184. Without it a text would be read and its answer not made.

- `PacketProofs`: `RoundTrip` (decoding a frame gives the packet that was encoded, with the default hash size in and
  unused codes zero), `DecodedIsWire` (what is decoded satisfies `ValidateWire`), `Canonical` (encoding what was decoded
  gives the frame back, byte for byte). They assume only that the two limits are naturals (`EnvelopeLimits`). The
  argument goes through the header byte, the `path_len` byte and the codes one by one, with lemmas on quotients and
  remainders, and then through the places of the fields in the frame.
- `FloodMeshProofs`: `TypeCorrect`; `AlwaysCanonical`, because what a node transmits it has just encoded from a valid
  packet and `RoundTrip` and `Canonical` apply; `NeverTwice`, for any mesh, radio and number of offers. `AcceptedOnce` is
  not inductive: a node may accept whatever it has not remembered. The invariant adds `Remembered` (all a
  node has accepted is valid, with its digest in `seen`) and `Distinguished` (two acceptances have different digests);
  `AcceptedOnce` follows because valid packets of equal content have equal digests, the lemma
  `ContentDeterminesDigest`.
  Its second half is what becomes of a packet on its way, for any number of relays. `NothingIsForged`
  (`CutNeverForges`), `PathTellsTheTrail` (`PathIsTrail`) and `NeverComesBack` (`LoopFree`) say nothing of what a frame
  has yet to meet, so they are proved from `FlightInv`, which does: for each frame on the air, the packet that was
  transmitted has the fields and hops of its offer and then the hashes of its relays (`Carried`), the receiver's bytes
  are a beginning of it (`IsBeginning`), and while no byte is missing its sender and its relays have its digest in
  `seen` (`KnownOnItsWay`). A relay keeps it because appending a hop to a path adds one to `Hops` and changes none
  (`HopsOfWithHop`), because the fields in front of a cut stay where they are (`CutShortensPayload`), and because no
  relay changes the digest of anything but a TRACE, which is not relayed here (`TraceFacts`). `RelaysUntilFull`
  (`StopsOnlyWhenFull`) needs `RelayIsRecorded` only. `DigestTellsContent` (`DigestIsContent`) shows that a digest
  determines the type, the hop count of a TRACE and the payload (`DigestDeterminesContent`), the other way round than
  `NeverTwice` needs it. `MeshDelivers` is the refinement: with the contents of `got` for what was accepted, the initial
  states are those of `MeshDelivery`, `Send` and `Accept` are its steps (a content that is accepted is new at this node,
  by `Distinguished`, and is a beginning of one that was offered), and all else is a stutter.
- `AdvertProofs`: `ReadsAsTold` is about the functions alone: `parseAdvertAppdata` of the appdata of any advert gives
  back what it tells (`Told`), with any of the optional fields, and refuses it exactly when the coordinates are not on
  earth; by the flags byte, two's complement in four bytes, and the five fields one after another. The rest is about
  `AdvertExchange`, for all keys, drafts and clocks: `AdvertsAreAdverts` (`TypeOK`), `OnlySignedIsAccepted`
  (`AcceptedWasSigned`), `SaysWhatWasDrafted` (`AcceptedSaysWhatWasDrafted`), `IntactIsDecoded` (`IntactIsAccepted`) and
  `VerifyAgrees` (`VerifyConfirms`), all from `ExchangeInv`. It adds to `TypeOK` what signed adverts and payloads are in
  terms of the drafts and of the two seconds in which they were signed and encoded (`HeldIsSigned`, `AirIsSent`), that
  the radio invents no signature (`AirIsSigned`), and that an accepted advert carries its draft's fields (`IntactIsTold`).
  `IntactIsDecoded` compares the two seconds; `VerifyAgrees` encodes the advert anew, and needs that `Told` has lost
  nothing but white space of the name. TLC has checked `ExchangeInv` itself on the instance of `advert_exchange`.
- `DirectExchangeProofs`: `ExchangeTypeCorrect` (`TypeOK`), `AcksAreEarned` (`AckConfirmsText`), `TextsAreTheirWriters`
  (`TextIsFromItsWriter`) and `PathsLead` (`LearnedPathLeads`), for every set of plans: any nodes and neighbours, equal
  keys among them, any texts, and any number of attempts and losses. The properties say nothing of packets on the air,
  and none of them is inductive. `ExchangeInv` (`ExchangeInvariant`) says where every packet comes from: a text was sent
  by its writer in an attempt that was made (`IsSent`), a returned path was made by a node that the path reaches from its
  peer, and carries an acknowledgement only of a text that this node has read from this peer (`IsReturned`), a plain
  acknowledgement is of a text that was read (`IsAnswer`). Its maker has the content in `seen`, and the path of a
  flooded packet leads from its maker to its receiver (`CameBy`). What nodes keep comes from that: what was read was
  written (`WasRead`), what was confirmed was answered (`WasAnswered`), and learned paths lead (`LeadsThere`).
  That a payload is read only by the one it was made for takes two facts together. A shared secret opens it at both of
  its ends, so `Opens` alone would let a node read its own text when that comes back; but its maker ignores what it has
  in `seen` (`OtherEnd`). What is read is what was written in spite of the zeros that a block cipher pads with
  (`TextIsRead`, `PathIsRead`; for the text because `TrimNuls` of a padded text is that of the text, `TrimPadded`; for the
  extra because its type says how long it is). A path leads one node further by the hash of the relay that appends it
  (`LeadsFurther`), and the checksum of a text is that of no text that is not `Alike` (`CrcIsOfText`).
  TLC has checked `ExchangeInv` itself on the instance of `direct_texts`.
- `DispatchProofs`: `DispatchTypes` (`TypeOK`), `DispatchReadsWhatWasWritten` (`ReadIsWritten`), `DispatchNeedsTheSecret`
  (`SealedStaysSealed`), `DispatchKeepsDecodersApart` (`DecodersGetTheirKind`) and `DispatchReadsWhatFits`
  (`FittingContextReads`), for every message that the packet functions take (`Message`, not the 37 of the runs), any
  identities, channels and decoders, and any cut. The properties about `read` say nothing of what is in the store, so they
  are not inductive: a packet that was never written would be read as something never said. `DispatchInv` adds where a
  stored packet comes from (`IsReceived`): it has the payload of its message, or the beginning of it with, when it was
  sealed, a MAC that fits no more. The heart is one lemma per type (`AckIsRead`, `GroupTextIsRead`, `ReqIsRead`,
  `TraceIsRead`, `DiscoverRespIsRead`, ...), each of which says of every received packet and every context what
  `DecodePayload` makes of it (`IsRead`): what was written, opened only with its secret, handed to the right decoder,
  and no error when the context fits. They rest on what the builders and parsers do with bytes: a fill of zeros after a
  plaintext keeps its front and is told from it by GRP_DATA's length only (`IsFill`, `ThreeThen`); a group text that is
  parted at its first ": " gives back its sender when that has none, and always the same whole (`FirstMark`,
  `PartedAtMark`, `MarkIsKept`); the hops of a TRACE are the slices of the route that was made by joining them, all
  of them or as many as are left of it (`RouteIsFlat`, `HashesLeft`; the join is a recursive function, and there is
  no least hop at which it parts from the closed form `Flat`); an SNR is the byte that it was written as (`SnrIsRead`); and a
  shortened DISCOVER is too short to be one, or says the same without what is missing (`DiscoverReqIsRead`,
  `KeyLeft`), and an advert that lost its end is refused unless it is unsigned, and then its flags still tell which
  fields it has (`SignatureOfBeginning`, `FieldsOfBeginning`). `FittingContextReads` follows without induction of its own
  from the same lemmas, since every stored packet is a received one. TLC has checked `DispatchInv` itself on the instance of `dispatch`.
- `PagesProofs`: `PagesShowWhatRelaysMeasured` (`SnrAlongRoute`), for every set of plans: any relays and hash sizes, any
  tag, authentication code and SNRs, and sides with any range of an int. A shown TRACE is only as good as the packet
  that it was decoded from, and that went through every relay, so the property is not inductive. `TraceInv` adds that
  the packet that passes is still `TraceOf` what the caller wrote, and that its path has, for each relay behind it, the
  byte that this relay measured (`PacketAfter`, `Measured`). Each action has its lemma. `TraceIsWritten` follows
  `encodeTrace` from the JSON arguments through every check to the packet; `TraceIsKept` shows that `EncodePacket`
  changes nothing of it; `PassTraceKeeps` lets a relay recognise its own hash and append its SNR; and
  `TraceReads` and `TraceIsShown` follow `decodeTrace` back to the hops of the result. Between them are the slices of a
  route (`NodeHashes`, `HashesLeft`), the SNR and its byte (`SnrIsRead`), and the tag, which a 32-bit int shows as another
  number of the same remainder (`NarrowedIsWord`, `WidenedIsCongruent`). TLC has checked `TraceInv` itself on the instance of
  `pages`.
  The conversation has theorems of its own, for any two sides with keys of any form that match or do not, any ways, ints
  of any size, attempts, repetitions and losses: `PagesTypes` (`TypeOK`), `PagesAcknowledgeWhatWasRead`
  (`AcknowledgedWasRead`), `PagesNeedTheKeys` (`ReadOnlyWithItsKeys`) and `PagesFollowTheWay` (`TextFollowsTheWay`). None
  of the properties is inductive: they say nothing of what a packet in the air will be read as. `ConversationInv`
  (`ConversationHolds`) does. `AirInv` says where packets come from: one to the reader carries a text of the plan, with a
  second and an attempt of it, sealed with the secret of the writer, and is laid along a way when it does not flood
  (`IsSent`); one to the writer carries, in one of the three forms, the checksum of a text that was shown (`Confirms`).
  `WrittenInv` says what the writer waits for (`Expects`), `ShownInv` that what was shown was written and that both sides
  have one secret by then, and `RouteInv` that a learned path is a way, with its hash size. `ReadKeeps` and `NoticeKeeps`
  are the long steps. What is read is what was written, through the padding and the replacement of what is no UTF-8
  (`TextIsGot`); the answer to it confirms its checksum, whichever operation makes it (`AnswersConfirm`); and the answer
  tells the writer that checksum, and a path that is a way (`AnswerTells`). A 32-bit int shows a checksum as a negative
  number, from which it is still known (`IntTellsChecksums`), so an awaited checksum settles the second and the attempt
  (`ChecksumSettles`). Envelopes come through because the radio changes nothing but the path (`ArrivedEnvelope`), and
  a path of whole hashes is cut into them and joined again (`RouteIsCut`, `WayIsHops`). `PairedKeysShareOneSecret` is
  about keys alone: two sides that find a secret find the same one exactly if their keys are `Paired`, in each of the
  three forms. Operations take and return operators, which the proofs expand, each in a lemma of its own. TLC has checked
  `ConversationInv` itself on the instance of `pages`.
- `LoaderProofs`: `LoaderTypeCorrect`, `StartsOnce` and `HandsOutLiveApi`, from one inductive invariant: `TypeOK`,
  `ApiIsLive`, a copy has started at most one program, none before it reaches `go.run`, and asks for `wasm_exec.js`
  only while it waits for the runtime (`StartedOnce`), and `meshpktCall` is a registered copy or none (`CallIsRegistered`).

`DataFacts` has the lemmas that several of them cite: the fields of a concatenation, slices, beginnings, and the four
digits of a number. Where a definition chooses the least or the greatest number with a property (`TrimSpace`, `UpToNul`,
`TrimNuls`), that there is one comes from `WFMin` of `WellFoundedInduction` (`HasLeast`, `HasGreatest`); this is all the
induction over data that the proofs need.

Only checked by TLC:

- everything about liveness (`EveryoneHears`, `TextGetsThrough`, `LoadSettles`, `AnswersReachTheWriter`, `TraceEnds`),
  which is beyond the prover;
- the digits of `TextNumber`, a fold over a text: it stands for SHA-256 and keeps only short texts apart, so
  `ExchangeAssumption` asks of the texts of a plan that different ones have different numbers;
- `ReadIsAsked` of `Pages`. It is about the single calls that the runs make: for arbitrary ones it is not true as stated,
  since a call may be given what no operation returned.

## What is not modelled

- AES, HMAC, SHA-256, Ed25519 and X25519 are symbolic; the strings of types and routes in results, and hex, are left out.
- Arguments of `CallJSON` that are no JSON array, and the texts of errors. Labels, placeholders and groups of the
  operation table, which only forms use.
- `textAckCrc` with a sender key of another length than 32 bytes: its checksum is one that nobody waits for.
- What a DISCOVER response answers: the code reads responses and never builds one, and relates none to a request.
- Code generators, generated bindings, examples, and `buildAPI`, whose wrappers keep no state: they pass a name and
  arguments to `CallJSON` and its result back.

## Plan

Done, in this order: the envelope and the mesh, with their theorems; adverts; the loader, with its theorems; direct
messages; the other payloads and their dispatcher; keys, the operations, and pages that work with them. The proofs of
`FloodMesh`, of its refinement, of the adverts, of direct messages, of the dispatcher, of the TRACE of pages and of their
conversation followed. Left is `ReadIsAsked` for every single call whose arguments an operation can have returned, one
lemma per pair of operations.
