--------------------------- MODULE AdvertExchange ---------------------------
(***************************************************************************)
(* Nodes that sign adverts, broadcast them and decode those of others, all *)
(* through advert.go, while the clock goes on.                             *)
(*                                                                         *)
(* An application either signs the advert and encodes the result later, as *)
(* often as it broadcasts (SignAdvert, EncodeAdvertPayload), or encodes    *)
(* once and signs the payload (EncodeAdvertPayload, SignAdvertPayload), or *)
(* does not sign at all.  The radio may change a payload or cut it.        *)
(***************************************************************************)
EXTENDS Advert

CONSTANTS
  Drafts,      \* the adverts that applications fill in, not signed
  MaxNow,      \* bound: seconds
  MaxOnAir,    \* bound: payloads on the air
  MaxGarbled   \* bound: payloads that the radio has changed

ASSUME ExchangeAssumption ==
  /\ Drafts \subseteq {a \in Advert : a.Signature = Unsigned}
  /\ MaxNow \in Nat
  /\ MaxOnAir \in Nat
  /\ MaxGarbled \in Nat

VARIABLES
  now,       \* the clock of time.Now, the same for all nodes
  held,      \* the signed adverts that applications keep, with their history
  air,       \* the payloads on the air, with theirs
  signed,    \* every signature made
  accepted,  \* the adverts DecodeAdvertPayload has returned
  garbled    \* how many payloads were changed

vars == <<now, held, air, signed, accepted, garbled>>

(* sent is the payload as it left, payload as it arrives; madeAt is the    *)
(* second in which its signature was made, and NoTime when it has none.    *)
OnAir(payload, draft, madeAt) ==
  [payload |-> payload, sent |-> payload, draft |-> draft, madeAt |-> madeAt, sentAt |-> now]

Init ==
  /\ now = 0
  /\ held = {}
  /\ air = {}
  /\ signed = {}
  /\ accepted = {}
  /\ garbled = 0

Tick ==
  /\ now < MaxNow
  /\ now' = now + 1
  /\ UNCHANGED <<held, air, signed, accepted, garbled>>

Sign(d) ==
  LET a == SignAdvert(d.PublicKey, d, now)
  IN  /\ \A h \in held : h.draft # d
      /\ held' = held \union {[advert |-> a, draft |-> d, madeAt |-> now]}
      /\ signed' = signed \union {a.Signature}
      /\ UNCHANGED <<now, air, accepted, garbled>>

Send(message) ==
  /\ Cardinality(air) < MaxOnAir
  /\ air' = air \union {message}

Broadcast(h) ==
  /\ Send(OnAir(EncodeAdvertPayload(h.advert, now), h.draft, h.madeAt))
  /\ UNCHANGED <<now, held, signed, accepted, garbled>>

BroadcastSignedPayload(d) ==
  LET p == SignAdvertPayload(EncodeAdvertPayload(d, now), d.PublicKey)
  IN  /\ Send(OnAir(p, d, now))
      /\ signed' = signed \union {p.sig}
      /\ UNCHANGED <<now, held, accepted, garbled>>

BroadcastUnsigned(d) ==
  /\ Send(OnAir(EncodeAdvertPayload(d, now), d, NoTime))
  /\ UNCHANGED <<now, held, signed, accepted, garbled>>

(* The appdata loses its tail, one of its bytes changes, or the key or the *)
(* timestamp becomes another one.                                          *)
Damages(p) ==
  {[p EXCEPT !.app = SubSeq(@, 1, k)] : k \in 0 .. Len(p.app) - 1} \union
  {[p EXCEPT !.app[i] = (@ + 16) % 256] : i \in DOMAIN p.app} \union
  {[p EXCEPT !.pub = key] : key \in Key \ {p.pub}} \union
  {[p EXCEPT !.ts = (@ + 1) % TimestampModulus]}

Garble(m) ==
  /\ garbled < MaxGarbled
  /\ garbled' = garbled + 1
  /\ \E p \in Damages(m.payload) :
       air' = (air \ {m}) \union {[m EXCEPT !.payload = p]}
  /\ UNCHANGED <<now, held, signed, accepted>>

(* DecodeAdvertPayload returns an error, or the advert. *)
Receive(m) ==
  /\ DecodeAdvertError(m.payload) = Nil
  /\ accepted' = accepted \union
       {[advert |-> DecodedAdvert(m.payload), intact |-> m.payload = m.sent, draft |-> m.draft]}
  /\ UNCHANGED <<now, held, air, signed, garbled>>

Next ==
  \/ Tick
  \/ \E d \in Drafts : Sign(d) \/ BroadcastSignedPayload(d) \/ BroadcastUnsigned(d)
  \/ \E h \in held : Broadcast(h)
  \/ \E m \in air : Garble(m) \/ Receive(m)

Spec == Init /\ [][Next]_vars

-----------------------------------------------------------------------------
TypeOK ==
  /\ now \in 0 .. MaxNow
  /\ held \subseteq [advert : Advert, draft : Drafts, madeAt : 0 .. MaxNow]
  /\ air \subseteq [payload : Payload, sent : Payload, draft : Drafts,
                    madeAt : {NoTime} \union 0 .. MaxNow, sentAt : 0 .. MaxNow]
  /\ signed \subseteq Signature
  /\ accepted \subseteq [advert : Advert, intact : BOOLEAN, draft : Drafts]
  /\ garbled \in 0 .. MaxGarbled

Fields(a) ==
  [NodeType |-> a.NodeType, HasGPS |-> a.HasGPS, Lat |-> a.Lat, Lon |-> a.Lon,
   HasFeat1 |-> a.HasFeat1, Feature1 |-> a.Feature1,
   HasFeat2 |-> a.HasFeat2, Feature2 |-> a.Feature2, Name |-> a.Name]

(* What a draft tells others: a value whose flag is not set is not sent.   *)
Told(d) ==
  [NodeType |-> d.NodeType % 16,
   HasGPS   |-> d.HasGPS,
   Lat      |-> IF d.HasGPS THEN d.Lat ELSE 0,
   Lon      |-> IF d.HasGPS THEN d.Lon ELSE 0,
   HasFeat1 |-> d.HasFeat1,
   Feature1 |-> IF d.HasFeat1 THEN d.Feature1 ELSE 0,
   HasFeat2 |-> d.HasFeat2,
   Feature2 |-> IF d.HasFeat2 THEN d.Feature2 ELSE 0,
   Name     |-> TrimSpace(UpToNul(d.Name))]

OnEarth(d) ==
  d.HasGPS => d.Lat \in Latitude /\ d.Lon \in Longitude

Intact(m) == m.payload = m.sent

(* The signature was made in another second than the one the payload was   *)
(* encoded in, of an advert that leaves its timestamp to the clock.        *)
Outdated(m) ==
  /\ m.madeAt # NoTime
  /\ m.draft.Timestamp = NoTime
  /\ m.sentAt % TimestampModulus # m.madeAt % TimestampModulus

(* An advert that arrives as it was sent is refused for two reasons only:  *)
(* its coordinates are not on earth, or it has no timestamp of its own and *)
(* the clock ticked between SignAdvert and EncodeAdvertPayload             *)
(* (DecodeAdvertPayload, advert.go:260).                                   *)
IntactIsAccepted ==
  \A m \in air : Intact(m) =>
    (DecodeAdvertError(m.payload) = Nil <=> OnEarth(m.draft) /\ ~Outdated(m))

(* What DecodeAdvertPayload returns with a signature is what the holder of *)
(* the key signed, field by field, whatever the radio did to it            *)
(* (advertSignedMessage, advert.go:132).                                   *)
AcceptedWasSigned ==
  \A a \in accepted : a.advert.Signature # Unsigned =>
    \E s \in signed :
      /\ s.by = a.advert.PublicKey
      /\ s.of[1] = a.advert.PublicKey
      /\ s.of[2] = a.advert.Timestamp
      /\ parseAdvertAppdata(s.of[3]) = Fields(a.advert)

(* What arrives intact says what the application filled in, whichever of   *)
(* the optional fields are there: none is read at another's place          *)
(* (EncodeAdvertPayload, advert.go:62, and parseAdvertAppdata, :291).      *)
AcceptedSaysWhatWasDrafted ==
  \A a \in accepted : a.intact =>
    /\ a.advert.PublicKey = a.draft.PublicKey
    /\ Fields(a.advert) = Told(a.draft)
    /\ a.draft.Timestamp # NoTime =>
         a.advert.Timestamp = a.draft.Timestamp % TimestampModulus

(* VerifyAdvert confirms, at any later time, what DecodeAdvertPayload has  *)
(* accepted, as long as the name did not lose anything: encoding the       *)
(* decoded advert gives the bytes that were signed (VerifyAdvert,          *)
(* advert.go:234).                                                         *)
VerifyConfirms ==
  \A a \in accepted : a.intact /\ a.advert.Name = a.draft.Name =>
    VerifyAdvert(a.advert, now) = Nil

(* "ADVERT -- encode and sign (one step via SignAdvert)": what SignAdvert  *)
(* has signed is valid when it is encoded (README.md:206-210).             *)
SignedIsAccepted ==
  \A m \in air : Intact(m) /\ m.madeAt # NoTime /\ OnEarth(m.draft) =>
    DecodeAdvertError(m.payload) = Nil

(* "VerifyAdvert verifies the signature on adv. Returns nil if the         *)
(* signature is valid" (advert.go:231-232): it does for what               *)
(* DecodeAdvertPayload found valid.                                        *)
ValidIsConfirmed ==
  \A a \in accepted : a.intact => VerifyAdvert(a.advert, now) = Nil
=============================================================================
