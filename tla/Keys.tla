--------------------------------- MODULE Keys ---------------------------------
(***************************************************************************)
(* Identities and shared secrets: keys.go, and the helpers of txtmsg.go    *)
(* that call it with the keys a caller has.                                *)
(*                                                                         *)
(* Keys are symbolic.  Thirty-two bytes are a pair whose first place says  *)
(* how they came about: <<"seed", n>>, <<"sha", x>> (the first half of     *)
(* SHA-512 of x, clamped), <<"ed", x>> (the Ed25519 public key of the seed *)
(* x), <<"x", s>> (the X25519 public key of the scalar s), or anything     *)
(* else.  Nothing but the label on it tells a caller which of them a key   *)
(* is: all of them can be passed wherever 32 bytes are expected.  A key    *)
(* that is passed has a size, and stands for its first 32 bytes.           *)
(***************************************************************************)
EXTENDS Integers

CONSTANTS
  NoPoint,   \* the 32 bytes that are no point of the Edwards curve
  LowOrder   \* the X25519 public keys that ECDH refuses

Ok == "nil"

Seed(n)       == <<"seed", n>>
Expanded(x)   == <<"sha", x>>
EdPublic(x)   == <<"ed", x>>
XPublic(s)    == <<"x", s>>

HexKey(bytes) == [key |-> bytes, size |-> 32]

(* The export of a companion app: 64 bytes that begin with the scalar.     *)
Export(seed) == [key |-> Expanded(seed), size |-> 64]

(* A string that hex.DecodeString takes, of n bytes. *)
HasBytes(k, n) == "key" \in DOMAIN k /\ k.size = n

Secret(s)   == [err |-> Ok, secret |-> s]
NoKeys(why) == [err |-> why, secret |-> {}]

(* X25519 is commutative: a secret is the set of the two scalars it can be *)
(* computed from.  A public key that nobody has made has a logarithm that  *)
(* nobody knows.                                                           *)
ScalarOf(public) == IF public[1] = "x" THEN public[2] ELSE <<"log", public>>

ECDH(scalar, public) ==
  IF public \in LowOrder THEN NoKeys("ECDH")
  ELSE Secret({scalar, ScalarOf(public)})

(* BytesMontgomery: the X25519 key of the same scalar. *)
Montgomery(public) ==
  IF public[1] = "ed" THEN XPublic(Expanded(public[2])) ELSE <<"mont", public>>

(* Clamping changes nothing about bytes that were clamped before.          *)
sharedSecretFromScalar(scalar, peer) ==
  IF peer \in NoPoint THEN NoKeys("InvalidPeerKey")
  ELSE ECDH(scalar, Montgomery(peer))

-----------------------------------------------------------------------------
BadIdentityFromSeed(seed) == [PublicKey |-> EdPublic(seed), scalar |-> seed]
IdentityFromSeed(seed) ==
  [PublicKey |-> EdPublic(seed), scalar |-> Expanded(seed)]

IdentitySecret(seed, peer) ==
  sharedSecretFromScalar(IdentityFromSeed(seed).scalar, peer)

identitySharedSecret(seed, peer) ==
  IF ~HasBytes(seed, 32) \/ ~HasBytes(peer, 32) THEN NoKeys("KeySize")
  ELSE IdentitySecret(seed.key, peer.key)

SharedSecretFromExpanded(expanded, peer) ==
  IF ~(HasBytes(expanded, 32) \/ HasBytes(expanded, 64)) \/ ~HasBytes(peer, 32)
  THEN NoKeys("KeySize")
  ELSE sharedSecretFromScalar(expanded.key, peer.key)

(* The sender's public key is taken as it is: it is not derived from the   *)
(* private key, nor compared with it.                                      *)
expandedIdentityContext(expanded, mine, peer) ==
  IF ~HasBytes(mine, 32) THEN NoKeys("KeySize")
  ELSE SharedSecretFromExpanded(expanded, peer)

-----------------------------------------------------------------------------
(* The older key pairs: a private key is an X25519 scalar. *)
Generate(scalar) == [publicKey |-> HexKey(XPublic(scalar)), privateKey |-> HexKey(scalar)]

PublicKeyFromPrivate(private) == XPublic(private.key)

LegacySecret(private, peer) ==
  IF ~HasBytes(private, 32) \/ ~HasBytes(peer, 32) THEN NoKeys("KeySize")
  ELSE ECDH(private.key, peer.key)

(* The sender's public key comes from its private one. *)
keysAndSecret(private, peer) == LegacySecret(private, peer)
===============================================================================
