---------------------------- MODULE MeshDelivery ----------------------------
(***************************************************************************)
(* What flooding promises, without frames, paths or digests: a node        *)
(* accepts each content at most once, and what it accepts was offered by   *)
(* somebody, up to bytes missing at the end.                               *)
(***************************************************************************)
EXTENDS Naturals, Sequences

CONSTANTS
  Node,
  Offerable  \* what may be offered: a type, a payload and a distinguishing mark

VARIABLES
  offered,   \* the contents that were offered
  accepted   \* accepted[n]: the sequence of the contents node n has accepted

vars == <<offered, accepted>>

BeginningsOf(c) == {<<c[1], SubSeq(c[2], 1, k), c[3]>> : k \in 0 .. Len(c[2])}

Init ==
  /\ offered = {}
  /\ accepted = [n \in Node |-> << >>]

Offer(c) ==
  /\ offered' = offered \union {c}
  /\ UNCHANGED accepted

Accept(n, c) ==
  /\ \A i \in DOMAIN accepted[n] : accepted[n][i] # c
  /\ accepted' = [accepted EXCEPT ![n] = Append(@, c)]
  /\ UNCHANGED offered

Next ==
  \/ \E c \in Offerable : Offer(c)
  \/ \E n \in Node, o \in offered : \E c \in BeginningsOf(o) : Accept(n, c)

Spec == Init /\ [][Next]_vars
=============================================================================
