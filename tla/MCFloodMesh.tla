----------------------------- MODULE MCFloodMesh -----------------------------
(***************************************************************************)
(* Instances of FloodMesh for TLC, with the limits of packet.go.           *)
(***************************************************************************)
EXTENDS FloodMesh

Triangle == [n \in {"a", "b", "c"} |-> {"a", "b", "c"} \ {n}]
Line     == [a |-> {"b"}, b |-> {"a", "c"}, c |-> {"b"}]

(* Nodes a and c share the first byte of their keys, as nodes of a real    *)
(* mesh do with 1-byte hop hashes.                                         *)
Keys == [a |-> <<17, 1, 2>>, b |-> <<130, 255, 0>>, c |-> <<17, 1, 9>>]

Repeat(byte, count) == [i \in 1 .. count |-> byte]

Plain(route, type, size, path, payload) ==
  [Route |-> route, Type |-> type, Version |-> 0, TransportCodes |-> <<258, 65535>>,
   PathHashSize |-> size, Path |-> path, Payload |-> payload]

From(node, packet) == [node |-> node, packet |-> packet]

(* One text message flooded, and the same one by transport relay from      *)
(* another node with other hash sizes; its second byte would be a valid    *)
(* path_len byte.                                                          *)
CrossRoute ==
  { From("a", Plain(RouteFlood, 5, 1, << >>, <<1, 2>>)),
    From("b", Plain(RouteTransportFlood, 5, 0, << >>, <<1, 2>>)) }

(* A message on its way through every pair of relays. *)
OneMessage == { From("a", Plain(RouteFlood, 5, 1, << >>, <<1, 2>>)) }

(* A message whose payload is a beginning of another one's, one TRACE with *)
(* two hops and another with one, which the firmware does not flood, and a *)
(* MULTIPART that does not wrap an ACK.                                    *)
Mixed ==
  { From("a", Plain(RouteFlood, 5, 3, << >>, <<7>>)),
    From("c", Plain(RouteTransportFlood, 5, 2, << >>, <<7, 7>>)),
    From("b", Plain(RouteDirect, PayloadTrace, 1, <<40, 244>>, Repeat(1, 9))),
    From("b", Plain(RouteFlood, PayloadTrace, 1, <<40>>, Repeat(1, 9))),
    From("c", Plain(RouteFlood, PayloadMultipart, 2, << >>, <<21>>)) }

(* Paths at the limits of 64 bytes and 63 hops, payloads of 184 bytes,     *)
(* and packets one byte or one hop over.                                   *)
AtLimits ==
  { From("a", Plain(RouteFlood, 2, 1, Repeat(5, 61), <<1>>)),
    From("a", Plain(RouteFlood, 2, 1, Repeat(5, 64), <<2>>)),
    From("b", Plain(RouteFlood, 2, 2, Repeat(5, 60), <<3>>)),
    From("b", Plain(RouteTransportFlood, 2, 2, Repeat(5, 64), Repeat(6, 184))),
    From("c", Plain(RouteFlood, 2, 3, Repeat(5, 60), <<4>>)),
    From("c", Plain(RouteFlood, 2, 3, Repeat(5, 63), Repeat(7, 185))) }

(* All of these, one at a time. *)
Hostile == OneMessage \union AtLimits

(* These two sets, some at a time. *)
Fair == Mixed \union CrossRoute

(* A TRACE in memory that leaves its hash size to the default. *)
DefaultSizeTrace ==
  { From("a", Plain(RouteDirect, PayloadTrace, 0, <<1, 2>>, Repeat(1, 9))) }
=============================================================================
