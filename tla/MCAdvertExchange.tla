-------------------------- MODULE MCAdvertExchange --------------------------
(***************************************************************************)
(* Instances of AdvertExchange for TLC.                                    *)
(***************************************************************************)
EXTENDS AdvertExchange

Draft(key, time, type, name) ==
  [PublicKey |-> key, Timestamp |-> time, Signature |-> Unsigned, NodeType |-> type,
   HasGPS |-> FALSE, Lat |-> 0, Lon |-> 0,
   HasFeat1 |-> FALSE, Feature1 |-> 0, HasFeat2 |-> FALSE, Feature2 |-> 0, Name |-> name]

At(d, lat, lon) == [d EXCEPT !.HasGPS = TRUE, !.Lat = lat, !.Lon = lon]
WithFeature1(d, n) == [d EXCEPT !.HasFeat1 = TRUE, !.Feature1 = n]
WithFeature2(d, n) == [d EXCEPT !.HasFeat2 = TRUE, !.Feature2 = n]

(* A name with an inner blank and a timestamp that does not fit its field; *)
(* a node type over the nibble, the second feature only and no timestamp;  *)
(* all fields with the largest coordinates; and coordinates off the earth. *)
Assorted ==
  { Draft("k1", 9, 2, <<65, 32, 66>>),
    WithFeature2(Draft("k1", NoTime, 17, << >>), 65535),
    WithFeature1(At(Draft("k2", 1, 1, <<0>>), -90000000, 180000000), 258),
    At(Draft("k2", 2, 1, <<67>>), 90000001, -1) }

(* The documented use: no timestamp. *)
Undated == { Draft("k1", NoTime, 1, <<65>>) }

(* A name that ends in a blank. *)
BlankEnd == { Draft("k1", 5, 1, <<65, 32>>) }
=============================================================================
