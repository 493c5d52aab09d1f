----------------------------- MODULE MCDispatch -----------------------------
(***************************************************************************)
(* Instances of Dispatch for TLC, with the limits of packet.go.            *)
(***************************************************************************)
EXTENDS Dispatch

(* "#a" and "#b" have the same hash. *)
Hashes == [name \in {"#a", "#b"} |-> 17]

(* ann and bob have the same first byte. *)
Keys ==
  [n \in {"me", "ann", "bob"} |->
     [i \in 1 .. KeySize |-> IF i = 1 THEN (IF n = "me" THEN 9 ELSE 7)
                             ELSE (IF n = "ann" THEN i ELSE 100 + i)]]

Count(n) == [i \in 1 .. n |-> i]

GroupTextFrom(sender, text) ==
  [type |-> PayloadGrpTxt, channel |-> "#a", sender |-> sender, text |-> text, ts |-> 70000]

(* The least and the most that a group packet holds; one byte more, which  *)
(* does not fit; a sender with a colon at its end, and one with ": ".      *)
ForGroups ==
  { GroupTextFrom(<< >>, << >>),
    GroupTextFrom(<<1, Colon>>, <<2, Colon, Blank, 3, 0, 0>>),
    GroupTextFrom(<<1, Colon, Blank, 4>>, <<5>>),
    [type |-> PayloadGrpData, channel |-> "#b", dataType |-> 513, data |-> << >>],
    [type |-> PayloadGrpData, channel |-> "#b", dataType |-> 2, data |-> <<5, 0, 0>>],
    [type |-> PayloadGrpData, channel |-> "#b", dataType |-> 65535, data |-> Count(173)],
    [type |-> PayloadGrpData, channel |-> "#b", dataType |-> 0, data |-> Count(174)] }

ForPairs ==
  { [type |-> PayloadTxtMsg, from |-> "ann", to |-> "me", text |-> <<1, 0, 2, 0>>,
     attempt |-> 3, ts |-> 5],
    [type |-> PayloadReq, from |-> "ann", to |-> "me", reqType |-> 1, data |-> << >>, ts |-> 256],
    [type |-> PayloadReq, from |-> "bob", to |-> "me", reqType |-> 2, data |-> Count(11), ts |-> 1],
    [type |-> PayloadResponse, from |-> "bob", to |-> "me", data |-> << >>],
    [type |-> PayloadResponse, from |-> "me", to |-> "ann", data |-> Count(17)],
    [type |-> PayloadPath, from |-> "bob", to |-> "me", path |-> Count(6), size |-> 3],
    [type |-> PayloadAnonReq, from |-> "ann", to |-> "me", data |-> <<8>>, ts |-> 77],
    [type |-> PayloadAnonReq, from |-> "ann", to |-> "bob", data |-> <<8>>, ts |-> 77] }

AdvertFrom(signed, appdata) ==
  [type |-> PayloadAdvert, from |-> "ann", ts |-> 70000, signed |-> signed, appdata |-> appdata]

NorthPole == <<128, 74, 93, 5>>  \* 90.000000
OffEarth  == <<129, 74, 93, 5>>  \* 90.000001
DateLine  == <<0, 107, 69, 245>> \* -180.000000
OffMap    == <<255, 106, 69, 245>> \* -180.000001

(* No appdata; a name with white space at both ends; every field, on the   *)
(* edge of the map; coordinates and features that end the payload, and     *)
(* that lack its last byte; one millionth of a degree off the map in the   *)
(* north and in the west; the longest name that fits, and one byte more.   *)
Adverts ==
  { AdvertFrom(FALSE, << >>),
    AdvertFrom(TRUE, <<129, 194, 160, 65, 32>>),
    AdvertFrom(FALSE, <<242>> \o NorthPole \o DateLine \o <<1, 2, 255, 255, 65, 0, 66>>),
    AdvertFrom(TRUE, <<17>> \o NorthPole \o DateLine),
    AdvertFrom(TRUE, <<98, 1, 2, 3, 4>>),
    AdvertFrom(TRUE, <<145>> \o OffEarth \o DateLine \o <<65>>),
    AdvertFrom(TRUE, <<17>> \o NorthPole \o OffMap),
    AdvertFrom(TRUE, <<17>> \o NorthPole \o <<0, 107, 69>>),
    AdvertFrom(FALSE, <<98, 1, 2, 3>>),
    AdvertFrom(TRUE, <<129>> \o Count(83)),
    AdvertFrom(TRUE, <<129>> \o Count(84)) }

InClear ==
  { [type |-> PayloadAck, crc |-> 123456789],
    [type |-> PayloadTrace, tag |-> 66051, authCode |-> 1, flags |-> 0, hops |-> <<<<1>>, <<2>>>>],
    [type |-> PayloadTrace, tag |-> 1, authCode |-> 2, flags |-> 2,
     hops |-> <<Count(4), <<9, 8, 7, 6>>>>],
    [type |-> PayloadTrace, tag |-> 1, authCode |-> 2, flags |-> 3, hops |-> << >>],
    [type |-> PayloadMultipart, remaining |-> 2, crc |-> 513],
    [type |-> PayloadMultipart, remaining |-> 17, crc |-> 513],
    [type |-> PayloadRawCustom, data |-> <<1, 2>>] }

ForControl ==
  { [type |-> PayloadControl, sub |-> SubDiscoverReq, typeFilter |-> 2, tag |-> 67305985,
     since |-> 16909060, prefixOnly |-> TRUE],
    [type |-> PayloadControl, sub |-> SubDiscoverResp, nodeType |-> 4, snr |-> -12,
     tag |-> 67305985, pubKey |-> Count(8)],
    [type |-> PayloadControl, sub |-> SubDiscoverResp, nodeType |-> 1, snr |-> 127,
     tag |-> 1, pubKey |-> Count(32)],
    [type |-> PayloadControl, sub |-> 3, data |-> <<6, 7>>] }

Everything == ForGroups \union ForPairs \union InClear \union Adverts \union ForControl

DecoderOf(map, key, accepts) == [map |-> map, key |-> key, accepts |-> accepts]

(* For a request, and for malformed requests of discovery; one that fails. *)
SomeDecoders ==
  { DecoderOf("RequestDecoders", 1, TRUE),
    DecoderOf("RequestDecoders", 2, FALSE),
    DecoderOf("ControlDecoders", SubDiscoverReq, TRUE),
    DecoderOf("ResponseDecoders", 1, TRUE) }
=============================================================================
