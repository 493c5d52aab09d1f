-------------------------- MODULE MCDirectExchange --------------------------
(***************************************************************************)
(* Instances of DirectExchange for TLC, with the limits of packet.go.      *)
(***************************************************************************)
EXTENDS DirectExchange

(* Two ways from ann to bob: over r, or over r and s. *)
Kite ==
  [ann |-> {"r"}, r |-> {"ann", "s", "bob"}, s |-> {"r", "bob"}, bob |-> {"r", "s"}]

Line == [ann |-> {"r"}, r |-> {"ann", "bob"}, bob |-> {"r"}]

(* s shares the first byte of its key with bob, r with ann. *)
KiteKeys ==
  [ann |-> <<7, 0, 1>>, r |-> <<7, 65, 2>>, s |-> <<66, 0, 3>>, bob |-> <<66, 9, 255>>]
LineKeys ==
  [ann |-> <<7, 0, 1>>, r |-> <<66, 65, 2>>, bob |-> <<66, 9, 255>>]

Draft(from, to, text, ts, txtType) ==
  [from |-> from, to |-> to, text |-> text, ts |-> ts, txtType |-> txtType]

(* The same text twice; it fills a block, and has a NUL inside. *)
EqualTexts ==
  LET text == <<1, 0, 3, 1, 1, 1, 1, 1, 1, 1, 2>>
  IN  { Draft("ann", "bob", text, 300, 0), Draft("ann", "bob", text, 301, 1) }

(* A text that ends in a NUL, which the recipient does not see. *)
OneText == { Draft("ann", "bob", <<5, 0>>, 65536, 63) }

(* Either nothing is lost on either way, or up to three packets are.       *)
TwoWays ==
  [keys |-> KiteKeys, neighbours |-> Kite, drafts |-> EqualTexts,
   maxAttempts |-> 1, maxOnAir |-> 9, maxLost |-> 0]
Retries ==
  [keys |-> LineKeys, neighbours |-> Line, drafts |-> OneText,
   maxAttempts |-> 4, maxOnAir |-> 2, maxLost |-> 3]

TextPlans == {TwoWays, Retries}
=============================================================================
