--------------------------- MODULE MCStreamSender ---------------------------
(***************************************************************************)
(* Frontends and plugins of this version and of others.                    *)
(***************************************************************************)
EXTENDS StreamSender

Later == 3  \* an encoding a later version may define

(* This library's client, one that takes what it gets, one of another      *)
(* preference, one that does not name the mandatory member, a later one.   *)
Frontends ==
  {ENCODINGS, <<>>, <<Packed, TransitionEncoding>>, <<TransitionEncoding>>,
   <<Later, Packed>>}

Plugins == {ENCODINGS, <<Packed>>, <<Later, TransitionEncoding, Packed>>}

(* What Hello agrees on is what both sides have and PACKED, in the         *)
(* plugin's order of preference (encoding.rs:14-25, capture.proto:80-84).  *)
HelloIsIntersection ==
  \A supported \in Plugins :
    LET agreed == NegotiateEncodings(accept, supported)
        at(e) == CHOOSE i \in DOMAIN supported : supported[i] = e
    IN  /\ ToSet(agreed) = (ToSet(accept) \cap ToSet(supported)) \cup {Packed}
        /\ \A i, j \in DOMAIN agreed : i < j => at(agreed[i]) < at(agreed[j])

=============================================================================
