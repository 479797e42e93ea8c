---------------------------- MODULE Negotiation ----------------------------
(***************************************************************************)
(* The other half of encoding.rs and encoding.cpp: what Hello agrees on,   *)
(* and how a frontend undoes the encoding of one chunk.  Encodings and     *)
(* codecs are the numbers of stream.proto, which may be numbers a peer of  *)
(* another version has given a meaning this one does not know.             *)
(***************************************************************************)
EXTENDS Transition

Unspecified == 0
Packed == 1
TransitionEncoding == 2
NoCodec == 1

(* What this library can decode, in preference order.                      *)
ENCODINGS == <<TransitionEncoding, Packed>>

SampleEncodings == 0 .. 2
CodecNumbers == 0 .. 3

-----------------------------------------------------------------------------
(* The members of list that other has, in the order of list.               *)
Common(list, other) ==
  LET kept[n \in 0 .. Len(list)] ==
        IF n = 0 THEN <<>>
        ELSE IF Contains(other, list[n]) THEN Append(kept[n - 1], list[n])
        ELSE kept[n - 1]
  IN  kept[Len(list)]

(* Variant: no list is taken for no restriction.                           *)
IntersectEmptyIsAny(accept, supported, mandatory) ==
  LET both == IF accept = <<>> THEN supported ELSE Common(supported, accept)
  IN  IF Contains(both, mandatory) THEN both ELSE Append(both, mandatory)

(* Variant: the peer's order.                                              *)
IntersectTheirOrder(accept, supported, mandatory) ==
  LET both == Common(accept, supported)
  IN  IF Contains(both, mandatory) THEN both ELSE Append(both, mandatory)

(* Our preference order; no list promises the mandatory member only.       *)
Intersect(accept, supported, mandatory) ==
  LET both == Common(supported, accept)
  IN  IF accept = <<>> THEN <<mandatory>>
      ELSE IF Contains(both, mandatory) THEN both ELSE Append(both, mandatory)

NegotiateEncodings(accept, supported) == Intersect(accept, supported, Packed)

Accepts(negotiated, encoding) == Contains(negotiated, encoding)

-----------------------------------------------------------------------------
(* A number without a meaning here reads as unspecified.                   *)
Known(number, meanings) == IF number \in meanings THEN number ELSE Unspecified

(* Variant: the encoding a chunk declares is not looked at.                *)
DecodePayloadAsPacked(data, unitsize) == [ok |-> TRUE, packed |-> data.payload]

(* decode_payload: any codec but none is refused, and what is not a        *)
(* TRANSITION payload is passed on as it is.                               *)
DecodePayload(data, unitsize) ==
  IF Known(data.codec, CodecNumbers) \notin {NoCodec, Unspecified} THEN Refused
  ELSE IF Known(data.encoding, SampleEncodings) = TransitionEncoding
    THEN DecodeTransition(data.payload, unitsize, data.sample_count)
    ELSE [ok |-> TRUE, packed |-> data.payload]

=============================================================================
