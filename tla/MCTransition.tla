---------------------------- MODULE MCTransition ----------------------------
(***************************************************************************)
(* Every byte string up to MaxLen, once as the samples a plugin encodes    *)
(* and once as the payload a frontend decodes.                             *)
(***************************************************************************)
EXTENDS Transition

CONSTANTS
  MaxLen,    \* bound: bytes in a string
  Unitsizes  \* the sample widths tried, in bytes

(* A string's length is a usize; no sample is of no bytes.                 *)
ASSUME StringAssumption ==
  /\ MaxLen \in Nat /\ MaxLen < Limit
  /\ Unitsizes \subseteq Nat \ {0}

VARIABLE bytes

Init == bytes = <<>>

Extend ==
  /\ Len(bytes) < MaxLen
  /\ \E b \in Bytes : bytes' = Append(bytes, b)

Spec == Init /\ [][Extend]_bytes

-----------------------------------------------------------------------------
Whole(u) == SubSeq(bytes, 1, Samples(bytes, u) * u)

(* What a plugin encodes a frontend decodes, whole samples and in order,   *)
(* over the boundary from one varint byte to two (encoding.rs:46-93).      *)
RoundTrip ==
  \A u \in Unitsizes :
    LET decoded == DecodeTransition(EncodeTransition(bytes, u), u, Samples(bytes, u))
    IN  decoded.ok /\ decoded.packed = Whole(u)

(* No payload says the same in fewer bytes than the encoder: a decoded     *)
(* payload encodes again to one that is not longer (encoding.rs:46-93).    *)
EncodingIsShortest ==
  \A u \in Unitsizes :
    LET all == Expand(bytes, u) IN
    all.ok => Len(EncodeTransition(all.packed, u)) <= Len(bytes)

(* A payload is accepted for one sample count at most, the number of       *)
(* samples it expands to (encoding.rs:86-91).  Beyond the counts tried     *)
(* here samples * unitsize wraps and more than one count is accepted.      *)
CountIsChecked ==
  \A u \in Unitsizes : \A n \in 0 .. (Limit - 1) \div u :
    LET decoded == DecodeTransition(bytes, u, n)
    IN  decoded.ok => Len(decoded.packed) = n * u

(* A varint that does not fit the machine word is an error                 *)
(* (encoding.rs:139).                                                      *)
OversizedIsRefused ==
  LET v == GetVarint(bytes, 1) IN
  v.ok => v.value = VarintValue(bytes, 1, v.next - 1)

=============================================================================
