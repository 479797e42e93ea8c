----------------------------- MODULE Transition -----------------------------
(***************************************************************************)
(* The TRANSITION sample encoding of encoding.rs and encoding.cpp: runs of *)
(* equal samples as pairs of a varint and the sample's bytes.              *)
(*                                                                         *)
(* A byte has a bit that says whether another byte of the varint follows,  *)
(* and carries a digit of the value in the others.  The code has More =    *)
(* 2^7, Limit = 2^64 and MaxBytes = 10: the last byte has room for more    *)
(* than the value needs, which the constants keep at every size they are   *)
(* checked at.                                                             *)
(***************************************************************************)
EXTENDS Integers, Sequences, FiniteSets, SequencesExt, Functions

CONSTANTS
  More,     \* the continuation bit, 0x80; a varint has digits below it
  Limit,    \* run lengths and usizes wrap here
  MaxBytes  \* bytes a varint may have

(* What n digits can count.                                                *)
Power[n \in Nat] == IF n = 0 THEN 1 ELSE More * Power[n - 1]

ASSUME TransitionAssumption ==
  /\ More \in Nat /\ More > 1
  /\ Limit \in Nat
  /\ MaxBytes \in Nat \ {0}
  /\ Power[MaxBytes - 1] < Limit /\ Limit <= Power[MaxBytes]

Bytes == 0 .. 2 * More - 1

Least(S) == CHOOSE x \in S : \A y \in S : x <= y

-----------------------------------------------------------------------------
PutVarint(value) ==
  LET put[v \in Nat] ==
        IF v >= More THEN <<More + (v % More)>> \o put[v \div More] ELSE <<v>>
  IN  put[value]

Refused == [ok |-> FALSE]

(* The bytes a varint at position from may occupy.                         *)
Window(input, from) == from .. (IF Len(input) < from + MaxBytes
                                  THEN Len(input) ELSE from + MaxBytes - 1)

(* What the bytes from .. to say, before it is cut to a machine word.      *)
VarintValue(input, from, to) ==
  LET value[i \in 1 .. Len(input) + 1] ==
        IF i > to THEN 0 ELSE (input[i] % More) + More * value[i + 1]
  IN  value[from]

(* The value of the varint at position from and the position after it; a   *)
(* run of length 0 and a varint without an end are errors.                 *)
GetVarint(input, from) ==
  LET ends == {i \in Window(input, from) : input[i] < More}
      last == Least(ends)
      value == VarintValue(input, from, last) % Limit
  IN  IF ends = {} \/ value = 0 THEN Refused
      ELSE [ok |-> TRUE, value |-> value, next |-> last + 1]

-----------------------------------------------------------------------------
Samples(packed, unitsize) == Len(packed) \div unitsize

Sample(packed, unitsize, i) ==
  SubSeq(packed, (i - 1) * unitsize + 1, i * unitsize)

(* Variant: every sample is a run of its own.                              *)
EncodeTransitionNoRuns(packed, unitsize) ==
  LET n == Samples(packed, unitsize)
      enc[i \in 1 .. n + 1] ==
        IF i > n THEN <<>>
        ELSE PutVarint(1) \o Sample(packed, unitsize, i) \o enc[i + 1]
  IN  enc[1]

(* A run starts where a sample differs from the one before, and lasts to   *)
(* the next start.                                                         *)
Starts(packed, unitsize) ==
  {i \in 1 .. Samples(packed, unitsize) :
     i = 1 \/ Sample(packed, unitsize, i) # Sample(packed, unitsize, i - 1)}

NextRun(packed, unitsize, i) ==
  Least({j \in Starts(packed, unitsize) : j > i} \cup {Samples(packed, unitsize) + 1})

(* The runs from the one that starts with sample from.                     *)
EncodeFrom(packed, unitsize, from) ==
  LET n == Samples(packed, unitsize)
      enc[i \in 1 .. n + 1] ==
        IF i > n THEN <<>>
        ELSE LET next == NextRun(packed, unitsize, i)
             IN  PutVarint(next - i) \o Sample(packed, unitsize, i) \o enc[next]
  IN  enc[from]

(* Variant: the last run is not written.                                   *)
EncodeTransitionUnflushed(packed, unitsize) ==
  LET starts == Starts(packed, unitsize)
      enc[i \in 1 .. Samples(packed, unitsize) + 1] ==
        LET later == {j \in starts : j > i} IN
        IF later = {} THEN <<>>
        ELSE PutVarint(Least(later) - i) \o Sample(packed, unitsize, i)
               \o enc[Least(later)]
  IN  enc[1]

(* Bytes after the last whole sample are left out.                         *)
EncodeTransition(packed, unitsize) == EncodeFrom(packed, unitsize, 1)

Repeat(value, n) ==
  [i \in 1 .. n * Len(value) |-> value[1 + ((i - 1) % Len(value))]]

(* Every run of the payload written out, from the one at position from.    *)
ExpandFrom(payload, unitsize, from) ==
  LET exp[at \in 1 .. Len(payload) + 1] ==
        IF at > Len(payload) THEN [ok |-> TRUE, packed |-> <<>>]
        ELSE LET v == GetVarint(payload, at) IN
             IF ~v.ok THEN Refused
             ELSE IF Len(payload) < v.next + unitsize - 1 THEN Refused
             ELSE LET rest == exp[v.next + unitsize]
                      value == SubSeq(payload, v.next, v.next + unitsize - 1)
                  IN  IF ~rest.ok THEN Refused
                      ELSE [ok |-> TRUE,
                            packed |-> Repeat(value, v.value) \o rest.packed]
  IN  exp[from]

Expand(payload, unitsize) == ExpandFrom(payload, unitsize, 1)

(* Variant: the declared sample count is not compared.                     *)
DecodeTransitionUnchecked(payload, unitsize, samples) ==
  IF unitsize = 0 THEN Refused ELSE Expand(payload, unitsize)

(* samples * unitsize is a usize, which wraps in a release build.          *)
DecodeTransition(payload, unitsize, samples) ==
  IF unitsize = 0 THEN Refused
  ELSE LET all == Expand(payload, unitsize) IN
       IF all.ok /\ Len(all.packed) = (samples * unitsize) % Limit
         THEN all ELSE Refused

=============================================================================
