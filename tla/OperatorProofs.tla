--------------------------- MODULE OperatorProofs ---------------------------
(***************************************************************************)
(* Theorems about the functions without a state: the sample encoding, on   *)
(* every byte string below the length of a machine word, and the command   *)
(* line of a plugin, for every run of a manifest.                          *)
(***************************************************************************)
EXTENDS MCTransition, MCArguments, TransitionProofs

-----------------------------------------------------------------------------
(* Every byte string, as the samples of a plugin and as the payload of a   *)
(* frontend.                                                               *)

IInv == bytes \in Seq(Bytes) /\ Len(bytes) <= MaxLen

(* The invariant is inductive.                                             *)
THEOREM Inductive == Spec => []IInv
<1>1. Init => IInv
  BY StringAssumption DEF Init, IInv
<1>2. IInv /\ [Extend]_bytes => IInv'
  <2> SUFFICES ASSUME IInv, [Extend]_bytes PROVE IInv'
    OBVIOUS
  <2>1. CASE Extend
    <3>1. PICK b \in Bytes : bytes' = Append(bytes, b)
      BY <2>1 DEF Extend
    <3>2. bytes' \in Seq(Bytes) /\ Len(bytes') = Len(bytes) + 1 /\ Len(bytes) \in Nat
      BY <3>1, AppendFacts DEF IInv
    <3> QED
      BY <2>1, <3>2, StringAssumption DEF IInv, Extend
  <2>2. CASE UNCHANGED bytes
    BY <2>2 DEF IInv
  <2> QED
    BY <2>1, <2>2
<1> QED
  BY <1>1, <1>2, PTL DEF Spec

(* RoundTrip: whatever bytes and sample width, what a plugin encodes a     *)
(* frontend decodes to the same whole samples.                             *)
THEOREM AlwaysRoundTrip == Spec => []RoundTrip
<1>1. ASSUME IInv PROVE RoundTrip
  <2> SUFFICES ASSUME NEW u \in Unitsizes
               PROVE  LET decoded == DecodeTransition(EncodeTransition(bytes, u), u,
                                                      Samples(bytes, u))
                      IN  decoded.ok /\ decoded.packed = Whole(u)
    BY DEF RoundTrip
  <2>1. u \in Nat \ {0} /\ bytes \in Seq(Bytes) /\ Len(bytes) < Limit
    <3>1. Len(bytes) \in Nat /\ Limit \in Nat
      BY <1>1, TransitionAssumption DEF IInv
    <3> QED
      BY <1>1, <3>1, StringAssumption DEF IInv
  <2>2. DecodeTransition(EncodeTransition(bytes, u), u, Samples(bytes, u))
          = Decoded(AllSamples(bytes, u))
    BY <2>1, DecodesWhatWasEncoded
  <2>3. AllSamples(bytes, u) = Whole(u)
    BY DEF AllSamples, Whole
  <2>4. \A p : Decoded(p).ok /\ Decoded(p).packed = p
    BY DEF Decoded
  <2> QED
    BY <2>2, <2>3, <2>4, Zenon
<1> QED
  BY Inductive, <1>1, PTL

(* CountIsChecked: a payload is accepted only for the number of samples it *)
(* expands to, if that many bytes do not wrap.                             *)
THEOREM CountAlwaysChecked == Spec => []CountIsChecked
<1>1. ASSUME IInv PROVE CountIsChecked
  <2> SUFFICES ASSUME NEW u \in Unitsizes, NEW n \in 0 .. (Limit - 1) \div u,
                      DecodeTransition(bytes, u, n).ok
               PROVE  Len(DecodeTransition(bytes, u, n).packed) = n * u
    BY DEF CountIsChecked
  <2>1. u \in Nat \ {0} /\ bytes \in Seq(Bytes)
    BY <1>1, StringAssumption DEF IInv
  <2> QED
    BY <2>1, CountDecides
<1> QED
  BY Inductive, <1>1, PTL

(* EncodingIsShortest: whatever a payload says, the encoder says in no     *)
(* more bytes.                                                             *)
THEOREM NothingShorter == Spec => []EncodingIsShortest
<1>1. ASSUME IInv PROVE EncodingIsShortest
  <2> SUFFICES ASSUME NEW u \in Unitsizes, Expand(bytes, u).ok
               PROVE  Len(EncodeTransition(Expand(bytes, u).packed, u)) <= Len(bytes)
    BY DEF EncodingIsShortest
  <2>1. u \in Nat \ {0} /\ bytes \in Seq(Bytes)
    BY <1>1, StringAssumption DEF IInv
  <2> QED
    BY <2>1, EncodesNoLonger
<1> QED
  BY Inductive, <1>1, PTL

-----------------------------------------------------------------------------
(* Reading a command line.                                                 *)

(* A slot that has no value yet gets one.                                  *)
Filled(slots, flag, value) ==
  [slots EXCEPT ![flag] = IF @ = None THEN value ELSE @]

Next(args, i) == Place(args, i) + 1

(* The arguments from position i on start with a flag and a value.         *)
Starting(args, i) == args[i][1] \in Flags /\ Next(args, i) <= Len(args) + 1

(* What a slot may hold.                                                   *)
Held(args) ==
  {None} \cup {InlineValue(args[i]) : i \in 1 .. Len(args)}
         \cup {args[i] : i \in 1 .. Len(args)}

(* The parser, unfolded: a flag, its value and what follows them.          *)
LEMMA ParseDef ==
  ASSUME NEW S, NEW args \in Seq(S)
  PROVE  /\ \A i \in 1 .. Len(args) + 1 :
              \/ ParseFrom(args, i) = Rejected
              \/ \E slots \in [Flags -> Held(args)] : ParseFrom(args, i) = Accepted(slots)
         /\ \A i \in 1 .. Len(args) :
              ParseFrom(args, i)
                = IF Starting(args, i) /\ ParseFrom(args, Next(args, i)).ok
                    THEN Accepted(Filled(ParseFrom(args, Next(args, i)).args,
                                         args[i][1], Value(args, i)))
                    ELSE Rejected
         /\ ParseFrom(args, Len(args) + 1) = Accepted(EmptySlots)
<1> DEFINE n == Len(args)
           X == Held(args)
           V == {Rejected} \cup {Accepted(slots) : slots \in [Flags -> X]}
           more(i) == Starting(args, i)
           next(i) == Next(args, i)
           flag(i) == args[i][1]
           val(i) == Value(args, i)
           D == 1 .. n + 1
           rank == [i \in D |-> (n + 1) - i]
           value(i, f) ==
             IF i = n + 1 THEN Accepted(EmptySlots)
             ELSE IF ~more(i) THEN Rejected
             ELSE IF ~f[next(i)].ok THEN Rejected
             ELSE Accepted(Filled(f[next(i)].args, flag(i), val(i)))
           step == [i \in D |-> [f \in [D -> V] |-> value(i, f)]]
           Shape(g) == [i \in 1 .. n + 1 |->
             IF i = n + 1 THEN Accepted(EmptySlots)
             ELSE LET flag_ == args[i][1]
                      next_ == Place(args, i) + 1
                  IN  IF flag_ \notin Flags \/ next_ > n + 1 \/ ~g[next_].ok THEN Rejected
                      ELSE Accepted([g[next_].args EXCEPT
                             ![flag_] = IF @ = None THEN Value(args, i) ELSE @])]
           from == CHOOSE from : from = Shape(from)
<1>1. n \in Nat
  OBVIOUS
<1>2. \A i \in 1 .. n + 1 : ParseFrom(args, i) = from[i]
  BY DEF ParseFrom
<1>3. ASSUME NEW i \in 1 .. n
      PROVE  /\ next(i) \in i + 1 .. i + 2 /\ (more(i) => next(i) \in i + 1 .. n + 1)
             /\ more(i) => flag(i) \in Flags /\ val(i) \in X
  <2>1. next(i) \in i + 1 .. i + 2 /\ i \in Nat
    BY <1>1 DEF Next, Place
  <2>2. more(i) => next(i) \in i + 1 .. n + 1
    <3>1. more(i) => next(i) <= n + 1
      BY DEF Starting
    <3> HIDE DEF n, more, next
    <3> QED
      BY <1>1, <2>1, <3>1
  <2>3. ASSUME more(i) PROVE flag(i) \in Flags /\ val(i) \in X
    <3>1. flag(i) \in Flags /\ next(i) <= n + 1
      BY <2>3 DEF Starting
    <3>2. CASE Inline(args, i)
      <4>1. val(i) = InlineValue(args[i])
        BY <3>2 DEF Value
      <4> QED
        BY <3>1, <4>1 DEF Held
    <3>3. CASE ~Inline(args, i)
      <4>1. val(i) = args[i + 1] /\ next(i) = (i + 1) + 1
        BY <3>3 DEF Value, Next, Place
      <4>2. i + 1 \in 1 .. n
        <5> HIDE DEF n, next
        <5> QED
          BY <1>1, <2>1, <3>1, <4>1
      <4> QED
        BY <3>1, <4>1, <4>2 DEF Held
    <3> QED
      BY <3>2, <3>3
  <2> QED
    BY <2>1, <2>2, <2>3
<1>4. ASSUME NEW g PROVE Shape(g) = [i \in D |-> value(i, g)]
  <2>1. ASSUME NEW i \in D
        PROVE  value(i, g) =
          IF i = n + 1 THEN Accepted(EmptySlots)
          ELSE IF args[i][1] \notin Flags \/ Place(args, i) + 1 > n + 1
                    \/ ~g[Place(args, i) + 1].ok THEN Rejected
          ELSE Accepted([g[Place(args, i) + 1].args EXCEPT
                 ![args[i][1]] = IF @ = None THEN Value(args, i) ELSE @])
    <3> DEFINE x == Place(args, i) + 1
               r == Accepted([g[x].args EXCEPT
                      ![args[i][1]] = IF @ = None THEN Value(args, i) ELSE @])
    <3>1. next(i) = x /\ Accepted(Filled(g[next(i)].args, flag(i), val(i))) = r
      BY DEF Next, Filled
    <3>2. i # n + 1 => (more(i) <=> (flag(i) \in Flags /\ ~(x > n + 1)))
      <4> SUFFICES ASSUME i # n + 1
                   PROVE  more(i) <=> (flag(i) \in Flags /\ ~(x > n + 1))
        OBVIOUS
      <4>1. i \in 1 .. n /\ n + 1 \in Nat
        <5> HIDE DEF n
        <5> QED
          BY <1>1
      <4>2. next(i) \in Nat
        BY <1>3, <4>1
      <4>3. x <= n + 1 <=> ~(x > n + 1)
        <5>1. x \in Nat
          BY <3>1, <4>2
        <5> HIDE DEF x, n
        <5> QED
          BY <4>1, <5>1
      <4>4. more(i) <=> (flag(i) \in Flags /\ x <= n + 1)
        BY <3>1 DEF Starting
      <4> QED
        BY <4>3, <4>4, Zenon
    <3> HIDE DEF x, r, n, more, next, val
    <3>3. value(i, g) = IF i = n + 1 THEN Accepted(EmptySlots)
                        ELSE IF flag(i) \notin Flags \/ x > n + 1 \/ ~g[x].ok THEN Rejected
                        ELSE r
      BY <3>1, <3>2, Zenon
    <3> QED
      BY <3>3 DEF x, r, n
  <2> HIDE DEF value
  <2> QED
    BY <2>1
<1> HIDE DEF n, X, more, next, flag, val, from, Shape, value
<1>5. rank \in [D -> Nat] /\ \A i \in D : rank[i] = (n + 1) - i
  BY <1>1
<1>6. \A i, g : value(i, g)
        = IF i = n + 1 THEN Accepted(EmptySlots)
          ELSE IF ~more(i) THEN Rejected
          ELSE IF ~g[next(i)].ok THEN Rejected
          ELSE Accepted(Filled(g[next(i)].args, flag(i), val(i)))
  BY DEF value
<1>7. ASSUME NEW i \in D, i # n + 1, more(i)
      PROVE  next(i) \in D /\ rank[next(i)] < rank[i]
  <2>1. i \in 1 .. n
    BY <1>1, <1>7
  <2>2. next(i) \in i + 1 .. n + 1
    BY <1>3, <1>7, <2>1
  <2>3. next(i) \in D /\ next(i) > i /\ next(i) \in Nat /\ i \in Nat
    BY <1>1, <2>1, <2>2
  <2>4. rank[next(i)] = (n + 1) - next(i) /\ rank[i] = (n + 1) - i
    BY <1>5, <2>3
  <2> QED
    BY <1>1, <2>3, <2>4
<1>8. /\ \A r \in V : r = Rejected \/ r.args \in [Flags -> X]
      /\ Rejected \in V /\ \A slots \in [Flags -> X] : Accepted(slots) \in V
  <2>1. Rejected \in V /\ \A slots \in [Flags -> X] : Accepted(slots) \in V
    OBVIOUS
  <2>2. ASSUME NEW r \in V, r # Rejected PROVE r.args \in [Flags -> X]
    <3>1. PICK slots \in [Flags -> X] : r = Accepted(slots)
      BY <2>2
    <3>2. r.args = slots
      BY <3>1 DEF Accepted
    <3> QED
      BY <3>2
  <2> HIDE DEF V
  <2> QED
    BY <2>1, <2>2
<1>9. ASSUME NEW i \in D, NEW g, i # n + 1 /\ more(i) => g[next(i)] \in V
      PROVE  value(i, g) \in V
  <2>1. CASE i = n + 1
    <3>1. EmptySlots \in [Flags -> X]
      BY DEF EmptySlots, X, Held
    <3> QED
      BY <1>6, <1>8, <2>1, <3>1
  <2>2. CASE i # n + 1 /\ more(i) /\ g[next(i)].ok
    <3>1. g[next(i)] # Rejected
      BY <2>2 DEF Rejected
    <3>2. g[next(i)].args \in [Flags -> X]
      BY <1>8, <1>9, <2>2, <3>1
    <3>3. i \in 1 .. n
      BY <1>1, <2>2
    <3>4. Filled(g[next(i)].args, flag(i), val(i)) \in [Flags -> X]
      BY <1>3, <2>2, <3>2, <3>3 DEF Filled
    <3>5. value(i, g) = Accepted(Filled(g[next(i)].args, flag(i), val(i)))
      BY <1>6, <2>2, Zenon
    <3> QED
      BY <1>8, <3>4, <3>5
  <2>3. CASE i # n + 1 /\ ~(more(i) /\ g[next(i)].ok)
    <3>1. value(i, g) = Rejected
      BY <1>6, <2>3, Zenon
    <3> QED
      BY <1>8, <3>1
  <2> QED
    BY <2>1, <2>2, <2>3
<1>10. /\ step \in [D -> [[D -> V] -> V]]
       /\ \A i \in D : \A f \in [D -> V] : step[i][f] = value(i, f)
  <2>1. ASSUME NEW i \in D, NEW f \in [D -> V] PROVE value(i, f) \in V
    BY <1>7, <1>9
  <2> HIDE DEF D, V
  <2> QED
    BY <2>1
<1> HIDE DEF rank, step
<1>11. LooksBack(D, V, rank, step)
  <2> SUFFICES ASSUME NEW i \in D, NEW f \in [D -> V], NEW g \in [D -> V],
                      \A j \in D : rank[j] < rank[i] => f[j] = g[j]
               PROVE  step[i][f] = step[i][g]
    BY DEF LooksBack
  <2>1. ASSUME i # n + 1, more(i) PROVE f[next(i)] = g[next(i)]
    BY <1>7, <2>1
  <2>2. value(i, f) = value(i, g)
    BY <1>6, <2>1
  <2> HIDE DEF D, V
  <2> QED
    BY <1>10, <2>2
<1>12. PICK f : Solves(f, D, V, step)
  <2>1. V # {}
    BY <1>8
  <2>2. IsRecursion(D, V, rank, step)
    BY <1>5, <1>10, <1>11, <2>1 DEF IsRecursion
  <2> QED
    BY <2>2, Recursion, Zenon
<1>13. f = [i \in D |-> value(i, f)]
  <2> HIDE DEF D, V
  <2> QED
    BY <1>10, <1>12 DEF Solves
<1>14. from = [i \in D |-> value(i, from)]
  <2>1. f = Shape(f) /\ Shape(from) = [i \in D |-> value(i, from)]
    BY <1>4, <1>13
  <2> HIDE DEF D
  <2>2. from = Shape(from)
    BY <2>1, Zenon DEF from
  <2> QED
    BY <2>1, <2>2, Zenon
<1>15. \A i \in D : from[i] = value(i, from)
  <2> HIDE DEF D
  <2> QED
    BY <1>14
<1> DEFINE T == {i \in D : from[i] \in V}
<1>16. ASSUME NEW i \in D, \A j \in D : rank[j] < rank[i] => j \in T PROVE i \in T
  <2>1. i # n + 1 /\ more(i) => from[next(i)] \in V
    BY <1>7, <1>16
  <2> HIDE DEF V
  <2> QED
    BY <1>9, <1>15, <2>1
<1>17. \A i \in D : i \in T
  <2> HIDE DEF D, T
  <2>1. rank \in [D -> Nat]
    BY <1>5
  <2>2. \A i \in D : (\A j \in D : rank[j] < rank[i] => j \in T) => i \in T
    BY <1>16
  <2> QED
    BY <2>1, <2>2, RankInduction
<1>18. ASSUME NEW i \in 1 .. n + 1
       PROVE  \/ ParseFrom(args, i) = Rejected
              \/ \E slots \in [Flags -> X] : ParseFrom(args, i) = Accepted(slots)
  <2>1. from[i] \in V /\ ParseFrom(args, i) = from[i]
    BY <1>2, <1>17
  <2> QED
    BY <2>1
<1>19. ASSUME NEW i \in 1 .. n
       PROVE  ParseFrom(args, i)
                = IF more(i) /\ ParseFrom(args, next(i)).ok
                    THEN Accepted(Filled(ParseFrom(args, next(i)).args, flag(i), val(i)))
                    ELSE Rejected
  <2>1. i \in D /\ i # n + 1
    BY <1>1
  <2>2. ParseFrom(args, i) = value(i, from)
    BY <1>2, <1>15, <2>1
  <2>3. more(i) => ParseFrom(args, next(i)) = from[next(i)]
    BY <1>2, <1>7, <2>1
  <2> QED
    BY <1>6, <2>1, <2>2, <2>3, Zenon
<1>20. ParseFrom(args, n + 1) = Accepted(EmptySlots)
  <2>1. n + 1 \in D
    BY <1>1
  <2> QED
    BY <1>2, <1>6, <1>15, <2>1
<1> QED
  BY <1>18, <1>19, <1>20 DEF n, X, more, next, flag, val

(* A parse is refused or has all three slots.                              *)
LEMMA ParseFacts ==
  ASSUME NEW S, NEW args \in Seq(S), NEW i \in 1 .. Len(args) + 1
  PROVE  /\ ParseFrom(args, i).ok =>
              ParseFrom(args, i).args \in [Flags -> Held(args)]
                /\ ParseFrom(args, i) = Accepted(ParseFrom(args, i).args)
         /\ ~ParseFrom(args, i).ok => ParseFrom(args, i) = Rejected
<1>1. ~Rejected.ok /\ \A slots : Accepted(slots).ok /\ Accepted(slots).args = slots
  BY DEF Rejected, Accepted
<1>2. \/ ParseFrom(args, i) = Rejected
      \/ \E slots \in [Flags -> Held(args)] : ParseFrom(args, i) = Accepted(slots)
  BY ParseDef
<1> QED
  BY <1>1, <1>2, Zenon

(* Once every slot has its value, what comes before changes nothing.  The  *)
(* place after m must not be one that parses: a flag just before m may     *)
(* take the string at m for its value.                                     *)
LEMMA LaterCounts ==
  ASSUME NEW S, NEW args \in Seq(S), NEW m \in 1 .. Len(args),
         NEW slots \in [Flags -> Held(args)], ParseFrom(args, m) = Accepted(slots),
         \A flag \in Flags : slots[flag] # None, ParseFrom(args, m + 1) = Rejected
  PROVE  \A i \in 1 .. m : ParseFrom(args, i) \in {Rejected, Accepted(slots)}
<1> DEFINE D == 1 .. m
           rank == [i \in D |-> m - i]
           T == {i \in D : ParseFrom(args, i) \in {Rejected, Accepted(slots)}}
<1>1. m \in Nat /\ m <= Len(args) /\ Len(args) \in Nat
  OBVIOUS
<1>2. rank \in [D -> Nat] /\ \A i \in D : rank[i] = m - i
  BY <1>1
<1>3. ASSUME NEW i \in D, \A j \in D : rank[j] < rank[i] => j \in T PROVE i \in T
  <2>1. CASE i = m
    BY <2>1
  <2>2. CASE i # m
    <3> DEFINE next == Next(args, i)
               all == ParseFrom(args, next)
    <3>1. i \in 1 .. Len(args) /\ i \in Nat /\ next \in {i + 1, i + 2} /\ i < m
      BY <1>1, <2>2 DEF Next, Place
    <3>2. next \in D \/ next = m + 1
      BY <1>1, <3>1
    <3>3. all \in {Rejected, Accepted(slots)}
      <4>1. CASE next = m + 1
        BY <4>1
      <4>2. CASE next \in D
        <5>1. rank[next] < rank[i]
          <6>1. rank[next] = m - next /\ rank[i] = m - i
            BY <1>2, <4>2
          <6> HIDE DEF next, rank
          <6> QED
            BY <1>1, <3>1, <6>1
        <5> HIDE DEF rank
        <5>2. next \in T
          BY <1>3, <4>2, <5>1
        <5> QED
          BY <5>2
      <4> QED
        BY <3>2, <4>1, <4>2
    <3>4. ASSUME Starting(args, i) PROVE Filled(slots, args[i][1], Value(args, i)) = slots
      <4>1. args[i][1] \in Flags
        BY <3>4 DEF Starting
      <4>2. slots[args[i][1]] # None
        BY <4>1
      <4> QED
        BY <4>2 DEF Filled
    <3>5. ParseFrom(args, i)
            = IF Starting(args, i) /\ all.ok
                THEN Accepted(Filled(all.args, args[i][1], Value(args, i)))
                ELSE Rejected
      BY <3>1, ParseDef
    <3>6. ~Rejected.ok /\ Accepted(slots).args = slots
      BY DEF Rejected, Accepted
    <3> HIDE DEF all, next
    <3>7. ParseFrom(args, i) = Rejected \/ ParseFrom(args, i) = Accepted(slots)
      <4>1. CASE Starting(args, i) /\ all.ok
        <5>1. all = Accepted(slots)
          BY <3>3, <3>6, <4>1
        <5>2. Filled(all.args, args[i][1], Value(args, i)) = slots
          BY <3>4, <3>6, <4>1, <5>1
        <5> QED
          BY <3>5, <4>1, <5>2
      <4>2. CASE ~(Starting(args, i) /\ all.ok)
        BY <3>5, <4>2
      <4> QED
        BY <4>1, <4>2
    <3> QED
      BY <3>7
  <2> QED
    BY <2>1, <2>2
<1>4. \A i \in D : i \in T
  <2> HIDE DEF D, T, rank
  <2>1. rank \in [D -> Nat]
    BY <1>2
  <2>2. \A i \in D : (\A j \in D : rank[j] < rank[i] => j \in T) => i \in T
    BY <1>3
  <2> QED
    BY <2>1, <2>2, RankInduction
<1> QED
  BY <1>4

(* Whatever the arguments leave in the slots, with more after them it is   *)
(* the same but for one flag.                                              *)
Overridden(args, more, flag, value) ==
  \A i \in 1 .. Len(args) + 1 : \A slots \in [Flags -> Held(args)] :
    ParseFrom(args, i) = Accepted(slots)
      => ParseFrom(args \o more, i) = Accepted([slots EXCEPT ![flag] = value])

(* A value that is added at the end replaces the one its flag had.         *)
LEMMA LastCounts ==
  ASSUME NEW S, NEW args \in Seq(S), NEW more \in Seq(S),
         NEW flag \in Flags, NEW value, value # None,
         ParseFrom(args \o more, Len(args) + 1) = Accepted([EmptySlots EXCEPT ![flag] = value])
  PROVE  Overridden(args, more, flag, value)
<1> DEFINE n == Len(args)
           long == args \o more
           D == 1 .. n + 1
           rank == [i \in D |-> (n + 1) - i]
           T == {i \in D : \A slots \in [Flags -> Held(args)] :
                   ParseFrom(args, i) = Accepted(slots)
                     => ParseFrom(long, i) = Accepted([slots EXCEPT ![flag] = value])}
<1>1. /\ n \in Nat /\ long \in Seq(S) /\ Len(long) \in Nat /\ n <= Len(long)
      /\ \A i \in 1 .. n : long[i] = args[i]
  <2>1. long \in Seq(S) /\ Len(long) = n + Len(more) /\ n \in Nat /\ Len(more) \in Nat
    BY Concatenation
  <2>2. \A i \in 1 .. n : long[i] = args[i]
    BY Joining
  <2> HIDE DEF long, n
  <2> QED
    BY <2>1, <2>2
<1>2. rank \in [D -> Nat] /\ \A i \in D : rank[i] = (n + 1) - i
  <2> HIDE DEF n
  <2> QED
    BY <1>1
<1>3. \A a, b : Accepted(a) = Accepted(b) => a = b
  BY DEF Accepted
<1>4. \A a : Accepted(a).ok /\ Accepted(a).args = a /\ Accepted(a) # Rejected
  BY DEF Accepted, Rejected
<1>5. ASSUME NEW i \in D, \A j \in D : rank[j] < rank[i] => j \in T PROVE i \in T
  <2> SUFFICES ASSUME NEW slots \in [Flags -> Held(args)], ParseFrom(args, i) = Accepted(slots)
               PROVE  ParseFrom(long, i) = Accepted([slots EXCEPT ![flag] = value])
    OBVIOUS
  <2>1. CASE i = n + 1
    <3>1. ParseFrom(args, i) = Accepted(EmptySlots)
      BY <2>1, ParseDef
    <3>2. slots = EmptySlots
      BY <1>3, <3>1
    <3> QED
      BY <2>1, <3>2
  <2>2. CASE i # n + 1
    <3> DEFINE next == Next(args, i)
               all == ParseFrom(args, next)
               f == args[i][1]
               v == Value(args, i)
    <3>1. i \in 1 .. n /\ i \in Nat
      <4> HIDE DEF n
      <4> QED
        BY <1>1, <2>2
    <3>2. ParseFrom(args, i)
            = IF Starting(args, i) /\ all.ok THEN Accepted(Filled(all.args, f, v)) ELSE Rejected
      BY <3>1, ParseDef
    <3>3. Starting(args, i) /\ all.ok /\ slots = Filled(all.args, f, v)
      <4> HIDE DEF all, f, v
      <4> QED
        BY <1>3, <1>4, <3>2, Zenon
    <3>4. next \in i + 1 .. n + 1 /\ next \in D /\ next \in {i + 1, i + 2}
      <4>1. next <= n + 1
        BY <3>3 DEF Starting
      <4>2. next \in {i + 1, i + 2}
        BY DEF Next, Place
      <4> HIDE DEF next, n
      <4> QED
        BY <1>1, <3>1, <4>1, <4>2
    <3> DEFINE s == all.args
    <3>5. s \in [Flags -> Held(args)] /\ all = Accepted(s)
      BY <3>3, <3>4, ParseFacts
    <3>6. ParseFrom(long, next) = Accepted([s EXCEPT ![flag] = value])
      <4>1. rank[next] < rank[i]
        <5>1. rank[next] = (n + 1) - next /\ rank[i] = (n + 1) - i
          BY <1>2, <3>4
        <5> HIDE DEF next, n, rank
        <5> QED
          BY <1>1, <3>1, <3>4, <5>1
      <4> HIDE DEF rank
      <4>2. next \in T
        BY <1>5, <3>4, <4>1
      <4> HIDE DEF s, next, long
      <4> QED
        BY <3>5, <4>2
    <3>7. /\ i \in 1 .. Len(long) /\ long[i][1] = f /\ Next(long, i) = next
          /\ Starting(long, i) /\ Value(long, i) = v
      <4>1. i \in 1 .. Len(long) /\ long[i] = args[i]
        <5> HIDE DEF n, long
        <5> QED
          BY <1>1, <3>1
      <4>2. Inline(long, i) = Inline(args, i)
        BY <4>1 DEF Inline
      <4>3. Next(long, i) = next
        BY <4>2 DEF Next, Place
      <4>4. Starting(long, i)
        <5>1. next <= Len(long) + 1
          <6> HIDE DEF next, n, long
          <6> QED
            BY <1>1, <3>4
        <5>2. long[i][1] \in Flags
          BY <3>3, <4>1 DEF Starting
        <5> QED
          BY <4>3, <5>1, <5>2 DEF Starting
      <4>5. Value(long, i) = v
        <5>1. CASE Inline(args, i)
          BY <4>1, <4>2, <5>1 DEF Value
        <5>2. CASE ~Inline(args, i)
          <6>1. next = (i + 1) + 1
            BY <5>2 DEF Next, Place
          <6>2. i + 1 \in 1 .. n
            <7> HIDE DEF next, n
            <7> QED
              BY <1>1, <3>1, <3>4, <6>1
          <6>3. long[i + 1] = args[i + 1]
            BY <1>1, <6>2
          <6> QED
            BY <4>2, <5>2, <6>3 DEF Value
        <5> QED
          BY <5>1, <5>2
      <4> QED
        BY <4>1, <4>3, <4>4, <4>5
    <3>8. ParseFrom(long, i) = Accepted(Filled([s EXCEPT ![flag] = value], f, v))
      <4>1. ParseFrom(long, i)
              = IF Starting(long, i) /\ ParseFrom(long, Next(long, i)).ok
                  THEN Accepted(Filled(ParseFrom(long, Next(long, i)).args,
                                       long[i][1], Value(long, i)))
                  ELSE Rejected
        <5> HIDE DEF long
        <5> QED
          BY <1>1, <3>7, ParseDef
      <4> HIDE DEF long, next, f, v, s
      <4> QED
        BY <1>4, <3>6, <3>7, <4>1, Zenon
    <3>9. Filled([s EXCEPT ![flag] = value], f, v) = [slots EXCEPT ![flag] = value]
      <4>1. slots = Filled(s, f, v) /\ f \in Flags
        BY <3>3 DEF Starting
      <4> HIDE DEF s, f, v
      <4>2. CASE f = flag
        BY <3>5, <4>1, <4>2 DEF Filled
      <4>3. CASE f # flag
        <5> DEFINE t == [x \in Flags |-> IF x = flag THEN value
                                         ELSE IF x = f /\ s[f] = None THEN v ELSE s[x]]
                   g == [s EXCEPT ![flag] = value]
        <5>1. slots = [x \in Flags |-> IF x = f /\ s[f] = None THEN v ELSE s[x]]
          BY <3>5, <4>1 DEF Filled
        <5>2. [slots EXCEPT ![flag] = value] = t
          BY <5>1
        <5>3. /\ g = [x \in Flags |-> IF x = flag THEN value ELSE s[x]]
              /\ g[f] = s[f]
          BY <3>5, <4>1, <4>3
        <5> HIDE DEF g
        <5>4. Filled(g, f, v) = [x \in Flags |-> IF x = f /\ g[f] = None THEN v ELSE g[x]]
          BY <4>1, <5>3 DEF Filled
        <5>5. Filled(g, f, v) = t
          BY <4>3, <5>3, <5>4
        <5> QED
          BY <5>2, <5>5 DEF g
      <4> QED
        BY <4>2, <4>3
    <3> QED
      BY <3>8, <3>9
  <2> QED
    BY <2>1, <2>2
<1>6. \A i \in D : i \in T
  <2> HIDE DEF D, T, rank
  <2>1. rank \in [D -> Nat]
    BY <1>2
  <2>2. \A i \in D : (\A j \in D : rank[j] < rank[i] => j \in T) => i \in T
    BY <1>5
  <2> QED
    BY <2>1, <2>2, RankInduction
<1> QED
  BY <1>6 DEF Overridden

(* A flag in a string of its own, with the value after it.                 *)
LEMMA ReadsPair ==
  ASSUME NEW S, NEW args \in Seq(S), NEW i \in Nat \ {0}, i + 1 <= Len(args),
         NEW flag \in Flags, args[i] = <<flag>>,
         NEW slots, ParseFrom(args, i + 2) = Accepted(slots)
  PROVE  ParseFrom(args, i) = Accepted(Filled(slots, flag, args[i + 1]))
<1>1. i \in 1 .. Len(args) /\ i + 2 <= Len(args) + 1
  BY SeqFacts
<1>2. ~Inline(args, i) /\ args[i][1] = flag
  BY DEF Inline
<1>3. Next(args, i) = i + 2 /\ Value(args, i) = args[i + 1]
  BY <1>2 DEF Next, Place, Value
<1>4. Starting(args, i)
  BY <1>1, <1>2, <1>3 DEF Starting
<1>5. Accepted(slots).ok /\ Accepted(slots).args = slots
  BY DEF Accepted
<1>6. ParseFrom(args, i)
        = IF Starting(args, i) /\ ParseFrom(args, Next(args, i)).ok
            THEN Accepted(Filled(ParseFrom(args, Next(args, i)).args,
                                 args[i][1], Value(args, i)))
            ELSE Rejected
  BY <1>1, ParseDef
<1> QED
  BY <1>2, <1>3, <1>4, <1>5, <1>6, Zenon

(* A string of its own is its words without the flag.                      *)
LEMMA WordsAfterFlag ==
  ASSUME NEW W, NEW flag \in W, NEW value \in Seq(W), value # <<>>
  PROVE  /\ Len(<<flag>> \o value) > 1 /\ (<<flag>> \o value)[1] = flag
         /\ Tail(<<flag>> \o value) = value
<1> DEFINE one == <<flag>>
           w == one \o value
<1>1. one \in Seq(W) /\ Len(one) = 1 /\ one[1] = flag
  OBVIOUS
<1> HIDE DEF one
<1>2. /\ w \in Seq(W) /\ Len(w) = 1 + Len(value) /\ Len(value) \in Nat /\ Len(value) # 0
      /\ w[1] = flag /\ \A i \in 1 .. Len(value) : w[1 + i] = value[i]
  <2>1. w \in Seq(W) /\ Len(w) = Len(one) + Len(value)
    BY <1>1, Concatenation
  <2>2. /\ \A i \in 1 .. Len(one) : w[i] = one[i]
        /\ \A i \in 1 .. Len(value) : w[Len(one) + i] = value[i]
    BY <1>1, Joining
  <2>3. Len(value) \in Nat /\ Len(value) # 0
    OBVIOUS
  <2>4. w[1] = flag
    BY <1>1, <2>2
  <2> QED
    BY <1>1, <2>1, <2>2, <2>3, <2>4
<1> HIDE DEF w
<1>3. w # <<>>
  BY <1>2
<1>4. /\ Tail(w) \in Seq(W) /\ DOMAIN Tail(w) = 1 .. Len(w) - 1
      /\ \A i \in 1 .. Len(w) - 1 : Tail(w)[i] = w[i + 1]
  BY <1>2, <1>3, TailFacts
<1>5. Len(Tail(w)) = Len(value)
  BY <1>2, <1>3
<1>6. \A i \in 1 .. Len(Tail(w)) : Tail(w)[i] = value[i]
  BY <1>2, <1>4, <1>5
<1>7. Tail(w) = value
  BY <1>4, <1>5, <1>6, SameSequence
<1> QED
  BY <1>2, <1>7 DEF w, one

(* A flag and its value in one string.                                     *)
LEMMA ReadsInline ==
  ASSUME NEW S, NEW args \in Seq(S), NEW i \in 1 .. Len(args),
         NEW W, NEW flag \in Flags, flag \in W, NEW value \in Seq(W), value # <<>>,
         args[i] = <<flag>> \o value,
         NEW slots, ParseFrom(args, i + 1) = Accepted(slots)
  PROVE  ParseFrom(args, i) = Accepted(Filled(slots, flag, value))
<1>1. Len(args[i]) > 1 /\ args[i][1] = flag /\ Tail(args[i]) = value
  BY WordsAfterFlag
<1>2. Inline(args, i) /\ InlineValue(args[i]) = value
  BY <1>1 DEF Inline, InlineValue
<1>3. Next(args, i) = i + 1 /\ Value(args, i) = value /\ i + 1 <= Len(args) + 1
  BY <1>2, SeqFacts DEF Next, Place, Value
<1>4. Starting(args, i)
  BY <1>1, <1>3 DEF Starting
<1>5. Accepted(slots).ok /\ Accepted(slots).args = slots
  BY DEF Accepted
<1>6. ParseFrom(args, i)
        = IF Starting(args, i) /\ ParseFrom(args, Next(args, i)).ok
            THEN Accepted(Filled(ParseFrom(args, Next(args, i)).args,
                                 args[i][1], Value(args, i)))
            ELSE Rejected
  BY ParseDef
<1> QED
  BY <1>1, <1>3, <1>4, <1>5, <1>6, Zenon

(* What the frontend appends, and what it asks for with it.                *)
Six(d, c, e) ==
  << <<"--device">>, d, <<"--control">>, c, <<"--events">>, e >>

AskedFor(d, c, e) ==
  [flag \in Flags |-> CASE flag = "--device"  -> d
                        [] flag = "--control" -> c
                        [] flag = "--events"  -> e]

(* These arguments are read as what is asked for, wherever they start; and *)
(* from the device on nothing can be read.                                 *)
LEMMA ReadsSix ==
  ASSUME NEW d, NEW c, NEW e, d # None, c # None, e # None, d[1] \notin Flags,
         NEW S, NEW first \in Seq(S), Six(d, c, e) \in Seq(S)
  PROVE  LET args == first \o Six(d, c, e)
             n == Len(first)
         IN  /\ args \in Seq(S) /\ Len(args) = n + 6 /\ n \in Nat
             /\ ParseFrom(args, n + 1) = Accepted(AskedFor(d, c, e))
             /\ ParseFrom(args, n + 2) = Rejected
<1> DEFINE six == Six(d, c, e)
           args == first \o six
           n == Len(first)
           none == EmptySlots
           one == Filled(none, "--events", e)
           two == Filled(one, "--control", c)
           three == Filled(two, "--device", d)
<1>1. /\ Len(six) = 6 /\ six[1] = <<"--device">> /\ six[2] = d /\ six[3] = <<"--control">>
      /\ six[4] = c /\ six[5] = <<"--events">> /\ six[6] = e
  BY DEF Six
<1>2. n \in Nat /\ args \in Seq(S) /\ Len(args) = n + 6
  <2>1. args \in Seq(S) /\ Len(args) = n + Len(six)
    BY Concatenation
  <2> QED
    BY <1>1, <2>1
<1>3. /\ args[n + 1] = <<"--device">> /\ args[n + 2] = d /\ args[n + 3] = <<"--control">>
      /\ args[n + 4] = c /\ args[n + 5] = <<"--events">> /\ args[n + 6] = e
  <2>1. \A i \in 1 .. Len(six) : args[n + i] = six[i]
    BY Joining
  <2> HIDE DEF six, args, n
  <2> QED
    BY <1>1, <2>1
<1>4. "--device" \in Flags /\ "--control" \in Flags /\ "--events" \in Flags
  BY DEF Flags
<1> HIDE DEF six, args, n, none, one, two, three
<1>5. ParseFrom(args, (n + 5) + 2) = Accepted(none)
  <2>1. ParseFrom(args, Len(args) + 1) = Accepted(none)
    BY <1>2, ParseDef DEF none
  <2>2. Len(args) + 1 = (n + 5) + 2
    BY <1>2
  <2> QED
    BY <2>1, <2>2
<1>6. ParseFrom(args, (n + 3) + 2) = Accepted(one)
  <2>1. /\ n + 5 \in Nat \ {0} /\ (n + 5) + 1 = n + 6
        /\ (n + 5) + 1 <= Len(args) /\ (n + 3) + 2 = n + 5
    BY <1>2
  <2>2. ParseFrom(args, n + 5) = Accepted(Filled(none, "--events", args[(n + 5) + 1]))
    BY <1>2, <1>3, <1>4, <1>5, <2>1, ReadsPair
  <2> QED
    BY <1>3, <2>1, <2>2 DEF one
<1>7. ParseFrom(args, (n + 1) + 2) = Accepted(two)
  <2>1. /\ n + 3 \in Nat \ {0} /\ (n + 3) + 1 = n + 4
        /\ (n + 3) + 1 <= Len(args) /\ (n + 1) + 2 = n + 3
    BY <1>2
  <2>2. ParseFrom(args, n + 3) = Accepted(Filled(one, "--control", args[(n + 3) + 1]))
    BY <1>2, <1>3, <1>4, <1>6, <2>1, ReadsPair
  <2> QED
    BY <1>3, <2>1, <2>2 DEF two
<1>8. ParseFrom(args, n + 1) = Accepted(three)
  <2>1. n + 1 \in Nat \ {0} /\ (n + 1) + 1 = n + 2 /\ (n + 1) + 1 <= Len(args)
    BY <1>2
  <2>2. ParseFrom(args, n + 1) = Accepted(Filled(two, "--device", args[(n + 1) + 1]))
    BY <1>2, <1>3, <1>4, <1>7, <2>1, ReadsPair
  <2> QED
    BY <1>3, <2>1, <2>2 DEF three
<1>9. three = AskedFor(d, c, e)
  <2>1. none = [flag \in Flags |-> None]
    BY DEF none, EmptySlots
  <2>2. one = [flag \in Flags |-> IF flag = "--events" THEN e ELSE None]
    BY <2>1, <1>4 DEF one, Filled
  <2>3. two = [flag \in Flags |-> IF flag = "--events" THEN e
                                  ELSE IF flag = "--control" THEN c ELSE None]
    BY <2>2, <1>4 DEF two, Filled
  <2>4. three = [flag \in Flags |-> IF flag = "--events" THEN e
                                    ELSE IF flag = "--control" THEN c
                                    ELSE IF flag = "--device" THEN d ELSE None]
    BY <2>3, <1>4 DEF three, Filled
  <2> QED
    BY <2>4 DEF AskedFor, Flags
<1>10. ParseFrom(args, n + 2) = Rejected
  <2>1. n + 2 \in 1 .. Len(args) /\ ~Starting(args, n + 2)
    BY <1>2, <1>3 DEF Starting
  <2> QED
    BY <1>2, <2>1, ParseDef
<1> QED
  BY <1>2, <1>8, <1>9, <1>10 DEF args, n, six

(* A plugin that starts has what it was launched with.                     *)
LEMMA StartsWithItsOwn ==
  ASSUME NEW d, NEW c, NEW e, d # None, c # None, e # None, d[1] \notin Flags,
         NEW S, NEW first \in Seq(S), Six(d, c, e) \in Seq(S)
  PROVE  LET read == Parse(first \o Six(d, c, e)) IN
         /\ read.ok => read = Accepted(AskedFor(d, c, e))
         /\ Len(first) = 0 => read.ok
<1> DEFINE args == first \o Six(d, c, e)
           n == Len(first)
           slots == AskedFor(d, c, e)
           all == ParseFrom(args, 1)
<1>1. /\ args \in Seq(S) /\ Len(args) = n + 6 /\ n \in Nat
      /\ ParseFrom(args, n + 1) = Accepted(slots)
      /\ ParseFrom(args, n + 2) = Rejected
  BY ReadsSix
<1>2. \A flag \in Flags : slots[flag] # None
  BY DEF AskedFor, Flags
<1>3. \A a : Accepted(a).ok /\ Accepted(a).args = a
  BY DEF Accepted
<1>4. ~Rejected.ok
  BY DEF Rejected
<1> HIDE DEF args, slots, n
<1>5. /\ n + 1 \in 1 .. Len(args) /\ n + 1 \in 1 .. Len(args) + 1 /\ (n + 1) + 1 = n + 2
      /\ 1 \in 1 .. n + 1
  BY <1>1
<1>6. slots \in [Flags -> Held(args)]
  <2>1. ParseFrom(args, n + 1).ok /\ ParseFrom(args, n + 1).args = slots
    BY <1>1, <1>3
  <2>2. ParseFrom(args, n + 1).args \in [Flags -> Held(args)]
    BY <1>1, <1>5, <2>1, ParseFacts
  <2> QED
    BY <2>1, <2>2
<1>7. all \in {Rejected, Accepted(slots)}
  <2>1. \A i \in 1 .. n + 1 : ParseFrom(args, i) \in {Rejected, Accepted(slots)}
    BY <1>1, <1>2, <1>5, <1>6, LaterCounts
  <2> QED
    BY <1>5, <2>1
<1>8. n = 0 => all = Accepted(slots)
  BY <1>1
<1>9. Parse(args)
        = IF all.ok /\ \A flag \in Flags : all.args[flag] # None THEN all ELSE Rejected
  BY DEF Parse
<1>10. Parse(args).ok => Parse(args) = Accepted(slots)
  <2> HIDE DEF all
  <2> QED
    BY <1>4, <1>7, <1>9
<1>11. n = 0 => Parse(args).ok
  <2> SUFFICES ASSUME n = 0 PROVE Parse(args).ok
    OBVIOUS
  <2>1. all = Accepted(slots)
    BY <1>8
  <2>2. all.ok /\ \A flag \in Flags : all.args[flag] # None
    BY <1>2, <1>3, <2>1
  <2> QED
    BY <1>9, <2>2
<1> QED
  BY <1>10, <1>11 DEF args, slots, n

(* --flag=value and --flag value mean the same after the arguments.        *)
Agree(args, flag, value) ==
  LET again == Accepted([Parse(args).args EXCEPT ![flag] = value]) IN
  /\ Parse(args \o << <<flag>> \o value >>) = again
  /\ Parse(args \o << <<flag>>, value >>) = again

(* A flag and a value, either way, after a line that is complete.          *)
LEMMA BothNotations ==
  ASSUME NEW S, NEW args \in Seq(S), Parse(args).ok,
         NEW flag \in Flags, NEW W, flag \in W, NEW value \in Seq(W), value # <<>>,
         <<flag>> \in S, value \in S, <<flag>> \o value \in S
  PROVE  Agree(args, flag, value)
<1> DEFINE n == Len(args)
           all == ParseFrom(args, 1)
           slots == all.args
           new == [EmptySlots EXCEPT ![flag] = value]
           again == Accepted([slots EXCEPT ![flag] = value])
<1>1. n \in Nat /\ 1 \in 1 .. Len(args) + 1
  OBVIOUS
<1>2. /\ all.ok /\ Parse(args) = all
      /\ \A f \in Flags : slots[f] # None
  <2>1. ~Rejected.ok
    BY DEF Rejected
  <2>2. Parse(args) = IF all.ok /\ \A f \in Flags : all.args[f] # None THEN all ELSE Rejected
    BY DEF Parse
  <2> HIDE DEF all
  <2> QED
    BY <2>1, <2>2
<1>3. slots \in [Flags -> Held(args)] /\ all = Accepted(slots)
  BY <1>1, <1>2, ParseFacts
<1>4. Filled(EmptySlots, flag, value) = new
  BY DEF Filled, EmptySlots
<1>5. ASSUME NEW more \in Seq(S),
             ParseFrom(args \o more, n + 1) = Accepted(new)
      PROVE  Parse(args \o more) = again
  <2> DEFINE long == args \o more
             t == [slots EXCEPT ![flag] = value]
  <2>1. ParseFrom(long, 1) = Accepted(t)
    <3>1. value # None
      BY DEF None
    <3>2. ParseFrom(long, Len(args) + 1) = Accepted([EmptySlots EXCEPT ![flag] = value])
      <4> HIDE DEF long
      <4>1. ParseFrom(long, n + 1) = Accepted(new)
        BY <1>5 DEF long
      <4> QED
        BY <4>1
    <3>3. \A i \in 1 .. Len(args) + 1 : \A s \in [Flags -> Held(args)] :
            ParseFrom(args, i) = Accepted(s)
              => ParseFrom(long, i) = Accepted([s EXCEPT ![flag] = value])
      <4>1. Overridden(args, more, flag, value)
        BY <3>1, <3>2, LastCounts
      <4> QED
        BY <4>1 DEF Overridden
    <3> HIDE DEF slots, long
    <3> QED
      BY <1>1, <1>3, <3>3
  <2>2. \A f \in Flags : t[f] # None
    <3>1. value # None
      BY DEF None
    <3> HIDE DEF slots
    <3> QED
      BY <1>2, <1>3, <3>1
  <2>3. Accepted(t).ok /\ Accepted(t).args = t
    BY DEF Accepted
  <2> HIDE DEF t
  <2>4. Parse(long) = Accepted(t)
    BY <2>1, <2>2, <2>3 DEF Parse
  <2> QED
    BY <2>4 DEF t
<1> HIDE DEF new, again, all, slots
<1>6. Parse(args \o << <<flag>> \o value >>) = again
  <2> DEFINE one == <<flag>> \o value
             more == <<one>>
             long == args \o more
  <2>1. more \in Seq(S) /\ Len(more) = 1 /\ more[1] = one
    <3>1. one \in S
      OBVIOUS
    <3> HIDE DEF one
    <3> QED
      BY <3>1
  <2>2. long \in Seq(S) /\ Len(long) = n + 1 /\ long[n + 1] = one
    <3>1. long \in Seq(S) /\ Len(long) = n + Len(more)
      BY <2>1, Concatenation
    <3>2. long[n + 1] = more[1]
      BY <2>1, Joining
    <3> HIDE DEF long, more, one
    <3> QED
      BY <2>1, <3>1, <3>2
  <2> HIDE DEF long, more
  <2>3. ParseFrom(long, (n + 1) + 1) = Accepted(EmptySlots)
    <3>1. ParseFrom(long, Len(long) + 1) = Accepted(EmptySlots)
      BY <2>2, ParseDef
    <3> QED
      BY <2>2, <3>1
  <2>4. ParseFrom(long, n + 1) = Accepted(new)
    <3>1. n + 1 \in 1 .. Len(long)
      BY <1>1, <2>2
    <3>2. ParseFrom(long, n + 1) = Accepted(Filled(EmptySlots, flag, value))
      BY <2>2, <2>3, <3>1, ReadsInline
    <3> QED
      BY <1>4, <3>2
  <2>5. Parse(args \o more) = again
    BY <1>5, <2>1, <2>4 DEF long
  <2> QED
    BY <2>5 DEF more
<1>7. Parse(args \o << <<flag>>, value >>) = again
  <2> DEFINE one == <<flag>>
             more == <<one, value>>
             long == args \o more
  <2>1. more \in Seq(S) /\ Len(more) = 2 /\ more[1] = one /\ more[2] = value
    <3>1. one \in S /\ value \in S
      OBVIOUS
    <3> HIDE DEF one
    <3> QED
      BY <3>1
  <2>2. /\ long \in Seq(S) /\ Len(long) = n + 2 /\ long[n + 1] = one
        /\ long[(n + 1) + 1] = value
    <3>1. long \in Seq(S) /\ Len(long) = n + Len(more)
      BY <2>1, Concatenation
    <3>2. long[n + 1] = more[1] /\ long[n + 2] = more[2]
      BY <2>1, Joining
    <3>3. (n + 1) + 1 = n + 2
      BY <1>1
    <3> HIDE DEF long, more, one, n
    <3> QED
      BY <2>1, <3>1, <3>2, <3>3
  <2> HIDE DEF long, more
  <2>3. ParseFrom(long, (n + 1) + 2) = Accepted(EmptySlots)
    <3>1. ParseFrom(long, Len(long) + 1) = Accepted(EmptySlots)
      BY <2>2, ParseDef
    <3>2. Len(long) + 1 = (n + 1) + 2
      BY <1>1, <2>2
    <3> QED
      BY <3>1, <3>2
  <2>4. ParseFrom(long, n + 1) = Accepted(new)
    <3>1. n + 1 \in Nat \ {0} /\ (n + 1) + 1 <= Len(long)
      BY <1>1, <2>2
    <3>2. ParseFrom(long, n + 1)
            = Accepted(Filled(EmptySlots, flag, long[(n + 1) + 1]))
      BY <2>2, <2>3, <3>1, ReadsPair
    <3> QED
      BY <1>4, <2>2, <3>2
  <2>5. Parse(args \o more) = again
    BY <1>5, <2>1, <2>4 DEF long
  <2> QED
    BY <2>5 DEF more
<1> QED
  BY <1>2, <1>6, <1>7 DEF again, slots, Agree

-----------------------------------------------------------------------------
(* Every run of a manifest.                                                *)

LineInv == run \in Seq(Tokens) /\ device \in Devices

(* The invariant is inductive.                                             *)
THEOREM LineInductive == ManifestSpec => []LineInv
<1>1. ManifestInit => LineInv
  BY DEF ManifestInit, LineInv
<1>2. LineInv /\ [AddToken]_<<run, device>> => LineInv'
  BY DEF LineInv, AddToken
<1> QED
  BY <1>1, <1>2, PTL DEF ManifestSpec

(* The words of the command lines; a device is no flag.                    *)
Words ==
  Flags \cup { "{python}", "./plugin", "plugin.py", "/usr/bin/plugin", "-v", "demo://1",
               "a", "b", "c", "d", "demo://0", "usb://04b4:8613/2.14", "file:///a?b",
               "ipc:///t/control", "ipc:///t/events" }

LEMMA DeviceFacts ==
  /\ \A d \in Devices : d # None /\ d[1] \notin Flags /\ d \in Seq(Words)
  /\ Control # None /\ Control \in Seq(Words)
  /\ Events # None /\ Events \in Seq(Words)
<1>1. ASSUME NEW d \in Devices
      PROVE  d # None /\ d[1] \notin Flags /\ d \in Seq(Words)
  <2>1. CASE d = <<"demo://0">>
    <3>1. "demo://0" \notin Flags /\ "demo://0" \in Words
      BY DEF Flags, Words
    <3> QED
      BY <2>1, <3>1 DEF None
  <2>2. CASE d = <<"usb://04b4:8613/2.14">>
    <3>1. "usb://04b4:8613/2.14" \notin Flags /\ "usb://04b4:8613/2.14" \in Words
      BY DEF Flags, Words
    <3> QED
      BY <2>2, <3>1 DEF None
  <2>3. CASE d = <<"file:///a?b", "c", "d">>
    <3>1. "file:///a?b" \notin Flags /\ "file:///a?b" \in Words /\ "c" \in Words /\ "d" \in Words
      BY DEF Flags, Words
    <3> QED
      BY <2>3, <3>1 DEF None
  <2> QED
    BY <2>1, <2>2, <2>3 DEF Devices
<1>2. "ipc:///t/control" \in Words /\ "ipc:///t/events" \in Words
  BY DEF Words
<1>3. Control # None /\ Control \in Seq(Words)
  BY <1>2 DEF Control, None
<1>4. Events # None /\ Events \in Seq(Words)
  BY <1>2 DEF Events, None
<1> QED
  BY <1>1, <1>3, <1>4

(* Every token is made of the words.                                       *)
LEMMA TokenFacts == Tokens \subseteq Seq(Words)
<1>1. /\ "{python}" \in Words /\ "./plugin" \in Words /\ "plugin.py" \in Words
      /\ "/usr/bin/plugin" \in Words /\ "-v" \in Words /\ "--device" \in Words
      /\ "demo://1" \in Words /\ "--events" \in Words /\ "a" \in Words /\ "b" \in Words
  BY DEF Words, Flags
<1>2. /\ \A u \in Words : <<u>> \in Seq(Words)
      /\ \A u, v \in Words : <<u, v>> \in Seq(Words)
      /\ \A u, v, w \in Words : <<u, v, w>> \in Seq(Words)
  <2>1. ASSUME NEW W
        PROVE  /\ \A u \in W : <<u>> \in Seq(W)
               /\ \A u, v \in W : <<u, v>> \in Seq(W)
               /\ \A u, v, w \in W : <<u, v, w>> \in Seq(W)
    OBVIOUS
  <2> QED
    BY <2>1
<1>3. \A token \in Tokens : token \in Seq(Words)
  <2> DEFINE X == Seq(Words)
  <2> HIDE DEF X
  <2>1. /\ <<"{python}">> \in X /\ <<"./plugin">> \in X /\ <<"plugin.py">> \in X
        /\ <<"/usr/bin/plugin">> \in X /\ <<"-v">> \in X /\ <<"--device">> \in X
        /\ <<"--device", "demo://1">> \in X /\ <<"--events", "a", "b">> \in X
    BY <1>1, <1>2, Zenon DEF X
  <2>2. \A token \in Tokens : token \in X
    BY <2>1, Zenon DEF Tokens
  <2> QED
    BY <2>2 DEF X
<1> QED
  BY <1>3

(* LaunchIsUnderstood: whatever run a manifest has, of any length, a       *)
(* plugin that starts has its own device and sockets, and one that is only *)
(* named starts.                                                           *)
THEOREM LaunchesAreUnderstood == ManifestSpec => []LaunchIsUnderstood
<1>1. ASSUME LineInv PROVE LaunchIsUnderstood
  <2> DEFINE argv == ResolveArgv(run)
             six == Six(device, Control, Events)
             S == {argv[i] : i \in DOMAIN run} \cup {six[i] : i \in 1 .. 6}
  <2>1. DOMAIN run = 1 .. Len(run) /\ Len(run) \in Nat
    BY <1>1, SeqFacts DEF LineInv
  <2>2. argv \in Seq(S) /\ Len(argv) = Len(run)
    <3>1. argv = [i \in 1 .. Len(run) |-> Resolve(run[i])]
      BY <2>1 DEF ResolveArgv
    <3>2. \A i \in 1 .. Len(run) : argv[i] \in S
      BY <2>1
    <3> HIDE DEF S
    <3>3. argv \in [1 .. Len(run) -> S]
      BY <3>1, <3>2
    <3> QED
      BY <2>1, <3>1, <3>3
  <2>3. six \in Seq(S)
    <3>1. /\ six[1] \in S /\ six[2] \in S /\ six[3] \in S
          /\ six[4] \in S /\ six[5] \in S /\ six[6] \in S
      OBVIOUS
    <3> HIDE DEF S
    <3> QED
      BY <3>1 DEF Six
  <2> HIDE DEF S
  <2> SUFFICES ASSUME Spawned.ok
               PROVE  LET read == Parse(Tail(Spawned.args)) IN
                      (read.ok => read = Asked) /\ (Len(run) = 1 => read.ok)
    BY DEF LaunchIsUnderstood
  <2>4. argv # <<>> /\ Spawned.args = argv \o six
    <3>1. Spawned = IF argv = <<>> THEN Rejected ELSE Accepted(argv \o six)
      BY DEF Spawned, Launch, Six
    <3>2. ~Rejected.ok /\ Accepted(argv \o six).args = argv \o six
      BY DEF Rejected, Accepted
    <3> HIDE DEF argv, six
    <3> QED
      BY <3>1, <3>2
  <2> HIDE DEF argv
  <2>5. Tail(Spawned.args) = Tail(argv) \o six
    BY <2>2, <2>3, <2>4, TailOfJoin
  <2>6. Tail(argv) \in Seq(S) /\ Len(Tail(argv)) = Len(run) - 1
    BY <2>2, <2>4
  <2>7. device # None /\ device[1] \notin Flags /\ Control # None /\ Events # None
    BY <1>1, DeviceFacts DEF LineInv
  <2>8. LET read == Parse(Tail(argv) \o six) IN
        /\ read.ok => read = Accepted(AskedFor(device, Control, Events))
        /\ Len(Tail(argv)) = 0 => read.ok
    BY <2>3, <2>6, <2>7, StartsWithItsOwn
  <2>9. Asked = Accepted(AskedFor(device, Control, Events))
    BY DEF Asked, AskedFor
  <2>10. Len(run) = 1 => Len(Tail(argv)) = 0
    BY <2>6
  <2> QED
    BY <2>5, <2>8, <2>9, <2>10
<1> QED
  BY LineInductive, <1>1, PTL

(* NotationsAgree: after any complete command line --flag=value and        *)
(* --flag value mean the same.                                             *)
THEOREM NotationsAlwaysAgree == ManifestSpec => []NotationsAgree
<1>1. ASSUME LineInv PROVE NotationsAgree
  <2> DEFINE six == Six(device, Control, Events)
             S == Seq(Words)
             line == run \o Tail(Launch(<<device>>, device, Control, Events).args)
  <2>1. run \in Seq(S)
    <3>1. Tokens \subseteq S
      BY TokenFacts
    <3> HIDE DEF S
    <3> QED
      BY <1>1, <3>1 DEF LineInv
  <2>2. device \in S /\ Control \in S /\ Events \in S
    BY <1>1, DeviceFacts DEF LineInv
  <2>3. six \in Seq(S)
    <3>1. "--device" \in Words /\ "--control" \in Words /\ "--events" \in Words
      BY DEF Words, Flags
    <3>2. <<"--device">> \in S /\ <<"--control">> \in S /\ <<"--events">> \in S
      BY <3>1
    <3> HIDE DEF S
    <3> QED
      BY <2>2, <3>2 DEF Six
  <2>4. Tail(Launch(<<device>>, device, Control, Events).args) = six
    <3> DEFINE one == <<device>>
    <3>1. one \in Seq(S) /\ one # <<>> /\ Tail(one) = <<>>
      BY <2>2
    <3>2. Launch(one, device, Control, Events)
            = IF one = <<>> THEN Rejected ELSE Accepted(one \o six)
      BY DEF Launch, Six
    <3>3. Accepted(one \o six).args = one \o six
      BY DEF Accepted
    <3> HIDE DEF one, six, S
    <3>4. Launch(one, device, Control, Events).args = one \o six
      BY <3>1, <3>2, <3>3
    <3>5. Tail(one \o six) = Tail(one) \o six
      BY <2>3, <3>1, TailOfJoin
    <3>6. <<>> \o six = six
      BY <2>3
    <3> QED
      BY <3>1, <3>4, <3>5, <3>6 DEF one
  <2>5. line \in Seq(S)
    <3> HIDE DEF S, six
    <3> QED
      BY <2>1, <2>3, <2>4, Concatenation
  <2> HIDE DEF line, S
  <2> SUFFICES ASSUME Parse(line).ok, NEW flag \in Flags, NEW value \in Devices
               PROVE  LET again == Accepted([Parse(line).args EXCEPT ![flag] = value]) IN
                      /\ Parse(line \o << <<flag>> \o value >>) = again
                      /\ Parse(line \o << <<flag>>, value >>) = again
    BY DEF NotationsAgree, line
  <2>6. flag \in Words /\ value \in Seq(Words) /\ value # <<>>
    BY DeviceFacts DEF None, Words
  <2>7. <<flag>> \in S /\ value \in S /\ <<flag>> \o value \in S
    <3>1. <<flag>> \in Seq(Words)
      BY <2>6
    <3>2. <<flag>> \o value \in Seq(Words)
      BY <2>6, <3>1, Concatenation
    <3> QED
      BY <2>6, <3>1, <3>2 DEF S
  <2>8. Agree(line, flag, value)
    <3> DEFINE W == Words
    <3> HIDE DEF W
    <3>1. flag \in W /\ value \in Seq(W)
      BY <2>6 DEF W
    <3> QED
      BY <2>5, <2>6, <2>7, <3>1, BothNotations
  <2> QED
    BY <2>8 DEF Agree
<1> QED
  BY LineInductive, <1>1, PTL

=============================================================================
