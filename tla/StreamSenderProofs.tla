------------------------- MODULE StreamSenderProofs -------------------------
(***************************************************************************)
(* Theorems about StreamSender: how the events count the samples, what is  *)
(* in their payloads and in which encoding, and what Hello agrees on, for  *)
(* any sample width, any chunk size, any calls and any failures.           *)
(***************************************************************************)
EXTENDS MCStreamSender, TransitionProofs

-----------------------------------------------------------------------------
(* The inductive invariant.                                                *)

(* What is counted, and where the current call stands.                     *)
Counts ==
  /\ unitsize \in Nat \ {0} /\ unitsize <= MaxPayload
  /\ seq \in Nat /\ first \in Nat
  /\ rest \in Seq(Bytes) /\ given \in Seq(Bytes) /\ Len(rest) <= Len(given)
  /\ clean \in BOOLEAN
  /\ \E S : pushed \in Seq(S)

(* first_sample never runs ahead of the bytes; while nothing failed and    *)
(* every call was of whole samples it does not fall behind.                *)
FirstKeepsUp ==
  /\ first * unitsize <= Len(given) - Len(rest)
  /\ clean => /\ first * unitsize = Len(given) - Len(rest)
              /\ \E k \in Nat : Len(rest) = k * unitsize

(* The events follow each other.                                           *)
Chained ==
  /\ seq = Len(pushed)
  /\ \A i \in DOMAIN pushed :
       /\ pushed[i].seq = i - 1
       /\ pushed[i].first_sample + pushed[i].sample_count
            = IF i < Len(pushed) THEN pushed[i + 1].first_sample ELSE first

IInv == Counts /\ FirstKeepsUp /\ Chained /\ PositionIsTrue

(* A full chunk is of whole samples, and of one at least.                  *)
LEMMA ChunkFacts ==
  ASSUME Counts
  PROVE  /\ Chunk \in Nat \ {0}
         /\ \E k \in Nat : Chunk = k * unitsize
<1> DEFINE q == MaxPayload \div unitsize
<1>1. /\ MaxPayload \in Nat /\ unitsize \in Nat \ {0} /\ unitsize <= MaxPayload
  BY SenderAssumption DEF Counts
<1>2. /\ q \in Nat /\ MaxPayload % unitsize \in 0 .. unitsize - 1
      /\ MaxPayload = (q * unitsize) + (MaxPayload % unitsize)
  BY <1>1, DivMod
<1>3. q * unitsize \in Nat
  BY <1>1, <1>2, Product
<1> HIDE DEF q
<1>4. Chunk = q * unitsize /\ Chunk \in Nat \ {0}
  BY <1>1, <1>2, <1>3 DEF Chunk
<1> QED
  BY <1>2, <1>4

(* A part is of what is left, and counts the whole samples in it: all of   *)
(* it when what is left is of whole samples.                               *)
LEMMA PartFacts ==
  ASSUME Counts, rest # <<>>
  PROVE  /\ PartLen \in 0 .. Len(rest) /\ SampleCount \in Nat
         /\ SampleCount * unitsize <= PartLen
         /\ (\E k \in Nat : Len(rest) = k * unitsize) =>
              /\ SampleCount * unitsize = PartLen
              /\ \E k \in Nat : Len(rest) - PartLen = k * unitsize
<1>1. Len(rest) \in Nat /\ unitsize \in Nat \ {0}
  BY Lengths DEF Counts
<1>2. PartLen \in 0 .. Len(rest)
  BY <1>1, ChunkFacts DEF PartLen
<1>3. /\ SampleCount \in Nat /\ PartLen % unitsize \in Nat
      /\ PartLen = (SampleCount * unitsize) + (PartLen % unitsize)
  <2>1. PartLen \in Nat
    BY <1>1, <1>2
  <2>2. /\ PartLen % unitsize \in 0 .. unitsize - 1
        /\ PartLen \div unitsize \in Nat
        /\ PartLen = ((PartLen \div unitsize) * unitsize) + (PartLen % unitsize)
    BY <1>1, <2>1, DivMod
  <2> QED
    BY <1>1, <2>2 DEF SampleCount
<1>4. SampleCount * unitsize \in Nat
  BY <1>1, <1>3, Product
<1>5. SampleCount * unitsize <= PartLen
  BY <1>2, <1>3, <1>4
<1>6. ASSUME NEW k \in Nat, Len(rest) = k * unitsize
      PROVE  /\ SampleCount * unitsize = PartLen
             /\ \E j \in Nat : Len(rest) - PartLen = j * unitsize
  <2>1. PICK c \in Nat : Chunk = c * unitsize
    BY ChunkFacts
  <2>2. \E p \in Nat : PartLen = p * unitsize
    BY <1>6, <2>1 DEF PartLen
  <2>3. PICK p \in Nat : PartLen = p * unitsize
    BY <2>2
  <2>4. SampleCount = p
    BY <1>1, <2>3, Multiple DEF SampleCount
  <2>5. Len(rest) - PartLen = (k - p) * unitsize
    BY <1>1, <1>6, <2>3, Distribute
  <2>6. k - p \in Nat
    <3>1. SUFFICES ASSUME k < p PROVE FALSE
      OBVIOUS
    <3>2. k + 1 <= p /\ (p - (k + 1)) \in Nat
      BY <3>1
    <3>3. (p - (k + 1)) * unitsize \in Nat
      BY <1>1, <3>2, Product
    <3>4. (p * unitsize) - ((k + 1) * unitsize) = (p - (k + 1)) * unitsize
          /\ (k * unitsize) + (1 * unitsize) = (k + 1) * unitsize
      BY <1>1, Distribute
    <3>5. (k * unitsize) \in Nat /\ (p * unitsize) \in Nat
      BY <1>1, Product
    <3>6. (k + 1) * unitsize = (k * unitsize) + unitsize
      BY <1>1, <3>4
    <3> QED
      BY <1>1, <1>2, <1>6, <2>3, <3>3, <3>4, <3>5, <3>6
  <2> QED
    BY <2>3, <2>4, <2>5, <2>6
<1> QED
  BY <1>2, <1>3, <1>5, <1>6

-----------------------------------------------------------------------------
(* A step keeps the invariant.                                             *)

(* The start of an acquisition.                                            *)
LEMMA InitIInv == Init => IInv
<1> SUFFICES ASSUME Init PROVE IInv
  OBVIOUS
<1>1. unitsize \in Nat \ {0} /\ unitsize <= MaxPayload
  BY SenderAssumption DEF Init
<1>2. \A S : <<>> \in Seq(S)
  OBVIOUS
<1>3. Counts
  BY <1>1, <1>2 DEF Init, Counts
<1>4. 0 * unitsize = 0
  BY <1>1, Product, Z3
<1>5. FirstKeepsUp
  BY <1>4 DEF Init, FirstKeepsUp
<1>6. Chained /\ PositionIsTrue
  BY DEF Init, Chained, PositionIsTrue
<1> QED
  BY <1>3, <1>5, <1>6 DEF IInv

(* A call hands over more bytes, which are all still to be pushed.         *)
LEMMA SendKeeps ==
  ASSUME IInv, NEW n \in CallSizes, NEW packed \in [1 .. n -> Values], Send(packed)
  PROVE  IInv'
<1> USE DEF IInv
<1>1. n \in Nat /\ packed \in Seq(Bytes) /\ Len(packed) = n
  BY SenderAssumption
<1>2. /\ rest = <<>> /\ rest' = packed /\ given' = given \o packed
      /\ clean' = (clean /\ Len(packed) % unitsize = 0)
      /\ UNCHANGED <<unitsize, seq, first, pushed>>
  BY DEF Send
<1>3. /\ Len(rest) = 0 /\ Len(given) \in Nat
      /\ given' \in Seq(Bytes) /\ Len(given') = Len(given) + n
  <2>1. Len(rest) = 0 /\ given \in Seq(Bytes) /\ Len(given) \in Nat
    BY <1>2 DEF Counts
  <2>2. given \o packed \in Seq(Bytes) /\ Len(given \o packed) = Len(given) + Len(packed)
    BY <1>1, <2>1, Concatenation
  <2> QED
    BY <1>1, <1>2, <2>1, <2>2
<1>4. Counts'
  BY <1>1, <1>2, <1>3 DEF Counts
<1>5. first * unitsize \in Nat
  BY Product DEF Counts
<1>6. ASSUME clean' PROVE \E k \in Nat : n = k * unitsize
  <2>1. n % unitsize = 0
    BY <1>1, <1>2, <1>6
  <2>2. /\ n \div unitsize \in Nat
        /\ n = ((n \div unitsize) * unitsize) + (n % unitsize)
    BY <1>1, DivMod DEF Counts
  <2>3. (n \div unitsize) * unitsize \in Nat
    BY <2>2, Product DEF Counts
  <2> QED
    BY <2>1, <2>2, <2>3
<1>7. FirstKeepsUp'
  <2>1. Len(given') - Len(rest') = Len(given) - Len(rest)
    BY <1>1, <1>2, <1>3
  <2>2. clean' => clean
    BY <1>2
  <2>3. first' * unitsize' = first * unitsize /\ Len(rest') = n /\ unitsize' = unitsize
    BY <1>1, <1>2
  <2>4. clean' => \E k \in Nat : Len(rest') = k * unitsize'
    BY <1>6, <2>3
  <2> QED
    BY <2>1, <2>2, <2>3, <2>4 DEF FirstKeepsUp
<1>8. Chained'
  BY <1>2 DEF Chained
<1>9. PositionIsTrue'
  BY <1>2 DEF PositionIsTrue
<1> QED
  BY <1>4, <1>7, <1>8, <1>9

(* A push that fails drops what is left of the call.                       *)
LEMMA PushFailsKeeps ==
  ASSUME IInv, PushFails
  PROVE  IInv'
<1> USE DEF IInv
<1>1. /\ rest' = <<>> /\ ~clean' /\ clean' \in BOOLEAN
      /\ UNCHANGED <<unitsize, seq, first, given, pushed>>
  BY DEF PushFails
<1>2. /\ Len(given) \in Nat /\ Len(rest) \in Nat /\ Len(rest') = 0
      /\ rest' \in Seq(Bytes)
  BY <1>1, Lengths DEF Counts
<1>3. Counts'
  BY <1>1, <1>2 DEF Counts
<1>4. first * unitsize \in Nat
  BY Product DEF Counts
<1>5. FirstKeepsUp'
  BY <1>1, <1>2, <1>4 DEF FirstKeepsUp
<1>6. Chained' /\ PositionIsTrue'
  BY <1>1 DEF Chained, PositionIsTrue
<1> QED
  BY <1>3, <1>5, <1>6

(* An event carries the next part and the position that first has reached. *)
LEMMA PushChunkKeeps ==
  ASSUME IInv, PushChunk
  PROVE  IInv'
<1> USE DEF IInv
<1> DEFINE n == Len(pushed) + 1
<1>1. /\ rest # <<>> /\ pushed' = Append(pushed, Data) /\ seq' = seq + 1
      /\ first' = first + SampleCount
      /\ rest' = SubSeq(rest, PartLen + 1, Len(rest))
      /\ UNCHANGED <<unitsize, given, clean>>
  BY DEF PushChunk
<1>2. /\ Len(rest) \in Nat /\ Len(given) \in Nat /\ Len(rest) <= Len(given)
      /\ unitsize \in Nat \ {0} /\ first \in Nat /\ seq \in Nat
  BY Lengths DEF Counts
<1>3. /\ PartLen \in 0 .. Len(rest) /\ SampleCount \in Nat
      /\ SampleCount * unitsize <= PartLen
  BY <1>1, PartFacts
<1>4. rest' \in Seq(Bytes) /\ Len(rest') = Len(rest) - PartLen
  BY <1>1, <1>3, Lengths DEF Counts
<1>5. /\ \E S : pushed' \in Seq(S)
      /\ Len(pushed) \in Nat /\ DOMAIN pushed = 1 .. Len(pushed)
      /\ Len(pushed') = n /\ DOMAIN pushed' = 1 .. n
      /\ \A i \in 1 .. Len(pushed) : pushed'[i] = pushed[i]
      /\ pushed'[n] = Data
  <2>1. PICK S : pushed \in Seq(S)
    BY DEF Counts
  <2>2. /\ Append(pushed, Data) \in Seq(S \cup {Data})
        /\ Len(pushed) \in Nat /\ DOMAIN pushed = 1 .. Len(pushed)
        /\ Len(Append(pushed, Data)) = Len(pushed) + 1
        /\ DOMAIN Append(pushed, Data) = 1 .. Len(pushed) + 1
        /\ \A i \in 1 .. Len(pushed) : Append(pushed, Data)[i] = pushed[i]
        /\ Append(pushed, Data)[Len(pushed) + 1] = Data
    BY <2>1, AppendAny
  <2> QED
    BY <1>1, <2>2
<1>6. Counts'
  BY <1>1, <1>2, <1>3, <1>4, <1>5 DEF Counts
<1>7. /\ first * unitsize \in Nat /\ SampleCount * unitsize \in Nat
      /\ (first * unitsize) + (SampleCount * unitsize) = first' * unitsize
  BY <1>1, <1>2, <1>3, Product, Distribute
<1>8. FirstKeepsUp'
  <2>1. first' * unitsize <= Len(given) - Len(rest')
    BY <1>2, <1>3, <1>4, <1>7 DEF FirstKeepsUp
  <2>2. ASSUME clean
        PROVE  /\ first' * unitsize = Len(given) - Len(rest')
               /\ \E k \in Nat : Len(rest') = k * unitsize
    <3>1. /\ SampleCount * unitsize = PartLen
          /\ \E k \in Nat : Len(rest) - PartLen = k * unitsize
      BY <1>1, <2>2, PartFacts DEF FirstKeepsUp
    <3> QED
      <4>1. first * unitsize = Len(given) - Len(rest)
        BY <2>2 DEF FirstKeepsUp
      <4>2. (first * unitsize) + PartLen = Len(given) - (Len(rest) - PartLen)
        <5>1. /\ first * unitsize \in Int /\ PartLen \in Int
              /\ Len(given) \in Int /\ Len(rest) \in Int
          BY <1>2, <1>3, <1>7
        <5> QED
          BY <4>1, <5>1, Shift
      <4>3. first' * unitsize = Len(given) - Len(rest')
        BY <1>4, <1>7, <3>1, <4>2
      <4> QED
        BY <1>4, <3>1, <4>3
  <2> QED
    BY <1>1, <2>1, <2>2 DEF FirstKeepsUp
<1>9. /\ Data.seq = seq /\ Data.first_sample = first
      /\ Data.sample_count = SampleCount /\ Data.at = Len(given) - Len(rest)
  BY DEF Data
<1>10. ASSUME NEW i \in DOMAIN pushed'
       PROVE  /\ pushed'[i].seq = i - 1
              /\ pushed'[i].first_sample + pushed'[i].sample_count
                   = IF i < n THEN pushed'[i + 1].first_sample ELSE first'
  <2>1. seq = Len(pushed)
    BY DEF Chained
  <2>2. CASE i = n
    BY <1>1, <1>2, <1>5, <1>9, <2>1, <2>2
  <2>3. CASE i = Len(pushed) /\ i > 0
    BY <1>2, <1>5, <1>9, <2>3 DEF Chained
  <2>4. CASE i < Len(pushed)
    <3>1. i \in 1 .. Len(pushed) /\ i + 1 \in 1 .. Len(pushed)
      BY <1>5, <1>10, <2>4
    <3> QED
      BY <1>5, <2>4, <3>1 DEF Chained
  <2> QED
    BY <1>5, <1>10, <2>2, <2>3, <2>4
<1>11. Chained'
  BY <1>1, <1>2, <1>5, <1>10 DEF Chained
<1>12. ASSUME NEW i \in DOMAIN pushed'
       PROVE  /\ pushed'[i].first_sample * unitsize <= pushed'[i].at
              /\ clean => pushed'[i].first_sample * unitsize = pushed'[i].at
  <2>1. CASE i = n
    BY <1>5, <1>9, <2>1 DEF FirstKeepsUp
  <2>2. CASE i \in 1 .. Len(pushed)
    BY <1>5, <2>2 DEF PositionIsTrue
  <2> QED
    BY <1>5, <1>12, <2>1, <2>2
<1>13. PositionIsTrue'
  BY <1>1, <1>12 DEF PositionIsTrue
<1> QED
  BY <1>6, <1>8, <1>11, <1>13

-----------------------------------------------------------------------------
(* What Hello agrees on.                                                   *)

(* The first n members of a list.                                          *)
Among(e, list, n) == \E i \in 1 .. n : list[i] = e

(* s has the members that other has of the first n of list, in the order   *)
(* they have there.                                                        *)
Selects(s, list, other, n) ==
  /\ s \in Seq(Nat)
  /\ \A e : Contains(s, e) <=> Contains(other, e) /\ Among(e, list, n)
  /\ \A i, j \in 1 .. Len(s) : i < j =>
       \E a, b \in 1 .. n : a < b /\ list[a] = s[i] /\ list[b] = s[j]

LEMMA SelectsNext ==
  ASSUME NEW s, NEW list \in Seq(Nat), NEW other, NEW n \in 1 .. Len(list),
         Selects(s, list, other, n - 1)
  PROVE  Selects(IF Contains(other, list[n]) THEN Append(s, list[n]) ELSE s,
                 list, other, n)
<1> DEFINE x == list[n]
           t == Append(s, x)
<1>1. x \in Nat /\ s \in Seq(Nat) /\ n \in Nat /\ Len(s) \in Nat
  BY DEF Selects
<1>2. \A e : Among(e, list, n) <=> Among(e, list, n - 1) \/ e = x
  <2>1. \A i \in 1 .. n : i \in 1 .. n - 1 \/ i = n
    BY <1>1
  <2>2. \A i \in 1 .. n - 1 : i \in 1 .. n
    BY <1>1
  <2>3. n \in 1 .. n
    BY <1>1
  <2> QED
    BY <2>1, <2>2, <2>3 DEF Among
<1>3. CASE ~Contains(other, x)
  <2>1. \A e : Contains(s, e) <=> Contains(other, e) /\ Among(e, list, n)
    BY <1>2, <1>3 DEF Selects
  <2>2. ASSUME NEW i \in 1 .. Len(s), NEW j \in 1 .. Len(s), i < j
        PROVE  \E a, b \in 1 .. n : a < b /\ list[a] = s[i] /\ list[b] = s[j]
    <3>1. PICK a \in 1 .. n - 1, b \in 1 .. n - 1 : a < b /\ list[a] = s[i] /\ list[b] = s[j]
      BY <2>2 DEF Selects
    <3>2. a \in 1 .. n /\ b \in 1 .. n
      BY <1>1
    <3> QED
      BY <3>1, <3>2
  <2> QED
    BY <1>1, <1>3, <2>1, <2>2 DEF Selects
<1>4. CASE Contains(other, x)
  <2>1. /\ t \in Seq(Nat) /\ Len(t) = Len(s) + 1
        /\ \A i \in 1 .. Len(s) : t[i] = s[i]
        /\ t[Len(s) + 1] = x
    BY <1>1, AppendFacts
  <2> HIDE DEF t
  <2>2. \A e : Contains(t, e) <=> Contains(s, e) \/ e = x
    <3>1. \A i \in 1 .. Len(t) : i \in 1 .. Len(s) \/ i = Len(s) + 1
      BY <1>1, <2>1
    <3>2. /\ \A i \in 1 .. Len(s) : i \in 1 .. Len(t)
          /\ Len(s) + 1 \in 1 .. Len(t)
      BY <1>1, <2>1
    <3> QED
      BY <2>1, <3>1, <3>2 DEF Contains
  <2>3. \A e : Contains(t, e) <=> Contains(other, e) /\ Among(e, list, n)
    BY <1>2, <1>4, <2>2 DEF Selects
  <2>4. ASSUME NEW i \in 1 .. Len(t), NEW j \in 1 .. Len(t), i < j
        PROVE  \E a, b \in 1 .. n : a < b /\ list[a] = t[i] /\ list[b] = t[j]
    <3>1. i \in 1 .. Len(s) /\ t[i] = s[i]
      <4>1. /\ i \in 1 .. Len(s) + 1 /\ j \in 1 .. Len(s) + 1
            /\ i \in Nat /\ j \in Nat /\ i < j /\ Len(s) \in Nat
        BY <1>1, <2>1, <2>4
      <4>2. i \in 1 .. Len(s)
        BY <4>1
      <4> QED
        BY <2>1, <4>2
    <3>2. CASE j \in 1 .. Len(s)
      <4>1. PICK a \in 1 .. n - 1, b \in 1 .. n - 1 :
              a < b /\ list[a] = s[i] /\ list[b] = s[j]
        BY <2>4, <3>1, <3>2 DEF Selects
      <4>2. a \in 1 .. n /\ b \in 1 .. n
        BY <1>1
      <4> QED
        BY <2>1, <3>1, <3>2, <4>1, <4>2
    <3>3. CASE j = Len(s) + 1
      <4>1. Contains(s, s[i])
        BY <3>1 DEF Contains
      <4>2. PICK a \in 1 .. n - 1 : list[a] = s[i]
        BY <4>1 DEF Selects, Among
      <4>3. a \in 1 .. n /\ n \in 1 .. n /\ a < n
        BY <1>1
      <4> QED
        BY <2>1, <3>1, <3>3, <4>2, <4>3
    <3> QED
      BY <1>1, <2>1, <3>2, <3>3
  <2>5. Selects(t, list, other, n)
    BY <2>1, <2>3, <2>4 DEF Selects
  <2> QED
    BY <1>4, <2>5 DEF t
<1> QED
  BY <1>3, <1>4

LEMMA CommonSelects ==
  ASSUME NEW list \in Seq(Nat), NEW other
  PROVE  Selects(Common(list, other), list, other, Len(list))
<1> DEFINE D == 0 .. Len(list)
           V == Seq(Nat)
           rank == [n \in D |-> n]
           step == [n \in D |-> [f \in [D -> V] |->
                      IF n = 0 THEN <<>>
                      ELSE IF Contains(other, list[n]) THEN Append(f[n - 1], list[n])
                      ELSE f[n - 1]]]
           kept == CHOOSE kept : kept = [n \in 0 .. Len(list) |->
                     IF n = 0 THEN <<>>
                     ELSE IF Contains(other, list[n]) THEN Append(kept[n - 1], list[n])
                     ELSE kept[n - 1]]
<1>1. Len(list) \in Nat /\ \A n \in D : n \in Nat /\ (n # 0 => n - 1 \in D /\ list[n] \in Nat)
  OBVIOUS
<1>2. rank \in [D -> Nat] /\ \A n \in D : rank[n] = n
  OBVIOUS
<1>3. Common(list, other) = kept[Len(list)]
  BY DEF Common
<1> HIDE DEF kept
<1>4. /\ step \in [D -> [[D -> V] -> V]]
      /\ \A n \in D : \A f \in [D -> V] :
           step[n][f] = IF n = 0 THEN <<>>
                        ELSE IF Contains(other, list[n]) THEN Append(f[n - 1], list[n])
                        ELSE f[n - 1]
  <2>1. ASSUME NEW n \in D, NEW f \in [D -> V]
        PROVE  (IF n = 0 THEN <<>>
                ELSE IF Contains(other, list[n]) THEN Append(f[n - 1], list[n])
                ELSE f[n - 1]) \in V
    <3>1. ASSUME n # 0 PROVE f[n - 1] \in V /\ Append(f[n - 1], list[n]) \in V
      <4>1. f[n - 1] \in V /\ list[n] \in Nat
        BY <1>1, <3>1
      <4> QED
        BY <4>1, AppendFacts
    <3>2. <<>> \in V
      BY NoElements
    <3> HIDE DEF V, D
    <3> QED
      BY <3>1, <3>2
  <2> HIDE DEF V, D
  <2> QED
    BY <2>1
<1> HIDE DEF rank, step
<1>5. LooksBack(D, V, rank, step)
  <2> SUFFICES ASSUME NEW n \in D, NEW f \in [D -> V], NEW g \in [D -> V],
                      \A j \in D : rank[j] < rank[n] => f[j] = g[j]
               PROVE  step[n][f] = step[n][g]
    BY DEF LooksBack
  <2>1. ASSUME n # 0 PROVE f[n - 1] = g[n - 1]
    <3>1. n - 1 \in D /\ rank[n - 1] = n - 1 /\ rank[n] = n /\ n \in Nat
      BY <1>1, <1>2, <2>1
    <3> QED
      BY <3>1
  <2> HIDE DEF D, V
  <2> QED
    BY <1>4, <2>1
<1>6. PICK f : Solves(f, D, V, step)
  <2>1. V # {}
    BY NoElements
  <2>2. IsRecursion(D, V, rank, step)
    BY <1>2, <1>4, <1>5, <2>1 DEF IsRecursion
  <2> QED
    BY <2>2, Recursion, Zenon
<1>7. f = [n \in D |-> IF n = 0 THEN <<>>
                       ELSE IF Contains(other, list[n]) THEN Append(f[n - 1], list[n])
                       ELSE f[n - 1]]
  <2> HIDE DEF D, V
  <2> QED
    BY <1>4, <1>6 DEF Solves
<1>8. kept = [n \in D |-> IF n = 0 THEN <<>>
                          ELSE IF Contains(other, list[n]) THEN Append(kept[n - 1], list[n])
                          ELSE kept[n - 1]]
  BY <1>7 DEF kept
<1> DEFINE T == {n \in Nat : n \in D => Selects(kept[n], list, other, n)}
<1>9. ASSUME NEW n \in Nat, \A m \in 0 .. n - 1 : m \in T PROVE n \in T
  <2> SUFFICES ASSUME n \in D PROVE Selects(kept[n], list, other, n)
    OBVIOUS
  <2>1. CASE n = 0
    <3>1. kept[n] = <<>>
      BY <1>8, <2>1
    <3>2. Selects(<<>>, list, other, 0)
      BY DEF Selects, Contains, Among
    <3> QED
      BY <2>1, <3>1, <3>2
  <2>2. CASE n # 0
    <3>1. n - 1 \in D /\ n - 1 \in T /\ n \in 1 .. Len(list)
      BY <1>1, <1>9, <2>2
    <3>2. Selects(kept[n - 1], list, other, n - 1)
      BY <3>1
    <3>3. kept[n] = IF Contains(other, list[n]) THEN Append(kept[n - 1], list[n])
                    ELSE kept[n - 1]
      BY <1>8, <2>2
    <3> QED
      BY <3>1, <3>2, <3>3, SelectsNext
  <2> QED
    BY <2>1, <2>2
<1> HIDE DEF T
<1>10. \A n \in Nat : n \in T
  BY <1>9, Induction
<1>11. Len(list) \in D /\ Len(list) \in T
  BY <1>1, <1>10
<1> QED
  BY <1>3, <1>11 DEF T

(* Hello agrees on what both sides have, and on the mandatory member.      *)
LEMMA AgreedIsCommon ==
  ASSUME NEW accept_ \in Seq(Nat), NEW supported \in Seq(Nat), NEW mandatory \in Nat
  PROVE  \A e : Contains(Intersect(accept_, supported, mandatory), e)
                  <=> \/ Contains(accept_, e) /\ Contains(supported, e)
                      \/ e = mandatory
<1> DEFINE both == Common(supported, accept_)
           agreed == Intersect(accept_, supported, mandatory)
<1>1. /\ both \in Seq(Nat)
      /\ \A e : Contains(both, e) <=> Contains(accept_, e) /\ Contains(supported, e)
  <2>1. Selects(both, supported, accept_, Len(supported))
    BY CommonSelects
  <2> HIDE DEF both
  <2> QED
    BY <2>1 DEF Selects, Among, Contains
<1>2. agreed = IF accept_ = <<>> THEN <<mandatory>>
               ELSE IF Contains(both, mandatory) THEN both ELSE Append(both, mandatory)
  BY DEF Intersect
<1> HIDE DEF both, agreed
<1>3. CASE accept_ = <<>>
  <2>1. \A e : ~Contains(accept_, e)
    BY <1>3 DEF Contains
  <2>2. \A e : Contains(<<mandatory>>, e) <=> e = mandatory
    BY DEF Contains
  <2> QED
    BY <1>2, <1>3, <2>1, <2>2 DEF agreed
<1>4. CASE accept_ # <<>> /\ Contains(both, mandatory)
  BY <1>1, <1>2, <1>4 DEF agreed
<1>5. CASE accept_ # <<>> /\ ~Contains(both, mandatory)
  <2> DEFINE t == Append(both, mandatory)
  <2>1. /\ t \in Seq(Nat) /\ Len(t) = Len(both) + 1 /\ Len(both) \in Nat
        /\ \A i \in 1 .. Len(both) : t[i] = both[i]
        /\ t[Len(both) + 1] = mandatory
    BY <1>1, AppendFacts
  <2> HIDE DEF t
  <2>2. \A e : Contains(t, e) <=> Contains(both, e) \/ e = mandatory
    <3>1. \A i \in 1 .. Len(t) : i \in 1 .. Len(both) \/ i = Len(both) + 1
      BY <2>1
    <3>2. /\ \A i \in 1 .. Len(both) : i \in 1 .. Len(t)
          /\ Len(both) + 1 \in 1 .. Len(t)
      BY <2>1
    <3> QED
      BY <2>1, <3>1, <3>2 DEF Contains
  <2>3. agreed = t
    BY <1>2, <1>5 DEF t
  <2> QED
    BY <1>1, <2>2, <2>3 DEF agreed
<1> QED
  BY <1>3, <1>4, <1>5

(* What the order of preference of a plugin has to be: no member twice,    *)
(* and the mandatory one last.                                             *)
IsPreference(list) ==
  /\ list \in Seq(Nat) /\ Len(list) # 0 /\ list[Len(list)] = Packed
  /\ \A i, j \in 1 .. Len(list) : list[i] = list[j] => i = j

(* Hello keeps that order.                                                 *)
LEMMA AgreedIsOrdered ==
  ASSUME NEW theirs \in Seq(Nat), NEW list, IsPreference(list)
  PROVE  LET agreed == NegotiateEncodings(theirs, list)
             at(e) == CHOOSE i \in DOMAIN list : list[i] = e
         IN  /\ agreed \in Seq(Nat)
             /\ \A i, j \in DOMAIN agreed : i < j => at(agreed[i]) < at(agreed[j])
<1> DEFINE both == Common(list, theirs)
           agreed == NegotiateEncodings(theirs, list)
           at(e) == CHOOSE i \in DOMAIN list : list[i] = e
           Ordered(s) == /\ s \in Seq(Nat)
                         /\ \A i, j \in DOMAIN s : i < j => at(s[i]) < at(s[j])
           n == Len(list)
<1>1. /\ list \in Seq(Nat) /\ n \in Nat \ {0} /\ DOMAIN list = 1 .. n /\ list[n] = Packed
      /\ \A i, j \in 1 .. n : list[i] = list[j] => i = j
      /\ Packed \in Nat
  BY DEF IsPreference, Packed
<1>2. agreed = IF theirs = <<>> THEN <<Packed>>
               ELSE IF Contains(both, Packed) THEN both ELSE Append(both, Packed)
  BY DEF NegotiateEncodings, Intersect
<1>3. \A k \in 1 .. n : at(list[k]) = k
  BY <1>1
<1>4. /\ both \in Seq(Nat) /\ Len(both) \in Nat /\ DOMAIN both = 1 .. Len(both)
      /\ \A e : Contains(both, e) <=> Contains(theirs, e) /\ Among(e, list, n)
      /\ \A i, j \in 1 .. Len(both) : i < j =>
           \E a, b \in 1 .. n : a < b /\ list[a] = both[i] /\ list[b] = both[j]
  <2>1. Selects(both, list, theirs, n)
    BY <1>1, CommonSelects
  <2> HIDE DEF both, n
  <2>2. both \in Seq(Nat)
    BY <2>1 DEF Selects
  <2>3. Len(both) \in Nat /\ DOMAIN both = 1 .. Len(both)
    BY <2>2
  <2> QED
    BY <2>1, <2>2, <2>3, Zenon DEF Selects
<1> HIDE DEF both, agreed, at, n
<1>5. ASSUME NEW i \in 1 .. Len(both), NEW j \in 1 .. Len(both), i < j
      PROVE  at(both[i]) < at(both[j])
  <2>1. PICK a \in 1 .. n, b \in 1 .. n : a < b /\ list[a] = both[i] /\ list[b] = both[j]
    BY <1>4, <1>5
  <2>2. at(both[i]) = a /\ at(both[j]) = b
    BY <1>3, <2>1
  <2> QED
    BY <2>1, <2>2
<1>6. ASSUME theirs = <<>> PROVE Ordered(agreed)
  <2>1. agreed = <<Packed>>
    BY <1>2, <1>6
  <2>2. <<Packed>> \in Seq(Nat) /\ DOMAIN <<Packed>> = 1 .. 1
    BY <1>1
  <2>3. \A i, j \in 1 .. 1 : ~(i < j)
    OBVIOUS
  <2>4. Ordered(<<Packed>>)
    BY <2>2, <2>3
  <2> HIDE DEF Ordered
  <2> QED
    BY <2>1, <2>4
<1>7. ASSUME theirs # <<>>, Contains(both, Packed) PROVE Ordered(agreed)
  <2>1. agreed = both
    BY <1>2, <1>7
  <2>2. \A i, j \in DOMAIN both : i < j => at(both[i]) < at(both[j])
    BY <1>4, <1>5
  <2>3. Ordered(both)
    BY <1>4, <2>2
  <2> HIDE DEF Ordered
  <2> QED
    BY <2>1, <2>3
<1>8. ASSUME theirs # <<>>, ~Contains(both, Packed) PROVE Ordered(agreed)
  <2>1. agreed = Append(both, Packed)
    BY <1>2, <1>8
  <2>2. /\ agreed \in Seq(Nat) /\ DOMAIN agreed = 1 .. Len(both) + 1
        /\ \A i \in 1 .. Len(both) : agreed[i] = both[i]
        /\ agreed[Len(both) + 1] = Packed
    BY <1>1, <1>4, <2>1, AppendFacts
  <2>3. ASSUME NEW i \in DOMAIN agreed, NEW j \in DOMAIN agreed, i < j
        PROVE  at(agreed[i]) < at(agreed[j])
    <3>1. i \in 1 .. Len(both) /\ agreed[i] = both[i]
      <4>1. /\ i \in 1 .. Len(both) + 1 /\ j \in 1 .. Len(both) + 1 /\ i < j
            /\ Len(both) \in Nat
        BY <1>4, <2>2, <2>3
      <4>2. i \in 1 .. Len(both)
        BY <4>1
      <4> QED
        BY <2>2, <4>2
    <3>2. CASE j \in 1 .. Len(both)
      BY <1>5, <2>2, <2>3, <3>1, <3>2
    <3>3. CASE j = Len(both) + 1
      <4>1. Contains(both, both[i])
        BY <3>1 DEF Contains
      <4>2. PICK a \in 1 .. n : list[a] = both[i]
        BY <1>4, <4>1 DEF Among
      <4>3. a # n
        BY <1>1, <1>8, <4>1, <4>2
      <4>4. at(both[i]) = a /\ at(Packed) = n
        <5>1. n \in 1 .. n
          BY <1>1
        <5> QED
          BY <1>1, <1>3, <4>2, <5>1
      <4>5. a < n
        BY <1>1, <4>2, <4>3
      <4> QED
        BY <2>2, <3>1, <3>3, <4>4, <4>5
    <3> QED
      BY <1>4, <2>2, <3>2, <3>3
  <2> QED
    BY <2>2, <2>3
<1>9. Ordered(agreed)
  <2> HIDE DEF Ordered
  <2> QED
    BY <1>6, <1>7, <1>8
<1> QED
  BY <1>9 DEF agreed, at

-----------------------------------------------------------------------------
(* What is in the payloads.                                                *)

PartOf(event, n) == SubSeq(given, event.at + 1, event.at + n)

(* An event is made of n of the bytes given, those from its place on.      *)
CarriesPart(event, n) ==
  /\ event.at \in Nat /\ event.at + n <= Len(given)
  /\ event.sample_count = n \div unitsize
  /\ event.encoding = encoding /\ event.codec = NoCodec
  /\ event.payload = IF encoding = TransitionEncoding
                       THEN EncodeTransition(PartOf(event, n), unitsize)
                       ELSE PartOf(event, n)
  /\ clean => n = event.sample_count * unitsize

(* No encoding is used that was not accepted; what is left of a call is    *)
(* the end of what was given; every event is made of a part of it.         *)
Payloads ==
  /\ accept \in Seq(Nat)
  /\ encoding \in {Packed, TransitionEncoding}
  /\ encoding = TransitionEncoding => encoding \in ToSet(accept)
  /\ rest = SubSeq(given, (Len(given) - Len(rest)) + 1, Len(given))
  /\ \A i \in DOMAIN pushed : \E n \in 0 .. MaxPayload : CarriesPart(pushed[i], n)

(* A member of a set is contained in a sequence with these members.        *)
LEMMA ContainedIsMember ==
  ASSUME NEW s \in Seq(Nat), NEW e
  PROVE  Contains(s, e) <=> e \in ToSet(s)
BY DEF Contains, ToSet

LEMMA InitPayloads == Init => Payloads
<1> SUFFICES ASSUME Init PROVE Payloads
  OBVIOUS
<1>1. ASSUME encoding = TransitionEncoding PROVE encoding \in ToSet(accept)
  <2>1. PICK supported \in SupportedLists :
          Accepts(NegotiateEncodings(accept, supported), encoding)
    BY <1>1 DEF Init
  <2>2. accept \in Seq(Nat) /\ supported \in Seq(Nat) /\ Packed \in Nat
        /\ TransitionEncoding # Packed
    BY SenderAssumption DEF Init, Packed, TransitionEncoding
  <2>3. Contains(Intersect(accept, supported, Packed), encoding)
    BY <2>1 DEF Accepts, NegotiateEncodings
  <2>4. Contains(accept, encoding)
    BY <1>1, <2>2, <2>3, AgreedIsCommon
  <2> QED
    BY <2>2, <2>4, ContainedIsMember
<1>2. rest = <<>> /\ given = <<>> /\ Len(<<>>) = 0 /\ pushed = <<>>
      /\ encoding \in {Packed, TransitionEncoding} /\ accept \in Seq(Nat)
  BY SenderAssumption DEF Init
<1>3. SubSeq(<<>>, (0 - 0) + 1, 0) = <<>>
  OBVIOUS
<1>4. rest = SubSeq(given, (Len(given) - Len(rest)) + 1, Len(given))
  BY <1>2, <1>3
<1>5. \A i \in DOMAIN pushed : \E n \in 0 .. MaxPayload : CarriesPart(pushed[i], n)
  BY <1>2, NoElements
<1> QED
  BY <1>1, <1>2, <1>4, <1>5 DEF Payloads

(* What an event carries does not change when more is given.               *)
LEMMA StillCarried ==
  ASSUME Counts, NEW t \in Seq(Bytes), given' = given \o t,
         UNCHANGED <<unitsize, encoding>>, clean' => clean
  PROVE  \A event : \A n \in Nat : CarriesPart(event, n) => CarriesPart(event, n)'
<1> SUFFICES ASSUME NEW event, NEW n \in Nat, CarriesPart(event, n)
             PROVE  CarriesPart(event, n)'
  OBVIOUS
<1>1. given \in Seq(Bytes) /\ Len(given) \in Nat
  BY DEF Counts
<1>2. event.at \in Nat /\ event.at + n <= Len(given)
  BY DEF CarriesPart
<1>3. Len(given') >= Len(given) /\ Len(given') \in Nat
  <2>1. Len(given \o t) = Len(given) + Len(t) /\ Len(t) \in Nat
    BY <1>1, Concatenation
  <2> QED
    BY <1>1, <2>1
<1>4. SubSeq(given', event.at + 1, event.at + n) = SubSeq(given, event.at + 1, event.at + n)
  <2> DEFINE a == event.at + 1
             b == event.at + n
  <2>1. a \in Nat \ {0} /\ b \in Nat /\ a <= b + 1 /\ b <= Len(given)
    BY <1>1, <1>2
  <2> HIDE DEF a, b
  <2>2. SubSeq(given \o t, a, b) = SubSeq(given, a, b)
    BY <1>1, <2>1, SlicePrefix
  <2> QED
    BY <2>2 DEF a, b
<1>5. event.at + n <= Len(given')
  BY <1>1, <1>2, <1>3
<1> QED
  BY <1>2, <1>4, <1>5 DEF CarriesPart, PartOf

LEMMA SendKeepsPayloads ==
  ASSUME Counts, Payloads, NEW n \in CallSizes, NEW packed \in [1 .. n -> Values], Send(packed)
  PROVE  Payloads'
<1>1. /\ rest' = packed /\ given' = given \o packed /\ (clean' => clean)
      /\ UNCHANGED <<accept, unitsize, encoding, pushed>>
  BY DEF Send
<1>2. packed \in Seq(Bytes) /\ given \in Seq(Bytes)
  BY SenderAssumption DEF Counts
<1>3. rest' = SubSeq(given', (Len(given') - Len(rest')) + 1, Len(given'))
  <2>1. /\ Len(given \o packed) = Len(given) + Len(packed)
        /\ Len(given) \in Nat /\ Len(packed) \in Nat
    BY <1>2, Concatenation
  <2>2. (Len(given \o packed) - Len(packed)) + 1 = Len(given) + 1
    BY <2>1
  <2>3. SubSeq(given \o packed, Len(given) + 1, Len(given) + Len(packed)) = packed
    BY <1>2, SliceSuffix
  <2> QED
    BY <1>1, <2>1, <2>2, <2>3
<1>4. ASSUME NEW i \in DOMAIN pushed'
      PROVE  \E m \in 0 .. MaxPayload : CarriesPart(pushed[i], m)'
  <2>1. pushed' = pushed
    BY <1>1
  <2>2. PICK m \in 0 .. MaxPayload : CarriesPart(pushed[i], m)
    BY <2>1 DEF Payloads
  <2>3. m \in Nat
    BY SenderAssumption
  <2>4. PICK event : event = pushed[i]
    OBVIOUS
  <2>5. CarriesPart(event, m)'
    BY <1>1, <1>2, <2>2, <2>3, <2>4, StillCarried
  <2>6. CarriesPart(pushed[i], m)'
    BY <2>1, <2>4, <2>5
  <2> QED
    BY <2>6
<1> QED
  BY <1>1, <1>3, <1>4 DEF Payloads

LEMMA PushFailsKeepsPayloads ==
  ASSUME Counts, Payloads, PushFails
  PROVE  Payloads'
<1>1. /\ rest' = <<>> /\ ~clean'
      /\ UNCHANGED <<accept, unitsize, encoding, given, pushed>>
  BY DEF PushFails
<1>2. rest' = SubSeq(given', (Len(given') - Len(rest')) + 1, Len(given'))
  <2>1. given \in Seq(Bytes) /\ Len(given) \in Nat /\ Len(<<>>) = 0
    BY DEF Counts
  <2>2. (Len(given) - 0) + 1 = Len(given) + 1
    BY <2>1
  <2>3. SubSeq(given, Len(given) + 1, Len(given)) = <<>>
    BY <2>1
  <2> QED
    BY <1>1, <2>1, <2>2, <2>3
<1>3. ASSUME NEW i \in DOMAIN pushed'
      PROVE  \E m \in 0 .. MaxPayload : CarriesPart(pushed[i], m)'
  BY <1>1 DEF Payloads, CarriesPart, PartOf
<1> QED
  BY <1>1, <1>2, <1>3 DEF Payloads

LEMMA PushChunkKeepsPayloads ==
  ASSUME IInv, Payloads, PushChunk
  PROVE  Payloads'
<1> DEFINE n == Len(pushed) + 1
           at == Len(given) - Len(rest)
<1>1. /\ rest # <<>> /\ pushed' = Append(pushed, Data)
      /\ rest' = SubSeq(rest, PartLen + 1, Len(rest))
      /\ UNCHANGED <<accept, unitsize, encoding, given, clean>>
  BY DEF PushChunk
<1>2. /\ Counts /\ FirstKeepsUp /\ rest \in Seq(Bytes) /\ given \in Seq(Bytes)
      /\ Len(rest) \in Nat \ {0} /\ Len(given) \in Nat /\ Len(rest) <= Len(given)
      /\ unitsize \in Nat \ {0} /\ MaxPayload \in Nat
  BY <1>1, SenderAssumption DEF IInv, Counts
<1>3. /\ PartLen \in 0 .. Len(rest) /\ PartLen \in 0 .. MaxPayload /\ PartLen \in Nat
      /\ SampleCount = PartLen \div unitsize
  <2>1. PartLen \in 0 .. Len(rest)
    BY <1>1, <1>2, PartFacts
  <2>2. Chunk \in Nat /\ Chunk <= MaxPayload
    <3>1. MaxPayload % unitsize \in 0 .. unitsize - 1
      BY <1>2, DivMod
    <3>2. Chunk \in Nat
      BY <1>2, ChunkFacts
    <3> DEFINE r == MaxPayload % unitsize
    <3>3. r \in Nat
      BY <1>2, <3>1
    <3>4. Chunk = MaxPayload - r
      BY DEF Chunk
    <3> HIDE DEF r
    <3> QED
      BY <1>2, <3>2, <3>3, <3>4
  <2>3. PartLen <= Chunk
    BY <1>2, <2>2 DEF PartLen
  <2> QED
    BY <1>2, <2>1, <2>2, <2>3 DEF SampleCount
<1>4. /\ at \in Nat /\ at + PartLen <= Len(given) /\ at + 1 \in Nat \ {0}
      /\ at + 1 <= Len(given) + 1 /\ (Len(given) - (at + 1)) + 1 = Len(rest)
      /\ Len(given) - (Len(rest) - PartLen) = at + PartLen
      /\ ((at + 1) + 1) - 1 = at + 1 /\ ((at + 1) + PartLen) - 1 = at + PartLen
      /\ ((at + 1) + (PartLen + 1)) - 1 = (at + PartLen) + 1
      /\ ((at + 1) + Len(rest)) - 1 = Len(given)
  BY <1>2, <1>3
<1>5. rest = SubSeq(given, at + 1, Len(given))
  BY DEF Payloads
<1> DEFINE a == at + 1
           g == Len(given)
<1>6. /\ a \in Nat \ {0} /\ g \in Nat /\ a <= g + 1 /\ g <= Len(given)
      /\ (g - a) + 1 = Len(rest)
  <2>1. (Len(given) - (at + 1)) + 1 = Len(rest)
    BY <1>4
  <2>2. at + 1 \in Nat \ {0} /\ at + 1 <= Len(given) + 1
    BY <1>4
  <2> HIDE DEF at
  <2> QED
    BY <1>2, <2>1, <2>2
<1>7. Part = SubSeq(given, at + 1, at + PartLen)
  <2>1. 1 \in Nat \ {0} /\ 1 <= PartLen + 1 /\ PartLen <= (g - a) + 1
    <3> HIDE DEF a, g
    <3> QED
      BY <1>2, <1>3, <1>6
  <2>2. rest = SubSeq(given, a, g)
    BY <1>5
  <2>3. (a + 1) - 1 = at + 1 /\ (a + PartLen) - 1 = at + PartLen
    BY <1>4
  <2> HIDE DEF a, g
  <2>4. SubSeq(SubSeq(given, a, g), 1, PartLen)
          = SubSeq(given, (a + 1) - 1, (a + PartLen) - 1)
    BY <1>2, <1>3, <1>6, <2>1, SliceOfSlice
  <2> QED
    BY <2>2, <2>3, <2>4 DEF Part
<1>8. /\ rest' = SubSeq(given, (at + PartLen) + 1, Len(given))
      /\ Len(rest') = Len(rest) - PartLen
  <2> DEFINE c == PartLen + 1
             d == Len(rest)
  <2>1. c \in Nat \ {0} /\ d \in Nat /\ c <= d + 1 /\ d <= (g - a) + 1
    <3> HIDE DEF a, g
    <3> QED
      BY <1>2, <1>3, <1>6
  <2>2. rest = SubSeq(given, a, g) /\ rest' = SubSeq(rest, c, d)
    BY <1>1, <1>5
  <2>3. (a + c) - 1 = (at + PartLen) + 1 /\ (a + d) - 1 = Len(given)
    BY <1>4
  <2> HIDE DEF a, g, c, d
  <2>4. SubSeq(SubSeq(given, a, g), c, d) = SubSeq(given, (a + c) - 1, (a + d) - 1)
    BY <1>2, <1>6, <2>1, SliceOfSlice
  <2>5. Len(rest') = Len(rest) - PartLen
    <3>1. rest' = SubSeq(rest, PartLen + 1, Len(rest))
      BY <1>1
    <3> QED
      BY <1>2, <1>3, <3>1, Lengths
  <2> QED
    BY <2>2, <2>3, <2>4, <2>5
<1>9. rest' = SubSeq(given', (Len(given') - Len(rest')) + 1, Len(given'))
  <2>1. given' = given
    BY <1>1
  <2>2. Len(given) - Len(rest') = at + PartLen
    BY <1>4, <1>8
  <2> HIDE DEF at
  <2> QED
    BY <1>8, <2>1, <2>2
<1>10. ASSUME clean PROVE PartLen = SampleCount * unitsize
  BY <1>1, <1>2, <1>10, PartFacts DEF FirstKeepsUp
<1> HIDE DEF a, g
<1>11. CarriesPart(Data, PartLen)
  <2>1. /\ Data.at = at /\ Data.sample_count = SampleCount
        /\ Data.encoding = encoding /\ Data.codec = NoCodec
        /\ Data.payload = IF encoding = TransitionEncoding
                            THEN EncodeTransition(Part, unitsize) ELSE Part
    BY DEF Data
  <2>2. PartOf(Data, PartLen) = Part
    BY <1>7, <2>1 DEF PartOf
  <2> HIDE DEF at
  <2> QED
    BY <1>3, <1>4, <1>10, <2>1, <2>2 DEF CarriesPart
<1>12. \A event : \A m : CarriesPart(event, m) => CarriesPart(event, m)'
  BY <1>1 DEF CarriesPart, PartOf
<1>13. /\ Len(pushed) \in Nat /\ DOMAIN pushed = 1 .. Len(pushed)
       /\ DOMAIN pushed' = 1 .. n
       /\ \A i \in 1 .. Len(pushed) : pushed'[i] = pushed[i]
       /\ pushed'[n] = Data
  <2>1. PICK S : pushed \in Seq(S)
    BY <1>2 DEF Counts
  <2> QED
    BY <1>1, <2>1, AppendAny
<1>14. ASSUME NEW i \in DOMAIN pushed'
       PROVE  \E m \in 0 .. MaxPayload : CarriesPart(pushed[i], m)'
  <2>1. \E event : \E m \in 0 .. MaxPayload : event = pushed'[i] /\ CarriesPart(event, m)
    <3>1. CASE i = n
      BY <1>3, <1>11, <1>13, <3>1
    <3>2. CASE i \in 1 .. Len(pushed)
      <4>1. pushed'[i] = pushed[i] /\ i \in DOMAIN pushed
        BY <1>13, <3>2
      <4>2. PICK m \in 0 .. MaxPayload : CarriesPart(pushed[i], m)
        BY <4>1 DEF Payloads
      <4> QED
        BY <4>1, <4>2
    <3> QED
      BY <1>13, <3>1, <3>2
  <2>2. PICK event : \E m \in 0 .. MaxPayload : event = pushed'[i] /\ CarriesPart(event, m)
    BY <2>1
  <2>3. PICK m \in 0 .. MaxPayload : event = pushed'[i] /\ CarriesPart(event, m)
    BY <2>2
  <2>4. CarriesPart(event, m)'
    BY <1>12, <2>3
  <2>5. CarriesPart(pushed[i], m)'
    BY <2>3, <2>4
  <2> QED
    BY <2>5
<1> QED
  BY <1>1, <1>9, <1>14 DEF Payloads

(* An event decodes to the part it is made of: to the whole samples of it, *)
(* or as it is.                                                            *)
LEMMA EventDecodes ==
  ASSUME Counts, Payloads, NEW event, NEW n \in 0 .. MaxPayload, CarriesPart(event, n)
  PROVE  LET d == DecodePayload(event, unitsize)
             samples == Carried(event)
             part == PartOf(event, n)
         IN  /\ samples \in Seq(Bytes) /\ part \in Seq(Bytes)
             /\ Len(samples) = event.sample_count * unitsize /\ Len(part) = n
             /\ n - Len(samples) \in 0 .. unitsize - 1
             /\ samples = SubSeq(part, 1, Len(samples))
             /\ d = Decoded(IF encoding = TransitionEncoding THEN samples ELSE part)
             /\ event.payload = IF encoding = TransitionEncoding
                                  THEN EncodeTransition(part, unitsize) ELSE part
             /\ event.sample_count = Samples(part, unitsize)
<1> DEFINE at == event.at
           u == unitsize
           c == event.sample_count
           m == c * u
           samples == Carried(event)
           part == PartOf(event, n)
<1>1. /\ at \in Nat /\ at + n <= Len(given) /\ n \in Nat /\ c = n \div u
      /\ u \in Nat \ {0} /\ given \in Seq(Bytes) /\ Len(given) \in Nat
      /\ n <= MaxPayload /\ MaxPayload \in Nat /\ n < Limit /\ Limit \in Nat
  BY SenderAssumption, TransitionAssumption DEF CarriesPart, Counts
<1>2. /\ event.encoding = encoding /\ event.codec = NoCodec
      /\ event.payload = IF encoding = TransitionEncoding
                           THEN EncodeTransition(part, u) ELSE part
      /\ encoding \in {Packed, TransitionEncoding}
  BY DEF CarriesPart, Payloads
<1>3. /\ part = SubSeq(given, at + 1, at + n)
      /\ samples = SubSeq(given, at + 1, at + m)
  BY DEF PartOf, Carried
<1>4. c \in Nat /\ m \in Nat /\ m <= n /\ n - m \in 0 .. u - 1
  <2>1. n % u \in 0 .. u - 1 /\ n \div u \in Nat /\ n = ((n \div u) * u) + (n % u)
    BY <1>1, DivMod
  <2> DEFINE r == n % u
  <2>2. r \in 0 .. u - 1 /\ c \in Nat /\ n = m + r
    BY <1>1, <2>1
  <2>3. m \in Nat
    BY <1>1, <2>2, Product
  <2> HIDE DEF r, m, c, u
  <2> QED
    BY <1>1, <2>2, <2>3
<1> HIDE DEF at, c, m, samples, part
<1> DEFINE a == at + 1
           b == at + n
<1>5. a \in Nat \ {0} /\ b \in Nat /\ a <= b + 1 /\ b <= Len(given) /\ (b - a) + 1 = n
  BY <1>1
<1>6. (a + 1) - 1 = at + 1 /\ (a + m) - 1 = at + m
  BY <1>1, <1>4
<1>7. part = SubSeq(given, a, b)
  BY <1>3
<1> HIDE DEF a, b
<1>8. part \in Seq(Bytes) /\ Len(part) = n
  BY <1>1, <1>5, <1>7, Slice
<1>9. samples = SubSeq(part, 1, m)
  <2>1. 1 \in Nat \ {0} /\ 1 <= m + 1 /\ m <= (b - a) + 1
    BY <1>4, <1>5, <1>1
  <2>2. SubSeq(SubSeq(given, a, b), 1, m) = SubSeq(given, (a + 1) - 1, (a + m) - 1)
    BY <1>1, <1>4, <1>5, <2>1, SliceOfSlice
  <2> QED
    BY <1>3, <1>6, <1>7, <2>2
<1>10. samples \in Seq(Bytes) /\ Len(samples) = m
  <2> DEFINE s == SubSeq(part, 1, m)
  <2>1. 1 \in Nat \ {0} /\ 1 <= m + 1 /\ m <= Len(part) /\ (m - 1) + 1 = m
    BY <1>1, <1>4, <1>8
  <2>2. s \in Seq(Bytes) /\ Len(s) = (m - 1) + 1
    BY <1>4, <1>8, <2>1, Slice
  <2> HIDE DEF s
  <2>3. samples = s
    BY <1>9 DEF s
  <2> QED
    BY <2>1, <2>2, <2>3
<1>11. c = Samples(part, u)
  BY <1>1, <1>8 DEF Samples
<1>12. /\ Known(event.codec, CodecNumbers) \in {NoCodec, Unspecified}
       /\ Known(event.encoding, SampleEncodings) = encoding
  BY <1>2 DEF Known, CodecNumbers, SampleEncodings, NoCodec, Packed, TransitionEncoding
<1>13. DecodePayload(event, u)
         = IF encoding = TransitionEncoding THEN DecodeTransition(event.payload, u, c)
           ELSE Decoded(event.payload)
  BY <1>12, Zenon DEF DecodePayload, Decoded, c
<1>14. ASSUME encoding = TransitionEncoding
       PROVE  DecodeTransition(event.payload, u, c) = Decoded(samples)
  <2>1. Len(part) < Limit
    BY <1>1, <1>8
  <2>2. DecodeTransition(EncodeTransition(part, u), u, Samples(part, u))
          = Decoded(AllSamples(part, u))
    BY <1>1, <1>8, <2>1, DecodesWhatWasEncoded
  <2>3. AllSamples(part, u) = samples
    BY <1>9, <1>11 DEF AllSamples, m
  <2> QED
    BY <1>2, <1>11, <1>14, <2>2, <2>3
<1>15. DecodePayload(event, u)
         = Decoded(IF encoding = TransitionEncoding THEN samples ELSE part)
  BY <1>2, <1>13, <1>14, Zenon
<1> QED
  BY <1>2, <1>4, <1>8, <1>9, <1>10, <1>11, <1>15 DEF samples, part, m, c

-----------------------------------------------------------------------------
(* The theorems.                                                           *)

(* The invariant is inductive.                                             *)
THEOREM Inductive == Spec => []IInv
<1>1. IInv /\ [Next]_vars => IInv'
  <2>1. IInv /\ UNCHANGED vars => IInv'
    BY DEF IInv, Counts, FirstKeepsUp, Chained, PositionIsTrue, vars
  <2> QED
    BY <2>1, SendKeeps, PushChunkKeeps, PushFailsKeeps DEF Next
<1> QED
  BY InitIInv, <1>1, PTL DEF Spec

(* PositionIsTrue: first_sample is the true index of an event's samples    *)
(* until a push fails or a buffer ends inside a sample, and never too high *)
(* after it.                                                               *)
THEOREM IndexIsTrue == Spec => []PositionIsTrue
<1>1. IInv => PositionIsTrue
  BY DEF IInv
<1> QED
  BY Inductive, <1>1, PTL

(* NothingLost: events follow each other without a gap, and calls that     *)
(* succeed have pushed every sample.                                       *)
THEOREM SendsAll == Spec => []NothingLost
<1>1. ASSUME IInv PROVE NothingLost
  <2>1. ASSUME rest = <<>>, clean PROVE Len(given) = first * unitsize
    <3>1. Len(rest) = 0 /\ Len(given) \in Nat
      BY <1>1, <2>1, Lengths DEF IInv, Counts
    <3> QED
      BY <1>1, <2>1, <3>1 DEF IInv, FirstKeepsUp
  <2> QED
    BY <1>1, <2>1 DEF IInv, Chained, NothingLost
<1> QED
  BY Inductive, <1>1, PTL

(* What is in the payloads is part of what is given, always.               *)
LEMMA PayloadsInvariant == Spec => []Payloads
<1>1. IInv /\ Payloads /\ [Next]_vars => Payloads'
  <2>1. ASSUME Payloads, UNCHANGED vars PROVE Payloads'
    <3>1. UNCHANGED <<accept, unitsize, encoding, rest, given, clean, pushed>>
      BY <2>1 DEF vars
    <3> QED
      BY <2>1, <3>1 DEF Payloads, CarriesPart, PartOf
  <2>2. IInv => Counts
    BY DEF IInv
  <2> QED
    BY <2>1, <2>2, SendKeepsPayloads, PushFailsKeepsPayloads, PushChunkKeepsPayloads DEF Next
<1> QED
  BY Inductive, InitPayloads, <1>1, PTL DEF Spec

(* DecodesToGiven: whatever the samples, the widths, the calls and the     *)
(* failures, decode_payload gives back the samples an event counts, and    *)
(* beyond them at most the bytes of a PACKED event that ended inside a     *)
(* sample.                                                                 *)
THEOREM DecodesAll == Spec => []DecodesToGiven
<1>1. ASSUME Counts, Payloads PROVE DecodesToGiven
  <2> SUFFICES ASSUME NEW i \in DOMAIN pushed
               PROVE  LET d == DecodePayload(pushed[i], unitsize)
                          samples == Carried(pushed[i])
                      IN  /\ d.ok /\ IsPrefix(samples, d.packed)
                          /\ Len(d.packed) - Len(samples) < unitsize
                          /\ clean \/ pushed[i].encoding = TransitionEncoding
                               => d.packed = samples
    BY DEF DecodesToGiven
  <2>1. PICK n \in 0 .. MaxPayload : CarriesPart(pushed[i], n)
    BY <1>1 DEF Payloads
  <2> DEFINE event == pushed[i]
             d == DecodePayload(event, unitsize)
             samples == Carried(event)
             part == PartOf(event, n)
  <2>2. /\ samples \in Seq(Bytes) /\ part \in Seq(Bytes)
        /\ Len(samples) = event.sample_count * unitsize /\ Len(part) = n
        /\ n - Len(samples) \in 0 .. unitsize - 1
        /\ samples = SubSeq(part, 1, Len(samples))
        /\ d = Decoded(IF encoding = TransitionEncoding THEN samples ELSE part)
    BY <1>1, <2>1, EventDecodes
  <2>3. event.encoding = encoding /\ (clean => n = event.sample_count * unitsize)
    BY <2>1 DEF CarriesPart
  <2>4. n \in Nat /\ unitsize \in Nat \ {0} /\ Len(samples) \in Nat
    <3>1. samples \in Seq(Bytes)
      BY <2>2
    <3> HIDE DEF samples
    <3> QED
      BY <1>1, <3>1, SenderAssumption DEF Counts
  <2> HIDE DEF event, d, samples, part
  <2>5. d.ok /\ d.packed = IF encoding = TransitionEncoding THEN samples ELSE part
    BY <2>2 DEF Decoded
  <2>6. \A s \in Seq(Bytes) : SubSeq(s, 1, Len(s)) = s
    OBVIOUS
  <2>7. CASE encoding = TransitionEncoding
    <3>1. d.packed = samples
      BY <2>5, <2>7
    <3>2. IsPrefix(samples, samples)
      BY <2>4 DEF IsPrefix
    <3> QED
      BY <2>4, <2>5, <3>1, <3>2 DEF event, d, samples
  <2>8. CASE encoding # TransitionEncoding
    <3>1. d.packed = part
      BY <2>5, <2>8
    <3>2. IsPrefix(samples, part)
      <4>1. Len(samples) <= Len(part)
        BY <2>2, <2>4
      <4>2. SubSeq(samples, 1, Len(samples)) = samples
        BY <2>2, <2>6
      <4> QED
        BY <2>2, <4>1, <4>2, Zenon DEF IsPrefix
    <3>3. Len(part) - Len(samples) < unitsize
      BY <2>2, <2>4
    <3>4. clean => part = samples
      BY <2>2, <2>3, <2>6
    <3> QED
      BY <2>3, <2>5, <2>8, <3>1, <3>2, <3>3, <3>4 DEF event, d, samples
  <2> QED
    BY <2>7, <2>8
<1>2. IInv => Counts
  BY DEF IInv
<1> QED
  BY Inductive, PayloadsInvariant, <1>1, <1>2, PTL

(* ChunksFit: however the samples differ, an event fits a frontend's       *)
(* message, which is at least twice as long as a chunk, and of whole       *)
(* samples grows by a byte per sample at most.                             *)
THEOREM AllChunksFit == Spec => []ChunksFit
<1>1. ASSUME Counts, Payloads PROVE ChunksFit
  <2> SUFFICES ASSUME NEW i \in DOMAIN pushed
               PROVE  LET length == Len(pushed[i].payload) IN
                      /\ length <= RecvMaxSize
                      /\ clean => length <= pushed[i].sample_count * (unitsize + 1)
    BY DEF ChunksFit
  <2>1. PICK n \in 0 .. MaxPayload : CarriesPart(pushed[i], n)
    BY <1>1 DEF Payloads
  <2> DEFINE event == pushed[i]
             u == unitsize
             c == event.sample_count
             part == PartOf(event, n)
             m == c * u
             length == Len(event.payload)
  <2>2. /\ part \in Seq(Bytes) /\ Len(part) = n
        /\ Len(Carried(event)) = m
        /\ n - Len(Carried(event)) \in 0 .. u - 1
        /\ event.payload = IF encoding = TransitionEncoding
                             THEN EncodeTransition(part, u) ELSE part
        /\ c = Samples(part, u)
    BY <1>1, <2>1, EventDecodes
  <2>3. clean => n = m
    BY <2>1 DEF CarriesPart
  <2>4. /\ n \in Nat /\ u \in Nat \ {0} /\ n <= MaxPayload /\ MaxPayload \in Nat
        /\ RecvMaxSize \in Nat /\ 2 * MaxPayload <= RecvMaxSize
    BY <1>1, SenderAssumption DEF Counts
  <2> HIDE DEF event, c, part, u
  <2>5. c \in Nat /\ c <= n /\ m \in Nat /\ m <= n
    BY <2>2, <2>4, SampleFacts
  <2>6. c * (u + 1) = m + c
    BY <2>4, <2>5, Z3
  <2>7. CASE encoding = TransitionEncoding
    <3>1. length <= c * (u + 1) /\ length \in Nat
      <4>1. /\ EncodeTransition(part, u) \in Seq(Bytes)
            /\ Len(EncodeTransition(part, u)) <= Samples(part, u) * (u + 1)
        BY <2>2, <2>4, EncodedLength
      <4> QED
        BY <2>2, <2>7, <4>1
    <3> HIDE DEF length, m
    <3>2. length <= RecvMaxSize
      BY <2>4, <2>5, <2>6, <3>1
    <3> QED
      BY <3>1, <3>2 DEF length, event, c, u
  <2>8. CASE encoding # TransitionEncoding
    <3>1. length = n
      BY <2>2, <2>8
    <3> HIDE DEF length, m
    <3>2. length <= RecvMaxSize /\ (clean => length <= c * (u + 1))
      BY <2>3, <2>4, <2>5, <2>6, <3>1
    <3> QED
      BY <3>2 DEF length, event, c, u
  <2> QED
    BY <2>7, <2>8
<1>2. IInv => Counts
  BY DEF IInv
<1> QED
  BY Inductive, PayloadsInvariant, <1>1, <1>2, PTL

(* SentIsAccepted: the encoding of every event is one the frontend named   *)
(* in Hello, or PACKED, whatever lists the two sides have.                 *)
THEOREM OnlyAcceptedIsSent == Spec => []SentIsAccepted
<1>1. ASSUME Payloads PROVE SentIsAccepted
  <2> SUFFICES ASSUME NEW i \in DOMAIN pushed
               PROVE  pushed[i].encoding \in ToSet(accept) \cup {Packed}
    BY DEF SentIsAccepted
  <2>1. PICK n \in 0 .. MaxPayload : CarriesPart(pushed[i], n)
    BY <1>1 DEF Payloads
  <2> QED
    BY <1>1, <2>1 DEF Payloads, CarriesPart
<1> QED
  BY PayloadsInvariant, <1>1, PTL

(* HelloIsIntersection: whatever a frontend names in Hello, it is answered *)
(* with what both sides have and PACKED, in the plugin's order.            *)
THEOREM HelloAnswers == Spec => []HelloIsIntersection
<1>1. ASSUME Payloads PROVE HelloIsIntersection
  <2> SUFFICES ASSUME NEW supported \in Plugins
               PROVE  LET agreed == NegotiateEncodings(accept, supported)
                          at(e) == CHOOSE i \in DOMAIN supported : supported[i] = e
                      IN  /\ ToSet(agreed)
                               = (ToSet(accept) \cap ToSet(supported)) \cup {Packed}
                          /\ \A i, j \in DOMAIN agreed :
                               i < j => at(agreed[i]) < at(agreed[j])
    BY DEF HelloIsIntersection
  <2>1. IsPreference(supported)
    <3>1. /\ IsPreference(<<2, 1>>) /\ IsPreference(<<1>>) /\ IsPreference(<<3, 2, 1>>)
      BY DEF IsPreference, Packed
    <3>2. supported \in {<<2, 1>>, <<1>>, <<3, 2, 1>>}
      BY DEF Plugins, ENCODINGS, Later, Packed, TransitionEncoding
    <3> QED
      BY <3>1, <3>2
  <2>2. accept \in Seq(Nat) /\ supported \in Seq(Nat) /\ Packed \in Nat
    BY <1>1, <2>1 DEF Payloads, IsPreference, Packed
  <2> DEFINE agreed == NegotiateEncodings(accept, supported)
             at(e) == CHOOSE i \in DOMAIN supported : supported[i] = e
  <2>3. /\ agreed \in Seq(Nat)
        /\ \A i, j \in DOMAIN agreed : i < j => at(agreed[i]) < at(agreed[j])
    BY <2>1, <2>2, AgreedIsOrdered
  <2>4. \A e : Contains(agreed, e)
                 <=> (Contains(accept, e) /\ Contains(supported, e)) \/ e = Packed
    BY <2>2, AgreedIsCommon DEF NegotiateEncodings
  <2> HIDE DEF agreed, at
  <2>5. \A e : e \in ToSet(agreed)
                 <=> (e \in ToSet(accept) /\ e \in ToSet(supported)) \/ e = Packed
    BY <2>2, <2>3, <2>4, ContainedIsMember
  <2>6. ToSet(agreed) = (ToSet(accept) \cap ToSet(supported)) \cup {Packed}
    BY <2>5
  <2> QED
    BY <2>3, <2>6 DEF agreed, at
<1> QED
  BY PayloadsInvariant, <1>1, PTL

=============================================================================
