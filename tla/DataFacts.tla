----------------------------- MODULE DataFacts -----------------------------
(***************************************************************************)
(* What the proofs of the other modules need to know of data: arithmetic   *)
(* of multiples, induction over the natural numbers, the existence of      *)
(* functions that are defined by recursion, and the positions and elements *)
(* that the operators on sequences leave behind.                           *)
(*                                                                         *)
(* Induction and recursion are stated for sets and functions instead of    *)
(* predicates and operators: a proof by induction names the set of numbers *)
(* for which its claim holds.                                              *)
(***************************************************************************)
EXTENDS Integers, Sequences, WellFoundedInduction, TLAPS

-----------------------------------------------------------------------------
(* Arithmetic.                                                             *)

(* A quotient and a remainder make up the number.                          *)
LEMMA DivMod ==
  ASSUME NEW a \in Nat, NEW u \in Nat \ {0}
  PROVE  /\ a % u \in 0 .. u - 1
         /\ a \div u \in Nat
         /\ a = ((a \div u) * u) + (a % u)
BY Z3

(* The quotient of a multiple.                                             *)
LEMMA Multiple ==
  ASSUME NEW k \in Nat, NEW u \in Nat \ {0}
  PROVE  (k * u) % u = 0 /\ (k * u) \div u = k
BY Z3

(* Sums and differences of multiples.                                      *)
LEMMA Distribute ==
  ASSUME NEW j \in Int, NEW k \in Int, NEW u \in Int
  PROVE  (j * u) + (k * u) = (j + k) * u /\ (j * u) - (k * u) = (j - k) * u
BY Z3

(* Moving a number from what is left to what is done.                      *)
LEMMA Shift ==
  \A f, p, g, r \in Int : f = g - r => f + p = g - (r - p)
OBVIOUS

(* A product of natural numbers.                                           *)
LEMMA Product == \A j, k \in Nat : j * k \in Nat
BY Z3

-----------------------------------------------------------------------------
(* Induction.                                                              *)

(* A set of natural numbers has a least one.                               *)
LEMMA LeastNatural ==
  ASSUME NEW T \in SUBSET Nat, T # {}
  PROVE  \E m \in T : \A k \in T : m <= k
<1>1. ASSUME NEW R, IsWellFoundedOn(R, Nat), \A k, m \in Nat : k < m => <<k, m>> \in R
      PROVE  \E m \in T : \A k \in T : m <= k
  <2>1. IsWellFoundedOn(R, Nat) /\ T \subseteq Nat
    BY <1>1
  <2>2. PICK m \in T : \A k \in T : ~ (<<k, m>> \in R)
    BY <2>1, WFMin, Zenon
  <2>3. ASSUME NEW k \in T PROVE m <= k
    <3>1. k \in Nat /\ m \in Nat
      OBVIOUS
    <3>2. ~ (k < m)
      BY <1>1, <2>2, <3>1, Zenon
    <3> QED
      BY <3>1, <3>2
  <2> QED
    BY <2>3
<1>2. \A k, m \in Nat : k < m => <<k, m>> \in OpToRel(<, Nat)
  BY DEF OpToRel
<1> QED
  BY <1>1, <1>2, NatLessThanWellFounded, Zenon

(* A set that has with all smaller numbers the next one has all.           *)
LEMMA Induction ==
  ASSUME NEW T, \A n \in Nat : (\A m \in 0 .. n - 1 : m \in T) => n \in T
  PROVE  \A n \in Nat : n \in T
<1> SUFFICES ASSUME Nat \ T # {} PROVE FALSE
  OBVIOUS
<1>1. PICK n \in Nat \ T : \A k \in Nat \ T : n <= k
  BY LeastNatural
<1>2. \A m \in 0 .. n - 1 : m \in T
  BY <1>1
<1> QED
  BY <1>1, <1>2

(* The same along a rank: a set has what it has with all of smaller rank.  *)
LEMMA RankInduction ==
  ASSUME NEW D, NEW rank \in [D -> Nat], NEW T,
         \A i \in D : (\A j \in D : rank[j] < rank[i] => j \in T) => i \in T
  PROVE  \A i \in D : i \in T
<1> DEFINE R == {n \in Nat : \A i \in D : rank[i] = n => i \in T}
<1>1. ASSUME NEW n \in Nat, \A m \in 0 .. n - 1 : m \in R PROVE n \in R
  <2> SUFFICES ASSUME NEW i \in D, rank[i] = n PROVE i \in T
    OBVIOUS
  <2>1. ASSUME NEW j \in D, rank[j] < rank[i] PROVE j \in T
    <3>1. rank[j] \in 0 .. n - 1
      BY <2>1
    <3>2. rank[j] \in R
      BY <1>1, <3>1
    <3> QED
      BY <3>2
  <2> QED
    BY <2>1
<1> HIDE DEF R
<1>2. \A n \in Nat : n \in R
  BY <1>1, Induction
<1> QED
  BY <1>2 DEF R

-----------------------------------------------------------------------------
(* Recursion.  step[i][f] is the value at i of a function whose values *)
(* at smaller places, those of a smaller rank, are the ones of f.          *)

LooksBack(D, V, rank, step) ==
  \A i \in D : \A f, g \in [D -> V] :
    (\A j \in D : rank[j] < rank[i] => f[j] = g[j]) => step[i][f] = step[i][g]

(* f is what the recursion says at every place below n.                    *)
DefinedBelow(f, D, rank, step, n) ==
  \A i \in D : rank[i] < n => f[i] = step[i][f]

(* It can be defined below any number.                                     *)
LEMMA DefinitionsExist ==
  ASSUME NEW D, NEW V, NEW v \in V, NEW rank \in [D -> Nat],
         NEW step \in [D -> [[D -> V] -> V]], LooksBack(D, V, rank, step)
  PROVE  \A n \in Nat : \E f \in [D -> V] : DefinedBelow(f, D, rank, step, n)
<1> DEFINE T == {n \in Nat : \E f \in [D -> V] : DefinedBelow(f, D, rank, step, n)}
<1>1. ASSUME NEW n \in Nat, \A m \in 0 .. n - 1 : m \in T PROVE n \in T
  <2>1. CASE n = 0
    <3>1. [i \in D |-> v] \in [D -> V]
      OBVIOUS
    <3>2. \A f : DefinedBelow(f, D, rank, step, 0)
      BY DEF DefinedBelow
    <3> QED
      BY <2>1, <3>1, <3>2
  <2>2. CASE n # 0
    <3>1. n - 1 \in Nat /\ n - 1 \in T
      BY <1>1, <2>2
    <3>2. PICK f \in [D -> V] : DefinedBelow(f, D, rank, step, n - 1)
      BY <3>1
    <3> DEFINE g == [i \in D |-> IF rank[i] < n - 1 THEN f[i] ELSE step[i][f]]
    <3>3. g \in [D -> V]
      OBVIOUS
    <3>4. \A i \in D : rank[i] < n - 1 => g[i] = f[i]
      OBVIOUS
    <3>5. \A i \in D : rank[i] < n => g[i] = step[i][f]
      BY <3>2 DEF DefinedBelow
    <3> HIDE DEF g
    <3>6. ASSUME NEW i \in D, rank[i] < n PROVE step[i][f] = step[i][g]
      <4>1. \A j \in D : rank[j] < rank[i] => f[j] = g[j]
        BY <3>1, <3>4, <3>6
      <4> QED
        BY <3>3, <4>1 DEF LooksBack
    <3>7. DefinedBelow(g, D, rank, step, n)
      BY <3>5, <3>6 DEF DefinedBelow
    <3> QED
      BY <3>3, <3>7
  <2> QED
    BY <2>1, <2>2
<1> HIDE DEF T
<1>2. \A n \in Nat : n \in T
  BY <1>1, Induction
<1> QED
  BY <1>2 DEF T

(* Two such functions agree as far as both are defined.                    *)
LEMMA DefinitionsAgree ==
  ASSUME NEW D, NEW V, NEW rank \in [D -> Nat], NEW step, LooksBack(D, V, rank, step),
         NEW f \in [D -> V], NEW g \in [D -> V], NEW n \in Nat,
         DefinedBelow(f, D, rank, step, n), DefinedBelow(g, D, rank, step, n)
  PROVE  \A i \in D : rank[i] < n => f[i] = g[i]
<1> DEFINE T == {k \in Nat : \A i \in D : rank[i] = k /\ k < n => f[i] = g[i]}
<1>1. ASSUME NEW k \in Nat, \A m \in 0 .. k - 1 : m \in T PROVE k \in T
  <2> SUFFICES ASSUME NEW i \in D, rank[i] = k, k < n PROVE f[i] = g[i]
    OBVIOUS
  <2>1. ASSUME NEW j \in D, rank[j] < rank[i] PROVE f[j] = g[j]
    <3>1. rank[j] \in 0 .. k - 1
      BY <2>1
    <3>2. rank[j] \in T
      BY <1>1, <3>1
    <3> QED
      BY <2>1, <3>2
  <2>2. step[i][f] = step[i][g]
    BY <2>1 DEF LooksBack
  <2> QED
    BY <2>2 DEF DefinedBelow
<1> HIDE DEF T
<1>2. \A k \in Nat : k \in T
  BY <1>1, Induction
<1> QED
  BY <1>2 DEF T

(* A recursion over D with values in V, and the functions it defines.      *)
IsRecursion(D, V, rank, step) ==
  /\ V # {} /\ rank \in [D -> Nat] /\ step \in [D -> [[D -> V] -> V]]
  /\ LooksBack(D, V, rank, step)

Solves(f, D, V, step) == f \in [D -> V] /\ \A i \in D : f[i] = step[i][f]

(* A recursion that looks back defines a function.                         *)
LEMMA Recursion ==
  \A D, V, rank, step : IsRecursion(D, V, rank, step) => \E f : Solves(f, D, V, step)
<1> SUFFICES ASSUME NEW D, NEW V, NEW rank, NEW step, IsRecursion(D, V, rank, step)
             PROVE  \E f : Solves(f, D, V, step)
  BY Zenon
<1>0. /\ V # {} /\ rank \in [D -> Nat] /\ step \in [D -> [[D -> V] -> V]]
      /\ LooksBack(D, V, rank, step)
  BY DEF IsRecursion
<1> DEFINE def(n) == CHOOSE f \in [D -> V] : DefinedBelow(f, D, rank, step, n)
<1>1. \A n \in Nat : def(n) \in [D -> V] /\ DefinedBelow(def(n), D, rank, step, n)
  <2>1. PICK v \in V : TRUE
    BY <1>0
  <2>2. \A n \in Nat : \E f \in [D -> V] : DefinedBelow(f, D, rank, step, n)
    BY <1>0, <2>1, DefinitionsExist
  <2> QED
    BY <2>2, Zenon
<1> HIDE DEF def
<1> DEFINE f == [i \in D |-> def(rank[i] + 1)[i]]
<1>2. f \in [D -> V]
  BY <1>0, <1>1
<1>3. ASSUME NEW i \in D, NEW j \in D, rank[j] <= rank[i]
      PROVE  f[j] = def(rank[i] + 1)[j]
  <2>1. rank[i] \in Nat /\ rank[i] + 1 \in Nat /\ rank[j] \in Nat /\ rank[j] + 1 \in Nat
    BY <1>0
  <2>2. DefinedBelow(def(rank[i] + 1), D, rank, step, rank[j] + 1)
    <3>1. DefinedBelow(def(rank[i] + 1), D, rank, step, rank[i] + 1)
      BY <1>1, <2>1
    <3>2. \A k \in D : rank[k] < rank[j] + 1 => rank[k] < rank[i] + 1
      BY <1>0, <1>3, <2>1
    <3> QED
      BY <3>1, <3>2 DEF DefinedBelow
  <2>3. def(rank[j] + 1)[j] = def(rank[i] + 1)[j]
    <3>1. /\ def(rank[i] + 1) \in [D -> V] /\ def(rank[j] + 1) \in [D -> V]
          /\ DefinedBelow(def(rank[j] + 1), D, rank, step, rank[j] + 1)
          /\ rank[j] < rank[j] + 1
      BY <1>1, <2>1
    <3> QED
      BY <1>0, <2>1, <2>2, <3>1, DefinitionsAgree
  <2> QED
    BY <2>3
<1> HIDE DEF f
<1>4. ASSUME NEW i \in D PROVE f[i] = step[i][f]
  <2> DEFINE g == def(rank[i] + 1)
  <2>1. g \in [D -> V] /\ DefinedBelow(g, D, rank, step, rank[i] + 1)
    BY <1>0, <1>1
  <2>2. f[i] = g[i] /\ \A j \in D : rank[j] < rank[i] => f[j] = g[j]
    BY <1>0, <1>3
  <2> HIDE DEF g
  <2>3. g[i] = step[i][g]
    BY <1>0, <2>1 DEF DefinedBelow
  <2>4. step[i][f] = step[i][g]
    BY <1>0, <1>2, <2>1, <2>2 DEF LooksBack
  <2> QED
    BY <2>2, <2>3, <2>4
<1> QED
  BY <1>2, <1>4 DEF Solves

-----------------------------------------------------------------------------
(* Sequences.                                                              *)

(* What Append does to a sequence.                                         *)
LEMMA AppendFacts ==
  ASSUME NEW S, NEW s \in Seq(S), NEW e \in S
  PROVE  /\ Append(s, e) \in Seq(S)
         /\ Len(Append(s, e)) = Len(s) + 1
         /\ DOMAIN Append(s, e) = 1 .. Len(s) + 1
         /\ \A i \in 1 .. Len(s) : Append(s, e)[i] = s[i]
         /\ Append(s, e)[Len(s) + 1] = e
OBVIOUS

(* The positions of a sequence and its elements.                           *)
LEMMA SeqFacts ==
  ASSUME NEW S, NEW s \in Seq(S)
  PROVE  /\ DOMAIN s = 1 .. Len(s) /\ Len(s) \in Nat
         /\ \A i \in DOMAIN s : s[i] \in S
OBVIOUS

(* What Head and Tail do to a sequence.                                    *)
LEMMA TailFacts ==
  ASSUME NEW S, NEW s \in Seq(S), s # <<>>
  PROVE  /\ Tail(s) \in Seq(S) /\ Head(s) \in S /\ Head(s) = s[1]
         /\ Len(s) \in Nat /\ Len(s) > 0 /\ DOMAIN s = 1 .. Len(s)
         /\ DOMAIN Tail(s) = 1 .. Len(s) - 1
         /\ \A i \in 1 .. Len(s) - 1 : Tail(s)[i] = s[i + 1]
OBVIOUS

(* The empty sequence is one of anything, and has no positions.            *)
LEMMA NoElements == (\A S : <<>> \in Seq(S)) /\ DOMAIN <<>> = {}
OBVIOUS

(* An element of Append(s, e) is one of s or is e.                         *)
LEMMA AppendElement ==
  ASSUME NEW S, NEW s \in Seq(S), NEW e \in S, NEW i \in DOMAIN Append(s, e)
  PROVE  \/ i \in DOMAIN s /\ i < Len(s) + 1 /\ Append(s, e)[i] = s[i]
         \/ i = Len(s) + 1 /\ Append(s, e)[i] = e
<1>1. /\ Len(s) \in Nat /\ DOMAIN s = 1 .. Len(s)
      /\ i \in 1 .. Len(s) + 1
  BY AppendFacts
<1>2. CASE i \in 1 .. Len(s)
  BY <1>1, <1>2, AppendFacts
<1>3. CASE i = Len(s) + 1
  BY <1>3, AppendFacts
<1> QED
  BY <1>1, <1>2, <1>3

(* An element of Tail(s) is the next one of s.                             *)
LEMMA TailElement ==
  ASSUME NEW S, NEW s \in Seq(S), s # <<>>
  PROVE  /\ 1 \in DOMAIN s /\ Head(s) = s[1]
         /\ \A i \in DOMAIN Tail(s) :
              i \in Nat /\ i > 0 /\ i + 1 \in DOMAIN s /\ Tail(s)[i] = s[i + 1]
BY TailFacts

(* What SubSeq does to lengths.                                            *)
LEMMA Lengths ==
  ASSUME NEW S, NEW s \in Seq(S), NEW n \in 0 .. Len(s)
  PROVE  /\ SubSeq(s, n + 1, Len(s)) \in Seq(S)
         /\ Len(SubSeq(s, n + 1, Len(s))) = Len(s) - n
         /\ Len(s) \in Nat
OBVIOUS

(* Concatenation alone.                                                    *)
LEMMA Concatenation ==
  ASSUME NEW S, NEW s \in Seq(S), NEW t \in Seq(S)
  PROVE  s \o t \in Seq(S) /\ Len(s \o t) = Len(s) + Len(t)
OBVIOUS

(* Appending what may be of another kind.                                  *)
LEMMA AppendAny ==
  ASSUME NEW S, NEW s \in Seq(S), NEW e
  PROVE  /\ Append(s, e) \in Seq(S \cup {e})
         /\ Len(s) \in Nat /\ DOMAIN s = 1 .. Len(s)
         /\ Len(Append(s, e)) = Len(s) + 1
         /\ DOMAIN Append(s, e) = 1 .. Len(s) + 1
         /\ \A i \in 1 .. Len(s) : Append(s, e)[i] = s[i]
         /\ Append(s, e)[Len(s) + 1] = e
<1>1. s \in Seq(S \cup {e}) /\ e \in S \cup {e}
  OBVIOUS
<1> QED
  BY <1>1

(* Where the elements of a concatenation come from.                        *)
LEMMA Joining ==
  ASSUME NEW S, NEW s \in Seq(S), NEW t \in Seq(S)
  PROVE  /\ \A i \in 1 .. Len(s) : (s \o t)[i] = s[i]
         /\ \A i \in 1 .. Len(t) : (s \o t)[Len(s) + i] = t[i]
OBVIOUS

(* Sequences that agree everywhere are equal.                              *)
LEMMA SameSequence ==
  ASSUME NEW S, NEW s \in Seq(S), NEW t \in Seq(S), Len(s) = Len(t),
         \A i \in 1 .. Len(s) : s[i] = t[i]
  PROVE  s = t
OBVIOUS

(* A part of a sequence.                                                   *)
LEMMA Slice ==
  ASSUME NEW S, NEW s \in Seq(S), NEW a \in Nat \ {0}, NEW b \in Nat,
         a <= b + 1, b <= Len(s)
  PROVE  /\ SubSeq(s, a, b) \in Seq(S)
         /\ Len(SubSeq(s, a, b)) = (b - a) + 1
         /\ \A i \in 1 .. (b - a) + 1 : SubSeq(s, a, b)[i] = s[(a - 1) + i]
OBVIOUS

(* A part of a sequence is one of any longer sequence.                     *)
LEMMA SlicePrefix ==
  ASSUME NEW S, NEW s \in Seq(S), NEW t \in Seq(S), NEW a \in Nat \ {0}, NEW b \in Nat,
         a <= b + 1, b <= Len(s)
  PROVE  SubSeq(s \o t, a, b) = SubSeq(s, a, b)
<1> DEFINE w == s \o t
<1>1. /\ w \in Seq(S) /\ Len(w) = Len(s) + Len(t)
      /\ \A i \in 1 .. Len(s) : w[i] = s[i]
      /\ Len(s) \in Nat /\ Len(t) \in Nat
  BY Concatenation, Joining
<1> HIDE DEF w
<1>2. b <= Len(w)
  BY <1>1
<1> DEFINE x == SubSeq(s, a, b)
           y == SubSeq(w, a, b)
<1>3. /\ x \in Seq(S) /\ Len(x) = (b - a) + 1
      /\ \A i \in 1 .. (b - a) + 1 : x[i] = s[(a - 1) + i]
  BY Slice
<1>4. /\ y \in Seq(S) /\ Len(y) = (b - a) + 1
      /\ \A i \in 1 .. (b - a) + 1 : y[i] = w[(a - 1) + i]
  BY <1>1, <1>2, Slice
<1> HIDE DEF x, y
<1>5. ASSUME NEW i \in 1 .. Len(x) PROVE x[i] = y[i]
  <2>1. i \in 1 .. (b - a) + 1 /\ (a - 1) + i \in 1 .. Len(s)
    BY <1>1, <1>3
  <2> QED
    BY <1>1, <1>3, <1>4, <2>1
<1>6. x = y
  BY <1>3, <1>4, <1>5, SameSequence
<1> QED
  BY <1>6 DEF x, y, w

(* A part of a part.                                                       *)
LEMMA SliceOfSlice ==
  ASSUME NEW S, NEW s \in Seq(S), NEW a \in Nat \ {0}, NEW b \in Nat,
         a <= b + 1, b <= Len(s),
         NEW c \in Nat \ {0}, NEW d \in Nat, c <= d + 1, d <= (b - a) + 1
  PROVE  SubSeq(SubSeq(s, a, b), c, d) = SubSeq(s, (a + c) - 1, (a + d) - 1)
<1> DEFINE w == SubSeq(s, a, b)
           e == (a + c) - 1
           f == (a + d) - 1
           x == SubSeq(w, c, d)
           y == SubSeq(s, e, f)
<1>1. /\ w \in Seq(S) /\ Len(w) = (b - a) + 1
      /\ \A i \in 1 .. (b - a) + 1 : w[i] = s[(a - 1) + i]
  BY Slice
<1>2. /\ e \in Nat \ {0} /\ f \in Nat /\ e <= f + 1 /\ f <= Len(s)
      /\ (f - e) + 1 = (d - c) + 1 /\ e - 1 = (a - 1) + (c - 1) /\ Len(s) \in Nat
  OBVIOUS
<1> HIDE DEF w, e, f
<1>3. /\ x \in Seq(S) /\ Len(x) = (d - c) + 1
      /\ \A i \in 1 .. (d - c) + 1 : x[i] = w[(c - 1) + i]
  BY <1>1, Slice
<1>4. /\ y \in Seq(S) /\ Len(y) = (f - e) + 1
      /\ \A i \in 1 .. (f - e) + 1 : y[i] = s[(e - 1) + i]
  BY <1>2, Slice
<1> HIDE DEF x, y
<1>5. ASSUME NEW i \in 1 .. Len(x) PROVE x[i] = y[i]
  <2>1. i \in 1 .. (d - c) + 1 /\ (c - 1) + i \in 1 .. (b - a) + 1 /\ i \in Nat
    BY <1>3
  <2>2. x[i] = s[(a - 1) + ((c - 1) + i)]
    BY <1>1, <1>3, <2>1
  <2>3. (a - 1) + ((c - 1) + i) = (e - 1) + i
    BY <1>2, <2>1
  <2> QED
    BY <1>2, <1>4, <2>1, <2>2, <2>3
<1>6. x = y
  BY <1>2, <1>3, <1>4, <1>5, SameSequence
<1> QED
  BY <1>6 DEF x, y, w, e, f

(* The last part of a concatenation.                                       *)
LEMMA SliceSuffix ==
  ASSUME NEW S, NEW s \in Seq(S), NEW t \in Seq(S)
  PROVE  SubSeq(s \o t, Len(s) + 1, Len(s) + Len(t)) = t
<1> DEFINE w == s \o t
           n == Len(s)
           b == n + Len(t)
           x == SubSeq(w, n + 1, b)
<1>1. /\ w \in Seq(S) /\ Len(w) = b
      /\ \A i \in 1 .. Len(t) : w[n + i] = t[i]
      /\ n \in Nat /\ Len(t) \in Nat /\ b \in Nat
  BY Concatenation, Joining
<1>2. n + 1 \in Nat \ {0} /\ n + 1 <= b + 1 /\ (b - (n + 1)) + 1 = Len(t) /\ (n + 1) - 1 = n
  BY <1>1
<1> HIDE DEF w, n
<1>3. /\ x \in Seq(S) /\ Len(x) = Len(t)
      /\ \A i \in 1 .. Len(t) : x[i] = w[n + i]
  <2> DEFINE a == n + 1
  <2>1. /\ a \in Nat \ {0} /\ a <= b + 1 /\ (b - a) + 1 = Len(t)
        /\ a - 1 = n /\ x = SubSeq(w, a, b)
    BY <1>2
  <2> HIDE DEF a, b, x
  <2>2. /\ SubSeq(w, a, b) \in Seq(S) /\ Len(SubSeq(w, a, b)) = (b - a) + 1
        /\ \A i \in 1 .. (b - a) + 1 : SubSeq(w, a, b)[i] = w[(a - 1) + i]
    BY <1>1, <2>1, Slice
  <2> QED
    BY <2>1, <2>2
<1> HIDE DEF x
<1>4. x = t
  BY <1>1, <1>3, SameSequence
<1> QED
  BY <1>4 DEF x, w, n, b

(* The first element comes from the first part.                            *)
LEMMA TailOfJoin ==
  ASSUME NEW S, NEW s \in Seq(S), NEW t \in Seq(S), s # <<>>
  PROVE  Tail(s \o t) = Tail(s) \o t
<1> DEFINE w == s \o t
           v == Tail(s) \o t
<1>1. /\ w \in Seq(S) /\ Len(w) = Len(s) + Len(t) /\ Len(s) \in Nat /\ Len(t) \in Nat
      /\ Len(s) > 0
      /\ \A i \in 1 .. Len(s) : w[i] = s[i]
      /\ \A i \in 1 .. Len(t) : w[Len(s) + i] = t[i]
  BY Concatenation, Joining
<1>2. /\ Tail(s) \in Seq(S) /\ Len(Tail(s)) = Len(s) - 1
      /\ \A i \in 1 .. Len(s) - 1 : Tail(s)[i] = s[i + 1]
  BY TailFacts
<1>3. /\ v \in Seq(S) /\ Len(v) = Len(Tail(s)) + Len(t)
      /\ \A i \in 1 .. Len(Tail(s)) : v[i] = Tail(s)[i]
      /\ \A i \in 1 .. Len(t) : v[Len(Tail(s)) + i] = t[i]
  BY <1>2, Concatenation, Joining
<1> HIDE DEF w, v
<1>4. w # <<>>
  BY <1>1
<1>5. /\ Tail(w) \in Seq(S) /\ Len(Tail(w)) = Len(w) - 1
      /\ \A i \in 1 .. Len(w) - 1 : Tail(w)[i] = w[i + 1]
  BY <1>1, <1>4, TailFacts
<1>6. ASSUME NEW i \in 1 .. Len(Tail(w)) PROVE Tail(w)[i] = v[i]
  <2>1. CASE i <= Len(s) - 1
    BY <1>1, <1>2, <1>3, <1>5, <2>1
  <2>2. CASE i > Len(s) - 1
    <3> DEFINE k == i - (Len(s) - 1)
    <3>1. k \in 1 .. Len(t) /\ Len(s) + k = i + 1 /\ Len(Tail(s)) + k = i
      BY <1>1, <1>2, <1>5, <2>2
    <3> HIDE DEF k
    <3>2. w[i + 1] = t[k] /\ v[i] = t[k]
      BY <1>1, <1>3, <3>1
    <3> QED
      BY <1>5, <3>2
  <2> QED
    BY <1>1, <1>5, <2>1, <2>2
<1>7. Len(Tail(w)) = Len(v)
  BY <1>1, <1>2, <1>3, <1>5
<1>8. Tail(w) = v
  BY <1>3, <1>5, <1>6, <1>7, SameSequence
<1> QED
  BY <1>8 DEF w, v

=============================================================================
