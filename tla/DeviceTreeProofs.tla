--------------------------- MODULE DeviceTreeProofs ---------------------------
(***************************************************************************)
(* That the walk over a device tree lists all of the tree and reads the    *)
(* blob only, for every tree that DeviceTreeBlob can flatten: any number   *)
(* of nodes, properties and reservations, any names and any values.        *)
(*                                                                         *)
(* The proof goes from the bytes up: sequences that are joined from parts, *)
(* where the parts of a blob are in memory, what the walk reads of each of *)
(* them, and then that each of its steps adds to the listing the lines of  *)
(* the item that it is at.                                                 *)
(***************************************************************************)
EXTENDS DeviceTreeBlob, WellFoundedInduction, FiniteSetTheorems, TLAPS

-----------------------------------------------------------------------------
(***************************************************************************)
(* Induction over numbers, and sequences that are joined from parts.       *)
(***************************************************************************)
Lists == INSTANCE SequenceTheorems

LEMMA LessIsWellFounded == IsWellFoundedOn({p \in Nat \X Nat : p[1] < p[2]}, Nat)
<1>1. OpToRel(<, Nat) = {p \in Nat \X Nat : p[1] < p[2]}
  BY DEF OpToRel
<1> QED BY <1>1, NatLessThanWellFounded

LEMMA LeastNumber == ASSUME NEW T, T \subseteq Nat, T # {}
                     PROVE  \E n \in T : \A m \in T : n <= m
<1> DEFINE R == {p \in Nat \X Nat : p[1] < p[2]}
<1>1. \E n \in T : \A m \in T : ~(<< m, n >> \in R)
  <2> HIDE DEF R
  <2>1. IsWellFoundedOn(R, Nat)
    BY LessIsWellFounded DEF R
  <2> QED BY <2>1, WFMin
<1>2. PICK n \in T : \A m \in T : ~(<< m, n >> \in R)
  BY <1>1
<1>3. ASSUME NEW m \in T PROVE n <= m
  <2>1. n \in Nat /\ m \in Nat
    OBVIOUS
  <2>2. << m, n >> \in Nat \X Nat /\ << m, n >> \notin R
    BY <1>2, <2>1
  <2>3. ~(m < n)
    BY <2>2
  <2> QED BY <2>1, <2>3
<1> QED BY <1>3

LEMMA NumberInduction ==
    ASSUME NEW T, NEW N \in Nat, 0 \in T, \A n \in 0 .. N - 1 : n \in T => n + 1 \in T
    PROVE  \A n \in 0 .. N : n \in T
<1> SUFFICES ASSUME NEW k \in 0 .. N, k \notin T PROVE FALSE
  OBVIOUS
<1> DEFINE U == (0 .. N) \ T
<1>1. PICK n \in U : \A m \in U : n <= m
  <2>1. U \subseteq Nat /\ U # {}
    OBVIOUS
  <2> HIDE DEF U
  <2> QED BY <2>1, LeastNumber
<1>2. n - 1 \in 0 .. N - 1
  OBVIOUS
<1>3. n - 1 \in T
  BY <1>1, <1>2
<1> QED BY <1>2, <1>3

(***************************************************************************)
(* FlattenSeq.                                                             *)
(***************************************************************************)
Flattens(g, p, n) ==
    g = [i \in 1 .. n |-> IF i = 1 THEN p[i] ELSE g[i - 1] \o p[i]]

LEMMA FlattensExists ==
    ASSUME NEW N \in Nat, NEW p
    PROVE  \A n \in 0 .. N : \E g : Flattens(g, p, n)
<1> DEFINE T == {n \in 0 .. N : \E g : Flattens(g, p, n)}
<1>1. 0 \in T
  <2>1. Flattens([i \in 1 .. 0 |-> p[i]], p, 0)
    BY DEF Flattens
  <2> QED BY <2>1
<1>2. ASSUME NEW n \in 0 .. N - 1, n \in T PROVE n + 1 \in T
  <2>1. PICK g : Flattens(g, p, n)
    BY <1>2
  <2> DEFINE h == [i \in 1 .. n + 1 |-> IF i = n + 1 THEN IF i = 1 THEN p[i] ELSE g[i - 1] \o p[i] ELSE g[i]]
  <2>2. ASSUME NEW i \in 1 .. n + 1
        PROVE  h[i] = IF i = 1 THEN p[i] ELSE h[i - 1] \o p[i]
    <3>1. CASE i = n + 1
      BY <3>1
    <3>2. CASE i # n + 1
      <4>1. i \in 1 .. n /\ (i # 1 => i - 1 \in 1 .. n /\ i - 1 # n + 1)
        BY <3>2
      <4>2. g[i] = IF i = 1 THEN p[i] ELSE g[i - 1] \o p[i]
        BY <2>1, <4>1 DEF Flattens
      <4>3. h[i] = g[i] /\ (i # 1 => h[i - 1] = g[i - 1])
        BY <3>2, <4>1
      <4> QED BY <4>2, <4>3
    <3> QED BY <3>1, <3>2
  <2>3. h = [i \in 1 .. n + 1 |-> h[i]]
    OBVIOUS
  <2> HIDE DEF h
  <2>4. Flattens(h, p, n + 1)
    BY <2>2, <2>3 DEF Flattens
  <2> QED BY <2>4
<1> HIDE DEF T
<1>3. \A n \in 0 .. N : n \in T
  BY <1>1, <1>2, NumberInduction
<1> QED BY <1>3 DEF T

LEMMA FlattenIs ==
    ASSUME NEW p, NEW n \in Nat \ {0}
    PROVE  \E g : /\ Flattens(g, p, n)
                  /\ SeqsExt!FlattenSeq([k \in 1 .. n |-> p[k]]) = g[n]
<1> DEFINE q == [k \in 1 .. n |-> p[k]]
<1>1. Len(q) = n
  OBVIOUS
<1> DEFINE E(g) == [i \in 1 .. n |-> IF i = 1 THEN q[i] ELSE g[i - 1] \o q[i]]
<1>2. SeqsExt!FlattenSeq(q) = (CHOOSE g : g = E(g))[n]
  BY <1>1 DEF SeqsExt!FlattenSeq
<1>3. PICK h : Flattens(h, p, n)
  BY FlattensExists
<1>4. h = E(h)
  BY <1>3 DEF Flattens
<1>5. PICK f : f = (CHOOSE g : g = E(g)) /\ f = E(f)
  <2> HIDE DEF E
  <2> QED BY <1>4
<1>6. \A i \in 1 .. n : q[i] = p[i]
  OBVIOUS
<1>7. Flattens(f, p, n)
  <2>1. \A i \in 1 .. n : f[i] = IF i = 1 THEN p[i] ELSE f[i - 1] \o p[i]
    <3>1. f = E(f)
      <4> HIDE DEF E
      <4> QED BY <1>5
    <3> HIDE DEF q
    <3> QED BY <1>6, <3>1, ZenonT(60)
  <2>2. f = [i \in 1 .. n |-> f[i]]
    <3> HIDE DEF q
    <3> QED BY <1>5, ZenonT(60)
  <2> QED BY <2>1, <2>2 DEF Flattens
<1> QED BY <1>2, <1>5, <1>7

LEMMA FlattenEmpty == ASSUME NEW p PROVE SeqsExt!FlattenSeq([k \in 1 .. 0 |-> p[k]]) = << >>
  BY DEF SeqsExt!FlattenSeq

LEMMA FlattensAgree ==
    ASSUME NEW p, NEW n \in Nat, NEW m \in 0 .. n, NEW g, NEW h, Flattens(g, p, m), Flattens(h, p, n)
    PROVE  \A i \in 1 .. m : g[i] = h[i]
<1> DEFINE T == {i \in 0 .. m : i = 0 \/ g[i] = h[i]}
<1>1. 0 \in T
  OBVIOUS
<1>2. ASSUME NEW i \in 0 .. m - 1, i \in T PROVE i + 1 \in T
  <2>1. i + 1 \in 1 .. m /\ i + 1 \in 1 .. n /\ (i + 1) - 1 = i
    OBVIOUS
  <2>2. g[i + 1] = IF i + 1 = 1 THEN p[i + 1] ELSE g[(i + 1) - 1] \o p[i + 1]
    BY <2>1 DEF Flattens
  <2>3. h[i + 1] = IF i + 1 = 1 THEN p[i + 1] ELSE h[(i + 1) - 1] \o p[i + 1]
    BY <2>1 DEF Flattens
  <2> QED BY <1>2, <2>1, <2>2, <2>3
<1> HIDE DEF T
<1>3. \A i \in 0 .. m : i \in T
  BY <1>1, <1>2, NumberInduction
<1> QED BY <1>3 DEF T

\* The parts of a sequence one after the other.
Joined(p, n) == SeqsExt!FlattenSeq([k \in 1 .. n |-> p[k]])

LEMMA JoinedStep ==
    ASSUME NEW S, NEW p, NEW n \in Nat, p[n + 1] \in Seq(S)
    PROVE  Joined(p, n + 1) = IF n = 0 THEN p[1] ELSE Joined(p, n) \o p[n + 1]
<1>0. n + 1 \in Nat \ {0}
  OBVIOUS
<1>1. PICK h : Flattens(h, p, n + 1) /\ Joined(p, n + 1) = h[n + 1]
  BY <1>0, FlattenIs DEF Joined
<1>2. CASE n = 0
  BY <1>1, <1>2 DEF Flattens
<1>3. CASE n # 0
  <2>1. PICK g : Flattens(g, p, n) /\ Joined(p, n) = g[n]
    BY <1>3, FlattenIs DEF Joined
  <2>2. g[n] = h[n]
    BY <1>1, <1>3, <2>1, FlattensAgree
  <2>3. h[n + 1] = h[n] \o p[n + 1]
    <3>1. n + 1 \in 1 .. n + 1 /\ n + 1 # 1 /\ (n + 1) - 1 = n
      BY <1>3
    <3> QED BY <1>1, <3>1 DEF Flattens
  <2> QED BY <1>1, <1>3, <2>1, <2>2, <2>3
<1> QED BY <1>2, <1>3

\* Joined obeys its equation.
LEMMA JoinedIs ==
    ASSUME NEW S, NEW N \in Nat, NEW p, \A k \in 1 .. N : p[k] \in Seq(S)
    PROVE  /\ Joined(p, 0) = << >>
           /\ \A n \in 0 .. N : Joined(p, n) \in Seq(S)
           /\ \A n \in 0 .. N - 1 : Joined(p, n + 1) = Joined(p, n) \o p[n + 1]
<1>1. Joined(p, 0) = << >>
  BY FlattenEmpty DEF Joined
<1>2. ASSUME NEW n \in 0 .. N - 1, Joined(p, n) \in Seq(S)
      PROVE  /\ Joined(p, n + 1) = Joined(p, n) \o p[n + 1]
             /\ Joined(p, n + 1) \in Seq(S)
  <2>1. n + 1 \in 1 .. N /\ n \in Nat
    OBVIOUS
  <2>2. p[n + 1] \in Seq(S)
    BY <2>1
  <2>3. Joined(p, n + 1) = IF n = 0 THEN p[1] ELSE Joined(p, n) \o p[n + 1]
    BY <2>1, <2>2, JoinedStep
  <2>4. Joined(p, n + 1) = Joined(p, n) \o p[n + 1]
    <3>1. CASE n = 0
      BY <1>1, <2>2, <2>3, <3>1, Lists!ConcatEmptySeq
    <3>2. CASE n # 0
      BY <2>3, <3>2
    <3> QED BY <3>1, <3>2
  <2>5. Joined(p, n) \o p[n + 1] \in Seq(S)
    BY <1>2, <2>2, Lists!ConcatProperties
  <2> QED BY <2>4, <2>5
<1> DEFINE T == {n \in 0 .. N : Joined(p, n) \in Seq(S)}
<1>3. 0 \in T
  <2>1. << >> \in Seq(S)
    BY Lists!EmptySeq
  <2>2. Joined(p, 0) \in Seq(S)
    BY <1>1, <2>1
  <2> QED BY <2>2
<1>4. \A n \in 0 .. N - 1 : n \in T => n + 1 \in T
  BY <1>2
<1> HIDE DEF T
<1>5. \A n \in 0 .. N : n \in T
  BY <1>3, <1>4, NumberInduction
<1>6. \A n \in 0 .. N : Joined(p, n) \in Seq(S)
  BY <1>5 DEF T
<1> QED BY <1>1, <1>2, <1>6

-----------------------------------------------------------------------------
(***************************************************************************)
(* What is stored where, and the integers that the walk loads.             *)
(***************************************************************************)
\* The bytes x are at offset "at" of b.
Stored(b, at, x) ==
    /\ at + Len(x) <= Len(b)
    /\ \A i \in 1 .. Len(x) : b[at + i] = x[i]

LEMMA StoredParts ==
    ASSUME NEW S, NEW b, Len(b) \in Nat, NEW at \in Nat, NEW x \in Seq(S), NEW y \in Seq(S),
           Stored(b, at, x \o y)
    PROVE  Stored(b, at, x) /\ Stored(b, at + Len(x), y)
<1>1. /\ Len(x \o y) = Len(x) + Len(y)
      /\ \A i \in 1 .. Len(x) + Len(y) : (x \o y)[i] = IF i <= Len(x) THEN x[i] ELSE y[i - Len(x)]
  BY Lists!ConcatProperties
<1>2. Len(x) \in Nat /\ Len(y) \in Nat
  OBVIOUS
<1>3. ASSUME NEW i \in 1 .. Len(x) PROVE b[at + i] = x[i]
  BY <1>1, <1>2 DEF Stored
<1>4. ASSUME NEW i \in 1 .. Len(y) PROVE b[at + Len(x) + i] = y[i]
  <2>1. Len(x) + i \in 1 .. Len(x) + Len(y) /\ ~(Len(x) + i <= Len(x)) /\ (Len(x) + i) - Len(x) = i
    BY <1>2
  <2>2. b[at + (Len(x) + i)] = (x \o y)[Len(x) + i]
    BY <1>1, <2>1 DEF Stored
  <2>3. at + (Len(x) + i) = at + Len(x) + i
    BY <1>2
  <2> QED BY <1>1, <2>1, <2>2, <2>3
<1> QED BY <1>1, <1>2, <1>3, <1>4 DEF Stored

LEMMA StoredJoined ==
    ASSUME NEW S, NEW N \in Nat, NEW p, \A k \in 1 .. N : p[k] \in Seq(S),
           NEW b, Len(b) \in Nat, NEW at \in Nat, Stored(b, at, Joined(p, N))
    PROVE  \A n \in 0 .. N : /\ Len(Joined(p, n)) \in Nat
                             /\ Stored(b, at, Joined(p, n))
                             /\ n < N => Stored(b, at + Len(Joined(p, n)), p[n + 1])
<1>1. \A n \in 0 .. N : Joined(p, n) \in Seq(S)
  BY JoinedIs
<1>2. ASSUME NEW n \in 0 .. N - 1, Stored(b, at, Joined(p, n + 1))
      PROVE  Stored(b, at, Joined(p, n)) /\ Stored(b, at + Len(Joined(p, n)), p[n + 1])
  <2>1. Joined(p, n + 1) = Joined(p, n) \o p[n + 1]
    BY JoinedIs, ZenonT(60)
  <2>2. Joined(p, n) \in Seq(S) /\ p[n + 1] \in Seq(S)
    BY <1>1
  <2> DEFINE x == Joined(p, n)
             y == p[n + 1]
  <2>3. Stored(b, at, x \o y) /\ x \in Seq(S) /\ y \in Seq(S)
    BY <1>2, <2>1, <2>2
  <2> HIDE DEF x, y
  <2>4. Stored(b, at, x) /\ Stored(b, at + Len(x), y)
    BY <2>3, StoredParts
  <2> QED BY <2>4 DEF x, y
<1> DEFINE T == {d \in 0 .. N : Stored(b, at, Joined(p, N - d))}
<1>3. 0 \in T
  <2>1. N - 0 = N
    OBVIOUS
  <2>2. Stored(b, at, Joined(p, N - 0))
    BY <2>1
  <2> QED BY <2>2
<1>4. ASSUME NEW d \in 0 .. N - 1, d \in T PROVE d + 1 \in T
  <2>1. N - (d + 1) \in 0 .. N - 1 /\ (N - (d + 1)) + 1 = N - d
    OBVIOUS
  <2>2. Stored(b, at, Joined(p, (N - (d + 1)) + 1))
    BY <1>4, <2>1
  <2> QED BY <1>2, <2>1, <2>2
<1> HIDE DEF T
<1>5. \A d \in 0 .. N : d \in T
  BY <1>3, <1>4, NumberInduction
<1>6. ASSUME NEW n \in 0 .. N PROVE Stored(b, at, Joined(p, n))
  <2>1. N - n \in 0 .. N /\ N - (N - n) = n
    OBVIOUS
  <2>2. N - n \in T
    BY <1>5, <2>1
  <2>3. Stored(b, at, Joined(p, N - (N - n)))
    BY <2>2 DEF T
  <2> QED BY <2>1, <2>3
<1>7. ASSUME NEW n \in 0 .. N, n < N PROVE Stored(b, at + Len(Joined(p, n)), p[n + 1])
  <2>1. n \in 0 .. N - 1 /\ n + 1 \in 0 .. N
    BY <1>7
  <2>2. Stored(b, at, Joined(p, n + 1))
    BY <1>6, <2>1
  <2> QED BY <1>2, <2>1, <2>2
<1>8. ASSUME NEW n \in 0 .. N PROVE Len(Joined(p, n)) \in Nat
  BY <1>1
<1> QED BY <1>6, <1>7, <1>8

(***************************************************************************)
(* What is loaded from where it is stored.                                 *)
(***************************************************************************)
LEMMA LoadIs ==
    ASSUME Len(blob) \in Nat, NEW S, NEW at \in Nat, NEW x \in Seq(S), Stored(blob, at, x)
    PROVE  Load(at, Len(x)) = x
<1>1. ASSUME NEW k \in 1 .. Len(x) PROVE Byte(at + k - 1) = x[k]
  <2>1. at + k - 1 < Len(blob) /\ (at + k - 1) + 1 = at + k
    BY DEF Stored
  <2> QED BY <2>1 DEF Byte, Stored
<1>2. Load(at, Len(x)) = [k \in 1 .. Len(x) |-> x[k]]
  BY <1>1 DEF Load
<1>3. x = [k \in 1 .. Len(x) |-> x[k]]
  OBVIOUS
<1> QED BY <1>2, <1>3


LEMMA FunctionIsSeq ==
    ASSUME NEW S, NEW n \in Nat, NEW x \in [1 .. n -> S]
    PROVE  x \in Seq(S) /\ Len(x) = n
<1>1. x \in Seq(S)
  BY Lists!SeqDef
<1>2. DOMAIN x = 1 .. n
  OBVIOUS
<1> QED BY <1>1, <1>2

LEMMA SeqOfTwo == ASSUME NEW S, NEW x \in Seq(S), Len(x) = 2
                  PROVE  x = << x[1], x[2] >>
  OBVIOUS

LEMMA SeqOfFour == ASSUME NEW S, NEW x \in Seq(S), Len(x) = 4
                   PROVE  x = << x[1], x[2], x[3], x[4] >>
  OBVIOUS

LEMMA SeqOfEight == ASSUME NEW S, NEW x \in Seq(S), Len(x) = 8
                   PROVE  x = << x[1], x[2], x[3], x[4], x[5], x[6], x[7], x[8] >>
  OBVIOUS

LEMMA BEToNative32Is ==
    ASSUME NEW a, NEW b, NEW c, NEW d
    PROVE  BEToNative32(<< a, b, c, d >>) = << d, c, b, a >>
<1> DEFINE S == {a, b, c, d}
           x == SubSeq(<< a, b, c, d >>, 3, 4)
           y == SubSeq(<< a, b, c, d >>, 1, 2)
           z == << d, c >> \o << b, a >>
<1>0. a \in S /\ b \in S /\ c \in S /\ d \in S
  OBVIOUS
<1> HIDE DEF S
<1>1. x \in Seq(S) /\ Len(x) = 2 /\ x[1] = c /\ x[2] = d
  BY <1>0
<1>2. y \in Seq(S) /\ Len(y) = 2 /\ y[1] = a /\ y[2] = b
  BY <1>0
<1>3. z \in Seq(S) /\ Len(z) = 4 /\ z[1] = d /\ z[2] = c /\ z[3] = b /\ z[4] = a
  BY <1>0
<1>4. BEToNative32(<< a, b, c, d >>) = << x[2], x[1] >> \o << y[2], y[1] >>
  BY DEF BEToNative32, BEToNative16
<1>5. BEToNative32(<< a, b, c, d >>) = z
  BY <1>1, <1>2, <1>4
<1> HIDE DEF z
<1> QED BY <1>3, <1>5, SeqOfFour

LEMMA EightHalves ==
    ASSUME NEW S, NEW v \in Seq(S), Len(v) = 8
    PROVE  /\ SubSeq(v, 5, 8) = << v[5], v[6], v[7], v[8] >>
           /\ SubSeq(v, 1, 4) = << v[1], v[2], v[3], v[4] >>
           /\ << v[8], v[7], v[6], v[5] >> \o << v[4], v[3], v[2], v[1] >>
                = << v[8], v[7], v[6], v[5], v[4], v[3], v[2], v[1] >>
<1> DEFINE x == SubSeq(v, 5, 8)
           y == SubSeq(v, 1, 4)
           z == << v[8], v[7], v[6], v[5] >> \o << v[4], v[3], v[2], v[1] >>
<1>0. \A i \in 1 .. 8 : v[i] \in S
  <2>1. \A i \in 1 .. Len(v) : v[i] \in S
    BY Lists!ElementOfSeq
  <2> QED BY <2>1
<1>1. x \in Seq(S) /\ Len(x) = 4 /\ \A i \in 1 .. 4 : x[i] = v[4 + i]
  <2>1. \A i \in 5 .. 8 : v[i] \in S
    BY <1>0
  <2>2. /\ x \in Seq(S) /\ Len(x) = IF 5 <= 8 THEN 8 - 5 + 1 ELSE 0
        /\ \A i \in 1 .. 8 - 5 + 1 : x[i] = v[5 + i - 1]
    BY <2>1, Lists!SubSeqProperties
  <2> QED BY <2>2
<1>2. y \in Seq(S) /\ Len(y) = 4 /\ \A i \in 1 .. 4 : y[i] = v[i]
  <2>1. \A i \in 1 .. 4 : v[i] \in S
    BY <1>0
  <2>2. /\ y \in Seq(S) /\ Len(y) = IF 1 <= 4 THEN 4 - 1 + 1 ELSE 0
        /\ \A i \in 1 .. 4 - 1 + 1 : y[i] = v[1 + i - 1]
    BY <2>1, Lists!SubSeqProperties
  <2> QED BY <2>2
<1>3. z \in Seq(S) /\ Len(z) = 8 /\ z[1] = v[8] /\ z[2] = v[7] /\ z[3] = v[6] /\ z[4] = v[5]
      /\ z[5] = v[4] /\ z[6] = v[3] /\ z[7] = v[2] /\ z[8] = v[1]
  <2>1. v[8] \in S /\ v[7] \in S /\ v[6] \in S /\ v[5] \in S /\ v[4] \in S /\ v[3] \in S /\ v[2] \in S /\ v[1] \in S
    BY <1>0
  <2>2. << v[8], v[7], v[6], v[5] >> \in Seq(S) /\ << v[4], v[3], v[2], v[1] >> \in Seq(S)
    BY <2>1
  <2> QED BY <2>2
<1> HIDE DEF x, y, z
<1>4. x = << v[5], v[6], v[7], v[8] >> /\ y = << v[1], v[2], v[3], v[4] >>
  BY <1>1, <1>2, SeqOfFour
<1>5. z = << v[8], v[7], v[6], v[5], v[4], v[3], v[2], v[1] >>
  BY <1>3, SeqOfEight
<1> QED BY <1>4, <1>5 DEF x, y, z

LEMMA IntegerAt ==
    ASSUME Len(blob) \in Nat, NEW at \in Nat,
           NEW a \in Octet, NEW b \in Octet, NEW c \in Octet, NEW d \in Octet,
           Stored(blob, at, << a, b, c, d >>)
    PROVE  UInt32At(at) = << d, c, b, a >>
<1> DEFINE x == << a, b, c, d >>
<1>1. x \in Seq(Octet) /\ Len(x) = 4
  OBVIOUS
<1>2. Load(at, 4) = << a, b, c, d >>
  <2> HIDE DEF x
  <2>1. Load(at, Len(x)) = x
    BY <1>1, LoadIs DEF x
  <2> QED BY <1>1, <2>1 DEF x
<1>3. UInt32At(at) = BEToNative32(<< a, b, c, d >>)
  BY <1>2, Zenon DEF UInt32At
<1> QED BY <1>3, BEToNative32Is

LEMMA BigEndianIs ==
    ASSUME NEW n \in Number
    PROVE  \E a, b, c, d \in Octet :
             /\ BigEndian(n) = << a, b, c, d >>
             /\ NumberOf(<< d, c, b, a >>) = n
<1>1. n \in Nat /\ n <= 2147483647
  BY SMT DEF Number
<1>2. /\ n \div 16777216 \in Octet
      /\ (n \div 65536) % 256 \in Octet /\ (n \div 256) % 256 \in Octet /\ n % 256 \in Octet
  BY <1>1 DEF Octet
<1>3. n = (n % 256) + 256 * ((n \div 256) % 256) + 65536 * ((n \div 65536) % 256) + 16777216 * (n \div 16777216)
  BY <1>1
<1>4. NumberOf(<< n % 256, (n \div 256) % 256, (n \div 65536) % 256, n \div 16777216 >>) = n
  BY <1>2, <1>3 DEF NumberOf
<1>5. BigEndian(n) = << n \div 16777216, (n \div 65536) % 256, (n \div 256) % 256, n % 256 >>
  BY DEF BigEndian
<1> DEFINE a == n \div 16777216
           b == (n \div 65536) % 256
           c == (n \div 256) % 256
           d == n % 256
<1>6. /\ a \in Octet /\ b \in Octet /\ c \in Octet /\ d \in Octet
      /\ NumberOf(<< d, c, b, a >>) = n /\ BigEndian(n) = << a, b, c, d >>
  BY <1>2, <1>4, <1>5
<1> HIDE DEF a, b, c, d
<1> QED BY <1>6

LEMMA ReverseQuad ==
    ASSUME NEW a, NEW b, NEW c, NEW d
    PROVE  SeqsExt!Reverse(<< a, b, c, d >>) = << d, c, b, a >>
  BY DEF SeqsExt!Reverse

LEMMA NumberAt ==
    ASSUME Len(blob) \in Nat, NEW at \in Nat, NEW n \in Number, Stored(blob, at, BigEndian(n))
    PROVE  /\ UInt32At(at) = SeqsExt!Reverse(BigEndian(n))
           /\ NumberOf(UInt32At(at)) = n
<1>1. PICK a, b, c, d \in Octet : BigEndian(n) = << a, b, c, d >> /\ NumberOf(<< d, c, b, a >>) = n
  BY BigEndianIs
<1>2. UInt32At(at) = << d, c, b, a >>
  BY <1>1, IntegerAt
<1>3. SeqsExt!Reverse(BigEndian(n)) = << d, c, b, a >>
  BY <1>1, ReverseQuad
<1> QED BY <1>1, <1>2, <1>3

LEMMA LongIntegerAt ==
    ASSUME Len(blob) \in Nat, NEW at \in Nat, NEW x \in [1 .. 8 -> Octet], Stored(blob, at, x)
    PROVE  UInt64At(at) = SeqsExt!Reverse(x)
<1>1. x \in Seq(Octet) /\ Len(x) = 8
  BY FunctionIsSeq
<1>2. Load(at, 8) = x
  BY <1>1, LoadIs
<1>3. SubSeq(x, 5, 8) = << x[5], x[6], x[7], x[8] >> /\ SubSeq(x, 1, 4) = << x[1], x[2], x[3], x[4] >>
  BY <1>1, EightHalves
<1>4. /\ BEToNative32(<< x[5], x[6], x[7], x[8] >>) = << x[8], x[7], x[6], x[5] >>
      /\ BEToNative32(<< x[1], x[2], x[3], x[4] >>) = << x[4], x[3], x[2], x[1] >>
  BY BEToNative32Is
<1>5. UInt64At(at) = << x[8], x[7], x[6], x[5] >> \o << x[4], x[3], x[2], x[1] >>
  <2>1. UInt64At(at) = BEToNative32(SubSeq(x, 5, 8)) \o BEToNative32(SubSeq(x, 1, 4))
    BY <1>2, Zenon DEF UInt64At, BEToNative64
  <2> QED BY <1>3, <1>4, <2>1, Zenon
<1>6. << x[8], x[7], x[6], x[5] >> \o << x[4], x[3], x[2], x[1] >>
        = << x[8], x[7], x[6], x[5], x[4], x[3], x[2], x[1] >>
  BY <1>1, EightHalves
<1>7. SeqsExt!Reverse(x) = << x[8], x[7], x[6], x[5], x[4], x[3], x[2], x[1] >>
  BY <1>1 DEF SeqsExt!Reverse
<1> QED BY <1>5, <1>6, <1>7

-----------------------------------------------------------------------------
(***************************************************************************)
(* Bytes: how long the parts of a blob are.                                *)
(***************************************************************************)
\* A sequence of n bytes.
IsBytes(x, n) == n \in Nat /\ x \in Seq(Nat) /\ Len(x) = n

LEMMA BytesJoined ==
    ASSUME NEW x, NEW y, NEW m, NEW n, IsBytes(x, m), IsBytes(y, n)
    PROVE  IsBytes(x \o y, m + n)
<1>1. x \o y \in Seq(Nat) /\ Len(x \o y) = Len(x) + Len(y)
  BY Lists!ConcatProperties DEF IsBytes
<1> QED BY <1>1 DEF IsBytes

LEMMA BytesParted ==
    ASSUME NEW x, NEW y, NEW m, NEW n, IsBytes(x, m), IsBytes(y, n),
           NEW b, Len(b) \in Nat, NEW at \in Nat, Stored(b, at, x \o y)
    PROVE  Stored(b, at, x) /\ Stored(b, at + m, y)
  BY StoredParts DEF IsBytes

LEMMA NoBytes == IsBytes(<< >>, 0)
<1>1. << >> \in Seq(Nat) /\ Len(<< >>) = 0
  BY Lists!EmptySeq
<1> QED BY <1>1 DEF IsBytes

LEMMA OneByte == ASSUME NEW n \in Nat PROVE IsBytes(<< n >>, 1)
<1>1. << n >> \in Seq(Nat) /\ Len(<< n >>) = 1
  OBVIOUS
<1> QED BY <1>1 DEF IsBytes

LEMMA BigEndianType ==
    ASSUME NEW n \in Nat PROVE IsBytes(BigEndian(n), 4)
<1>1. /\ n \div 16777216 \in Nat /\ (n \div 65536) % 256 \in Nat
      /\ (n \div 256) % 256 \in Nat /\ n % 256 \in Nat
  OBVIOUS
<1> QED BY <1>1 DEF BigEndian, IsBytes

LEMMA ZerosAre ==
    ASSUME NEW n \in Nat
    PROVE  IsBytes(Zeros(n), n) /\ \A i \in 1 .. n : Zeros(n)[i] = 0
<1>1. Zeros(n) \in [1 .. n -> Nat]
  BY DEF Zeros
<1>2. \A i \in 1 .. n : Zeros(n)[i] = 0
  BY DEF Zeros
<1>3. Zeros(n) \in Seq(Nat) /\ Len(Zeros(n)) = n
  BY <1>1, FunctionIsSeq
<1> QED BY <1>2, <1>3 DEF IsBytes

\* How many bytes fill up a word.
Pad(n) == (4 - (n % 4)) % 4

LEMMA PadIs == ASSUME NEW n \in Nat
               PROVE  Pad(n) \in 0 .. 3 /\ (n + Pad(n)) % 4 = 0
  BY DEF Pad

LEMMA PaddedIs ==
    ASSUME NEW x, NEW n, IsBytes(x, n)
    PROVE  /\ Padded(x, 4) = x \o Zeros(Pad(n))
           /\ IsBytes(Padded(x, 4), n + Pad(n))
<1>1. Padded(x, 4) = x \o Zeros(Pad(n))
  BY DEF Padded, Pad, IsBytes
<1>2. n \in Nat
  BY DEF IsBytes
<1>3. IsBytes(Zeros(Pad(n)), Pad(n))
  BY <1>2, PadIs, ZerosAre
<1> QED BY <1>1, <1>3, BytesJoined

Token == {"begin", "end", "prop", "nop"}

\* The items of a tree, whose lengths fit into a blob.
ItemSet == [token : Token, name : Text, value : Seq(Octet)]

LEMMA ItemTypes ==
    ASSUME NEW items \in Seq(ItemSet), NEW k \in 1 .. Len(items)
    PROVE  /\ items[k].token \in Token
           /\ IsBytes(items[k].name, Len(items[k].name))
           /\ \A i \in 1 .. Len(items[k].name) : items[k].name[i] # 0
           /\ IsBytes(items[k].value, Len(items[k].value))
<1>1. items[k] \in ItemSet
  OBVIOUS
<1>2. items[k].name \in Seq(1 .. 255) /\ items[k].value \in Seq(0 .. 255) /\ items[k].token \in Token
  BY <1>1 DEF ItemSet, Text, Octet
<1>3. ASSUME NEW x, NEW S, S \subseteq Nat, x \in Seq(S)
      PROVE  /\ IsBytes(x, Len(x))
             /\ \A i \in 1 .. Len(x) : x[i] \in S
  <2>1. x \in Seq(Nat)
    BY <1>3, Lists!SeqMonotonic
  <2>2. Len(x) \in Nat
    BY <2>1
  <2>3. \A i \in 1 .. Len(x) : x[i] \in S
    BY <1>3, Lists!ElementOfSeq
  <2> QED BY <2>1, <2>2, <2>3 DEF IsBytes
<1>4. /\ IsBytes(items[k].name, Len(items[k].name))
      /\ \A i \in 1 .. Len(items[k].name) : items[k].name[i] \in 1 .. 255
  <2>1. 1 .. 255 \subseteq Nat
    OBVIOUS
  <2> QED BY <1>2, <1>3, <2>1
<1>5. IsBytes(items[k].value, Len(items[k].value))
  <2>1. 0 .. 255 \subseteq Nat
    OBVIOUS
  <2> QED BY <1>2, <1>3, <2>1
<1>6. ASSUME NEW i \in 1 .. Len(items[k].name) PROVE items[k].name[i] # 0
  <2>1. items[k].name[i] \in 1 .. 255
    BY <1>4
  <2>2. \A c \in 1 .. 255 : c # 0
    OBVIOUS
  <2> QED BY <2>1, <2>2
<1>7. items[k].token \in Token
  BY <1>2
<1> QED BY <1>4, <1>5, <1>6, <1>7

NamePart(items) == [j \in 1 .. Len(items) |->
                      IF items[j].token = "prop" THEN items[j].name \o << 0 >> ELSE << >>]

ItemPart(items) == [k \in 1 .. Len(items) |-> ItemBytes(items, k)]

LEMMA NamePartType ==
    ASSUME NEW items \in Seq(ItemSet)
    PROVE  \A k \in 1 .. Len(items) : NamePart(items)[k] \in Seq(Nat)
<1>1. ASSUME NEW k \in 1 .. Len(items) PROVE NamePart(items)[k] \in Seq(Nat)
  <2>1. items[k].name \o << 0 >> \in Seq(Nat)
    BY ItemTypes, OneByte, BytesJoined DEF IsBytes
  <2>2. << >> \in Seq(Nat)
    OBVIOUS
  <2> QED BY <2>1, <2>2 DEF NamePart
<1> QED BY <1>1

LEMMA StringsBeforeIs ==
    ASSUME NEW items \in Seq(ItemSet), NEW k \in 1 .. Len(items) + 1
    PROVE  /\ StringsBefore(items, k) = Joined(NamePart(items), k - 1)
           /\ IsBytes(StringsBefore(items, k), Len(StringsBefore(items, k)))
<1>1. k - 1 \in 0 .. Len(items)
  OBVIOUS
<1>2. [j \in 1 .. k - 1 |-> NamePart(items)[j]] =
        [j \in 1 .. k - 1 |-> IF items[j].token = "prop" THEN items[j].name \o << 0 >> ELSE << >>]
  BY <1>1 DEF NamePart
<1>3. StringsBefore(items, k) = Joined(NamePart(items), k - 1)
  BY <1>2 DEF StringsBefore, Concatenated, Joined
<1>4. Joined(NamePart(items), k - 1) \in Seq(Nat)
  <2>1. Len(items) \in Nat
    OBVIOUS
  <2> QED BY <1>1, <2>1, NamePartType, JoinedIs
<1>5. Len(Joined(NamePart(items), k - 1)) \in Nat
  BY <1>4
<1> QED BY <1>3, <1>4, <1>5 DEF IsBytes

\* How long an item is.
ItemLength(item) ==
    CASE item.token = "begin" -> 4 + (Len(item.name) + 1 + Pad(Len(item.name) + 1))
      [] item.token = "prop"  -> 12 + (Len(item.value) + Pad(Len(item.value)))
      [] OTHER -> 4

\* Each item fills whole words.
LEMMA ItemLengthIs ==
    ASSUME NEW items \in Seq(ItemSet), NEW k \in 1 .. Len(items)
    PROVE  ItemLength(items[k]) \in Nat /\ ItemLength(items[k]) % 4 = 0 /\ ItemLength(items[k]) >= 4
<1> DEFINE l == Len(items[k].name) + 1
           v == Len(items[k].value)
<1>1. l \in Nat /\ v \in Nat
  BY ItemTypes DEF IsBytes
<1>2. ItemLength(items[k]) \in {4 + (l + Pad(l)), 12 + (v + Pad(v)), 4}
  BY DEF ItemLength
<1> HIDE DEF l, v
<1>3. /\ Pad(l) \in 0 .. 3 /\ (l + Pad(l)) % 4 = 0
      /\ Pad(v) \in 0 .. 3 /\ (v + Pad(v)) % 4 = 0
  BY <1>1, PadIs
<1>4. \A n \in Nat : n % 4 = 0 => (4 + n) % 4 = 0 /\ (12 + n) % 4 = 0
  OBVIOUS
<1>5. l + Pad(l) \in Nat /\ v + Pad(v) \in Nat
  <2>1. Pad(l) \in 0 .. 3 /\ Pad(v) \in 0 .. 3
    BY <1>3
  <2> QED BY <1>1, <2>1
<1> QED BY <1>2, <1>3, <1>4, <1>5

LEMMA ItemBytesType ==
    ASSUME NEW items \in Seq(ItemSet), NEW k \in 1 .. Len(items)
    PROVE  IsBytes(ItemBytes(items, k), ItemLength(items[k]))
<1> DEFINE before == Len(StringsBefore(items, k))
           length == Len(items[k].value)
           name   == items[k].name
           value  == items[k].value
<1>1. before \in Nat /\ length \in Nat
  <2>1. k \in 1 .. Len(items) + 1
    OBVIOUS
  <2> QED BY <2>1, StringsBeforeIs, ItemTypes DEF IsBytes
<1>2. IsBytes(name, Len(name)) /\ IsBytes(value, length) /\ items[k].token \in Token
  BY ItemTypes
<1>3. CASE items[k].token = "begin"
  <2>1. IsBytes(name \o << 0 >>, Len(name) + 1)
    BY <1>2, OneByte, BytesJoined
  <2>2. IsBytes(Padded(name \o << 0 >>, 4), Len(name) + 1 + Pad(Len(name) + 1))
    BY <2>1, PaddedIs
  <2>3. ItemBytes(items, k) = BigEndian(1) \o Padded(name \o << 0 >>, 4)
    BY <1>3 DEF ItemBytes
  <2>4. IsBytes(BigEndian(1) \o Padded(name \o << 0 >>, 4), 4 + (Len(name) + 1 + Pad(Len(name) + 1)))
    BY <2>2, BigEndianType, BytesJoined
  <2> QED BY <1>3, <2>3, <2>4 DEF ItemLength
<1>4. CASE items[k].token = "prop"
  <2>1. IsBytes(Padded(value, 4), length + Pad(length))
    BY <1>2, PaddedIs
  <2>2. ItemBytes(items, k) = ((BigEndian(3) \o BigEndian(length)) \o BigEndian(before)) \o Padded(value, 4)
    BY <1>4 DEF ItemBytes
  <2> HIDE DEF before, length, value
  <2>3. IsBytes(BigEndian(3), 4) /\ IsBytes(BigEndian(length), 4) /\ IsBytes(BigEndian(before), 4)
    BY <1>1, BigEndianType
  <2>4. IsBytes(BigEndian(3) \o BigEndian(length), 4 + 4)
    BY <2>3, BytesJoined
  <2>5. IsBytes((BigEndian(3) \o BigEndian(length)) \o BigEndian(before), 4 + 4 + 4)
    BY <2>3, <2>4, BytesJoined
  <2>6. IsBytes(ItemBytes(items, k), 12 + (length + Pad(length)))
    BY <2>1, <2>2, <2>5, BytesJoined
  <2>7. ItemLength(items[k]) = 12 + (length + Pad(length))
    BY <1>4 DEF ItemLength, length
  <2> QED BY <2>6, <2>7
<1>5. CASE items[k].token \in {"end", "nop"}
  <2>1. ItemBytes(items, k) \in {BigEndian(2), BigEndian(4)}
    BY <1>5 DEF ItemBytes
  <2>2. ItemLength(items[k]) = 4
    BY <1>5 DEF ItemLength
  <2> QED BY <2>1, <2>2, BigEndianType
<1> QED BY <1>2, <1>3, <1>4, <1>5 DEF Token

-----------------------------------------------------------------------------
(***************************************************************************)
(* The blob, as its blocks one after the other.                            *)
(***************************************************************************)
\* What is put into a blob.
Assembled(x0, x1, x2, x3, x4, x5, x6, x7, x8, x9, r, s, t) ==
    x0 \o x1 \o x2 \o x3 \o x4 \o x5 \o x6 \o x7 \o x8 \o x9 \o r \o s \o t

LEMMA BlobParts ==
    ASSUME NEW x0, NEW x1, NEW x2, NEW x3, NEW x4, NEW x5, NEW x6, NEW x7, NEW x8, NEW x9,
           NEW r, NEW s, NEW t,
           IsBytes(x0, 4), IsBytes(x1, 4), IsBytes(x2, 4), IsBytes(x3, 4), IsBytes(x4, 4),
           IsBytes(x5, 4), IsBytes(x6, 4), IsBytes(x7, 4), IsBytes(x8, 4), IsBytes(x9, 4),
           IsBytes(r, Len(r)), IsBytes(s, Len(s)), IsBytes(t, Len(t)),
           NEW b, b = Assembled(x0, x1, x2, x3, x4, x5, x6, x7, x8, x9, r, s, t)
    PROVE  /\ IsBytes(b, 40 + Len(r) + Len(s) + Len(t))
           /\ Stored(b, 0, x0) /\ Stored(b, 4, x1) /\ Stored(b, 8, x2) /\ Stored(b, 12, x3)
           /\ Stored(b, 16, x4) /\ Stored(b, 20, x5) /\ Stored(b, 24, x6) /\ Stored(b, 28, x7)
           /\ Stored(b, 32, x8) /\ Stored(b, 36, x9)
           /\ Stored(b, 40, r) /\ Stored(b, 40 + Len(r), s) /\ Stored(b, 40 + Len(r) + Len(s), t)
<1> DEFINE l == Len(r)
           m == Len(s)
           n == Len(t)
<1>0. /\ IsBytes(r, l) /\ IsBytes(s, m) /\ IsBytes(t, n)
      /\ b = x0 \o x1 \o x2 \o x3 \o x4 \o x5 \o x6 \o x7 \o x8 \o x9 \o r \o s \o t
  BY DEF Assembled
<1> HIDE DEF l, m, n
<1> DEFINE y1 == x0 \o x1
           y2 == y1 \o x2
           y3 == y2 \o x3
           y4 == y3 \o x4
           y5 == y4 \o x5
           y6 == y5 \o x6
           y7 == y6 \o x7
           y8 == y7 \o x8
           y9 == y8 \o x9
           yr == y9 \o r
           ys == yr \o s
<1>1. b = ys \o t /\ ys = yr \o s /\ yr = y9 \o r /\ y9 = y8 \o x9 /\ y8 = y7 \o x8 /\ y7 = y6 \o x7
      /\ y6 = y5 \o x6 /\ y5 = y4 \o x5 /\ y4 = y3 \o x4 /\ y3 = y2 \o x3 /\ y2 = y1 \o x2 /\ y1 = x0 \o x1
  BY <1>0, Zenon
<1> HIDE DEF y1, y2, y3, y4, y5, y6, y7, y8, y9, yr, ys
<1>2. IsBytes(y1, 4 + 4)
  BY <1>1, BytesJoined
<1>3. IsBytes(y2, 4 + 4 + 4)
  BY <1>1, <1>2, BytesJoined
<1>4. IsBytes(y3, 4 + 4 + 4 + 4)
  BY <1>1, <1>3, BytesJoined
<1>5. IsBytes(y4, 4 + 4 + 4 + 4 + 4)
  BY <1>1, <1>4, BytesJoined
<1>6. IsBytes(y5, 4 + 4 + 4 + 4 + 4 + 4)
  BY <1>1, <1>5, BytesJoined
<1>7. IsBytes(y6, 4 + 4 + 4 + 4 + 4 + 4 + 4)
  BY <1>1, <1>6, BytesJoined
<1>8. IsBytes(y7, 4 + 4 + 4 + 4 + 4 + 4 + 4 + 4)
  BY <1>1, <1>7, BytesJoined
<1>9. IsBytes(y8, 4 + 4 + 4 + 4 + 4 + 4 + 4 + 4 + 4)
  BY <1>1, <1>8, BytesJoined
<1>10. IsBytes(y9, 4 + 4 + 4 + 4 + 4 + 4 + 4 + 4 + 4 + 4)
  BY <1>1, <1>9, BytesJoined
<1>o. /\ 4 + 4 = 8 /\ 4 + 4 + 4 = 12 /\ 4 + 4 + 4 + 4 = 16 /\ 4 + 4 + 4 + 4 + 4 = 20
      /\ 4 + 4 + 4 + 4 + 4 + 4 = 24 /\ 4 + 4 + 4 + 4 + 4 + 4 + 4 = 28
      /\ 4 + 4 + 4 + 4 + 4 + 4 + 4 + 4 = 32 /\ 4 + 4 + 4 + 4 + 4 + 4 + 4 + 4 + 4 = 36
      /\ 4 + 4 + 4 + 4 + 4 + 4 + 4 + 4 + 4 + 4 = 40
  OBVIOUS
<1>p. /\ IsBytes(y1, 8) /\ IsBytes(y2, 12) /\ IsBytes(y3, 16) /\ IsBytes(y4, 20) /\ IsBytes(y5, 24)
      /\ IsBytes(y6, 28) /\ IsBytes(y7, 32) /\ IsBytes(y8, 36) /\ IsBytes(y9, 40)
  BY <1>o, <1>2, <1>3, <1>4, <1>5, <1>6, <1>7, <1>8, <1>9, <1>10, SMTT(30)
<1>11. IsBytes(yr, 40 + l)
  BY <1>0, <1>1, <1>p, BytesJoined, SMTT(30)
<1>12. IsBytes(ys, 40 + l + m)
  BY <1>0, <1>1, <1>11, BytesJoined, SMTT(30)
<1>13. IsBytes(b, 40 + l + m + n)
  BY <1>0, <1>1, <1>12, BytesJoined
<1>14. Len(b) \in Nat /\ Stored(b, 0, b)
  BY <1>13 DEF IsBytes, Stored
<1>15. ASSUME NEW x, NEW y, NEW k, NEW j, IsBytes(x, k), IsBytes(y, j), Stored(b, 0, x \o y)
       PROVE  Stored(b, 0, x) /\ Stored(b, k, y)
  <2>1. \A at \in Nat : Stored(b, at, x \o y) => Stored(b, at, x) /\ Stored(b, at + k, y)
    BY <1>14, <1>15, BytesParted
  <2>2. k \in Nat
    BY <1>15 DEF IsBytes
  <2>3. Stored(b, 0, x) /\ Stored(b, 0 + k, y)
    BY <1>15, <2>1, SMTT(30)
  <2> QED BY <2>2, <2>3
<1>16. Stored(b, 0, ys) /\ Stored(b, 40 + l + m, t)
  BY <1>0, <1>1, <1>12, <1>14, <1>15, SMTT(30)
<1>17. Stored(b, 0, yr) /\ Stored(b, 40 + l, s)
  BY <1>0, <1>1, <1>11, <1>16, <1>15, SMTT(30)
<1>18. Stored(b, 0, y9) /\ Stored(b, 40, r)
  BY <1>0, <1>1, <1>p, <1>17, <1>15, SMTT(30)
<1>19. Stored(b, 0, y8) /\ Stored(b, 36, x9)
  BY <1>1, <1>p, <1>18, <1>15, SMTT(30)
<1>20. Stored(b, 0, y7) /\ Stored(b, 32, x8)
  BY <1>1, <1>p, <1>19, <1>15, SMTT(30)
<1>21. Stored(b, 0, y6) /\ Stored(b, 28, x7)
  BY <1>1, <1>p, <1>20, <1>15, SMTT(30)
<1>22. Stored(b, 0, y5) /\ Stored(b, 24, x6)
  BY <1>1, <1>p, <1>21, <1>15, SMTT(30)
<1>23. Stored(b, 0, y4) /\ Stored(b, 20, x5)
  BY <1>1, <1>p, <1>22, <1>15, SMTT(30)
<1>24. Stored(b, 0, y3) /\ Stored(b, 16, x4)
  BY <1>1, <1>p, <1>23, <1>15, SMTT(30)
<1>25. Stored(b, 0, y2) /\ Stored(b, 12, x3)
  BY <1>1, <1>p, <1>24, <1>15, SMTT(30)
<1>26. Stored(b, 0, y1) /\ Stored(b, 8, x2)
  BY <1>1, <1>p, <1>25, <1>15, SMTT(30)
<1>27. Stored(b, 0, x0) /\ Stored(b, 4, x1)
  BY <1>1, <1>26, <1>15
<1> QED BY <1>13, <1>16, <1>17, <1>18, <1>19, <1>20, <1>21, <1>22, <1>23, <1>24, <1>25, <1>26, <1>27 DEF l, m, n

LEMMA JoinedReservations ==
    ASSUME NEW p \in Seq(Reservation)
    PROVE  /\ SeqsExt!FlattenSeq(p) = Joined(p, Len(p))
           /\ \A k \in 1 .. Len(p) : IsBytes(p[k], 16)
           /\ \A n \in 0 .. Len(p) : IsBytes(Joined(p, n), 16 * n)
<1>1. SeqsExt!FlattenSeq(p) = Joined(p, Len(p))
  <2>1. p = [k \in 1 .. Len(p) |-> p[k]]
    OBVIOUS
  <2> QED BY <2>1 DEF Joined
<1>2. ASSUME NEW k \in 1 .. Len(p) PROVE IsBytes(p[k], 16)
  <2>1. p[k] \in [1 .. 16 -> Octet]
    BY DEF Reservation
  <2>2. p[k] \in [1 .. 16 -> Nat]
    <3>1. \A i \in 1 .. 16 : p[k][i] \in 0 .. 255
      BY <2>1 DEF Octet
    <3>3. \A c \in 0 .. 255 : c \in Nat
      OBVIOUS
    <3>2. \A i \in 1 .. 16 : p[k][i] \in Nat
      BY <3>1, <3>3
    <3> QED BY <2>1, <3>2
  <2> QED BY <2>2, FunctionIsSeq, ZenonT(60) DEF IsBytes
<1>3. Len(p) \in Nat
  OBVIOUS
<1>4. \A k \in 1 .. Len(p) : p[k] \in Seq(Nat)
  BY <1>2 DEF IsBytes
<1>5. /\ Joined(p, 0) = << >>
      /\ \A n \in 0 .. Len(p) - 1 : Joined(p, n + 1) = Joined(p, n) \o p[n + 1]
  BY <1>3, <1>4, JoinedIs, ZenonT(60)
<1> DEFINE T == {n \in 0 .. Len(p) : IsBytes(Joined(p, n), 16 * n)}
<1>6. 0 \in T
  <2>1. IsBytes(Joined(p, 0), 16 * 0)
    BY <1>5, NoBytes
  <2> QED BY <1>3, <2>1
<1>7. ASSUME NEW n \in 0 .. Len(p) - 1, n \in T PROVE n + 1 \in T
  <2>1. n + 1 \in 1 .. Len(p) /\ 16 * n + 16 = 16 * (n + 1)
    BY <1>3
  <2>2. IsBytes(Joined(p, n), 16 * n) /\ IsBytes(p[n + 1], 16)
    BY <1>2, <1>7, <2>1
  <2>3. IsBytes(Joined(p, n) \o p[n + 1], 16 * n + 16)
    BY <2>2, BytesJoined
  <2>4. IsBytes(Joined(p, n + 1), 16 * (n + 1))
    BY <1>5, <2>1, <2>3
  <2> QED BY <2>1, <2>4
<1> HIDE DEF T
<1>8. \A n \in 0 .. Len(p) : n \in T
  BY <1>3, <1>6, <1>7, NumberInduction
<1> QED BY <1>1, <1>2, <1>8 DEF T

LEMMA JoinedItems ==
    ASSUME NEW items \in Seq(ItemSet)
    PROVE  /\ \A n \in 0 .. Len(items) :
                /\ IsBytes(Joined(ItemPart(items), n), Len(Joined(ItemPart(items), n)))
                /\ Len(Joined(ItemPart(items), n)) % 4 = 0
           /\ \A n \in 0 .. Len(items) - 1 :
                Len(Joined(ItemPart(items), n + 1))
                  = Len(Joined(ItemPart(items), n)) + ItemLength(items[n + 1])
<1> DEFINE p == ItemPart(items)
           N == Len(items)
<1>1. N \in Nat
  OBVIOUS
<1>2. \A k \in 1 .. N : IsBytes(p[k], ItemLength(items[k]))
  BY ItemBytesType DEF ItemPart
<1>3. \A k \in 1 .. N : ItemLength(items[k]) \in Nat /\ ItemLength(items[k]) % 4 = 0
  BY ItemLengthIs
<1> DEFINE len(k) == ItemLength(items[k])
<1> HIDE DEF p, N, len
<1>4. \A k \in 1 .. N : IsBytes(p[k], len(k)) /\ len(k) \in Nat /\ len(k) % 4 = 0
  BY <1>2, <1>3 DEF len
<1>5. \A k \in 1 .. N : p[k] \in Seq(Nat)
  BY <1>2 DEF IsBytes
<1>6. /\ Joined(p, 0) = << >>
      /\ \A n \in 0 .. N - 1 : Joined(p, n + 1) = Joined(p, n) \o p[n + 1]
  BY <1>1, <1>5, JoinedIs, ZenonT(60)
<1> DEFINE J(n) == Joined(p, n)
<1> DEFINE T == {n \in 0 .. N : IsBytes(J(n), Len(J(n))) /\ Len(J(n)) % 4 = 0}
<1>7. 0 \in T
  <2>1. IsBytes(J(0), 0)
    BY <1>6, NoBytes
  <2>2. Len(J(0)) = 0
    BY <2>1 DEF IsBytes
  <2>3. IsBytes(J(0), Len(J(0))) /\ Len(J(0)) % 4 = 0
    BY <2>1, <2>2
  <2> QED BY <1>1, <2>3
<1>8. ASSUME NEW n \in 0 .. N - 1, IsBytes(J(n), Len(J(n))), Len(J(n)) % 4 = 0
      PROVE  /\ Len(J(n + 1)) = Len(J(n)) + len(n + 1)
             /\ IsBytes(J(n + 1), Len(J(n + 1))) /\ Len(J(n + 1)) % 4 = 0
  <2>1. n + 1 \in 1 .. N
    BY <1>1
  <2>2. J(n + 1) = J(n) \o p[n + 1]
    BY <1>6
  <2> DEFINE l == Len(J(n))
             d == len(n + 1)
  <2>3. IsBytes(J(n) \o p[n + 1], l + d)
    BY <1>4, <1>8, <2>1, BytesJoined
  <2>4. IsBytes(J(n + 1), l + d) /\ Len(J(n + 1)) = l + d
    BY <2>2, <2>3 DEF IsBytes
  <2>5. l \in Nat /\ d \in Nat /\ l % 4 = 0 /\ d % 4 = 0
    BY <1>4, <1>8, <2>1 DEF IsBytes
  <2>6. (l + d) % 4 = 0
    <3> HIDE DEF l, d
    <3> QED BY <2>5
  <2> QED BY <2>4, <2>6
<1>9. ASSUME NEW n \in 0 .. N - 1, n \in T PROVE n + 1 \in T
  <2>1. n + 1 \in 0 .. N
    BY <1>1
  <2> QED BY <1>8, <1>9, <2>1
<1> HIDE DEF T
<1>10. \A n \in 0 .. N : n \in T
  BY <1>1, <1>7, <1>9, NumberInduction
<1>11. \A n \in 0 .. N : IsBytes(J(n), Len(J(n))) /\ Len(J(n)) % 4 = 0
  BY <1>10 DEF T
<1>12. ASSUME NEW n \in 0 .. N - 1 PROVE Len(J(n + 1)) = Len(J(n)) + len(n + 1)
  <2>1. n \in 0 .. N
    BY <1>1
  <2> QED BY <1>8, <1>11, <2>1
<1> QED BY <1>11, <1>12 DEF len, p, N

-----------------------------------------------------------------------------
(***************************************************************************)
(* The layout of a blob, and what it has stored where.                     *)
(***************************************************************************)
\* The lengths of what is in a blob.
ReservationsLength(tree) == 16 * Len(tree.reservations) + 16
ItemsLength(tree, k) == Len(Joined(ItemPart(tree.items), k))
EndingLength(tree) == IF tree.ending = "none" THEN 0 ELSE 4
NamesLength(tree) == Len(Joined(NamePart(tree.items), Len(tree.items)))

LEMMA TreeTypes ==
    ASSUME NEW tree, IsFlattened(tree)
    PROVE  /\ tree.items \in Seq(ItemSet) /\ Len(tree.items) \in Nat
           /\ tree.reservations \in Seq(Reservation) /\ Len(tree.reservations) \in Nat
           /\ tree.ending \in {"end", "unknown", "none"}
           /\ tree.magic \in [1 .. 4 -> Octet]
           /\ tree.version \in Number /\ tree.lastCompatible \in Number
<1> DEFINE I == Seq(ItemSet)
           R == Seq(Reservation)
           M == [1 .. 4 -> Octet]
<1>1. tree \in [items : I, ending : {"end", "unknown", "none"}, reservations : R, magic : M,
                version : Number, lastCompatible : Number]
  BY DEF IsFlattened, ItemSet, Token
<1>2. tree.items \in I /\ tree.reservations \in R /\ tree.magic \in M
      /\ tree.ending \in {"end", "unknown", "none"}
      /\ tree.version \in Number /\ tree.lastCompatible \in Number
  <2> HIDE DEF I, R, M
  <2> QED BY <1>1
<1> QED BY <1>2

LEMMA BlockTypes ==
    ASSUME NEW tree, IsFlattened(tree)
    PROVE  /\ ReservationBlock(tree)
                = Joined(tree.reservations, Len(tree.reservations)) \o Zeros(16)
           /\ StructureBlock(tree)
                = Joined(ItemPart(tree.items), Len(tree.items)) \o Ending(tree)
           /\ StringsBlock(tree) = Joined(NamePart(tree.items), Len(tree.items))
           /\ IsBytes(Joined(tree.reservations, Len(tree.reservations)), 16 * Len(tree.reservations))
           /\ IsBytes(Joined(ItemPart(tree.items), Len(tree.items)), ItemsLength(tree, Len(tree.items)))
           /\ IsBytes(Ending(tree), EndingLength(tree))
           /\ IsBytes(ReservationBlock(tree), ReservationsLength(tree))
           /\ IsBytes(StructureBlock(tree), ItemsLength(tree, Len(tree.items)) + EndingLength(tree))
           /\ IsBytes(StringsBlock(tree), NamesLength(tree))
<1> DEFINE items == tree.items
           N == Len(items)
<1>1. /\ items \in Seq(ItemSet) /\ N \in Nat
      /\ tree.reservations \in Seq(Reservation) /\ Len(tree.reservations) \in Nat
      /\ tree.ending \in {"end", "unknown", "none"}
  BY TreeTypes
<1>2. ReservationBlock(tree) = Joined(tree.reservations, Len(tree.reservations)) \o Zeros(16)
  BY <1>1, JoinedReservations DEF ReservationBlock
<1>3. StructureBlock(tree) = Joined(ItemPart(items), N) \o Ending(tree)
  <2>1. [k \in 1 .. N |-> ItemPart(items)[k]] = [k \in 1 .. N |-> ItemBytes(items, k)]
    BY DEF ItemPart
  <2> QED BY <2>1 DEF StructureBlock, Concatenated, Joined
<1>4. StringsBlock(tree) = Joined(NamePart(items), N)
      /\ IsBytes(StringsBlock(tree), NamesLength(tree))
  <2>1. N + 1 \in 1 .. Len(items) + 1 /\ (N + 1) - 1 = N
    BY <1>1
  <2>2. /\ StringsBefore(items, N + 1) = Joined(NamePart(items), (N + 1) - 1)
        /\ IsBytes(StringsBefore(items, N + 1), Len(StringsBefore(items, N + 1)))
    BY <1>1, <2>1, StringsBeforeIs
  <2> QED BY <2>1, <2>2 DEF StringsBlock, NamesLength
<1>5. IsBytes(Joined(tree.reservations, Len(tree.reservations)), 16 * Len(tree.reservations))
  <2>1. Len(tree.reservations) \in 0 .. Len(tree.reservations)
    BY <1>1
  <2> QED BY <1>1, <2>1, JoinedReservations
<1>6. IsBytes(Joined(ItemPart(items), N), ItemsLength(tree, N))
  <2>1. N \in 0 .. Len(items)
    BY <1>1
  <2> QED BY <1>1, <2>1, JoinedItems DEF ItemsLength
<1>7. IsBytes(Ending(tree), EndingLength(tree))
  <2>1. IsBytes(BigEndian(9), 4) /\ IsBytes(BigEndian(5), 4) /\ IsBytes(<< >>, 0)
    BY BigEndianType, NoBytes
  <2> QED BY <1>1, <2>1 DEF Ending, EndingLength
<1>8. IsBytes(ReservationBlock(tree), ReservationsLength(tree))
  <2>1. IsBytes(Zeros(16), 16)
    BY ZerosAre
  <2> QED BY <1>2, <1>5, <2>1, BytesJoined DEF ReservationsLength
<1>9. IsBytes(StructureBlock(tree), ItemsLength(tree, N) + EndingLength(tree))
  BY <1>3, <1>6, <1>7, BytesJoined
<1> QED BY <1>2, <1>3, <1>4, <1>5, <1>6, <1>7, <1>8, <1>9

\* Where the blocks are.
StructAt(tree)  == 40 + ReservationsLength(tree)
TokensEnd(tree) == StructAt(tree) + ItemsLength(tree, Len(tree.items)) + EndingLength(tree)

LEMMA LayoutIs ==
    ASSUME NEW tree, IsFlattened(tree)
    PROVE  /\ Layout(tree).off_mem_rsvmap = 40
           /\ Layout(tree).off_dt_struct = StructAt(tree)
           /\ Layout(tree).off_dt_struct + Layout(tree).size_dt_struct = TokensEnd(tree)
           /\ Layout(tree).off_dt_strings = TokensEnd(tree)
           /\ Layout(tree).totalsize = TokensEnd(tree) + NamesLength(tree)
           /\ StructAt(tree) \in Nat /\ StructAt(tree) % 4 = 0 /\ StructAt(tree) >= 56
           /\ TokensEnd(tree) \in Nat /\ NamesLength(tree) \in Nat
           /\ \A f \in {"totalsize", "off_dt_struct", "size_dt_struct", "off_dt_strings",
                        "size_dt_strings", "off_mem_rsvmap", "version", "last_comp_version",
                        "boot_cpuid_phys"} : Layout(tree)[f] \in Number
           /\ Layout(tree).version = tree.version
           /\ Layout(tree).last_comp_version = tree.lastCompatible
<1> DEFINE a == Len(ReservationBlock(tree))
           b == Len(StructureBlock(tree))
           c == Len(StringsBlock(tree))
           L == Layout(tree)
           r == Len(tree.reservations)
<1>1. /\ L.off_mem_rsvmap = 40 /\ L.off_dt_struct = 40 + a /\ L.size_dt_struct = b
      /\ L.off_dt_strings = 40 + a + b /\ L.size_dt_strings = c
      /\ L.totalsize = 40 + a + b + c
      /\ L.version = tree.version /\ L.last_comp_version = tree.lastCompatible
      /\ L.boot_cpuid_phys = 0
  BY DEF Layout
<1>2. /\ a = ReservationsLength(tree) /\ a \in Nat
      /\ b = ItemsLength(tree, Len(tree.items)) + EndingLength(tree) /\ b \in Nat
      /\ c = NamesLength(tree) /\ c \in Nat
  BY BlockTypes DEF IsBytes
<1>3. /\ ItemsLength(tree, Len(tree.items)) \in Nat /\ EndingLength(tree) \in Nat
  BY BlockTypes DEF IsBytes
<1>4. a = 16 * r + 16 /\ r \in Nat
  BY <1>2, TreeTypes DEF ReservationsLength
<1>5. L.totalsize \in Number /\ tree.version \in Number /\ tree.lastCompatible \in Number
  BY TreeTypes DEF IsFlattened
<1>a. StructAt(tree) = 40 + a /\ TokensEnd(tree) = 40 + a + b
  BY <1>2, <1>3 DEF StructAt, TokensEnd
<1> HIDE DEF a, b, c, L, r
<1>6. (40 + a) % 4 = 0 /\ 40 + a >= 56 /\ 40 + a \in Nat /\ 40 + a + b \in Nat
  BY <1>2, <1>4
<1>7. /\ L.off_dt_struct \in Number /\ L.size_dt_struct \in Number
      /\ L.off_dt_strings \in Number /\ L.size_dt_strings \in Number
      /\ L.off_mem_rsvmap \in Number /\ L.boot_cpuid_phys \in Number
  <2>0. L.totalsize \in Number
    BY <1>5
  <2>1. 40 + a + b + c \in Number
    BY <1>1, <2>0
  <2>2. a \in Nat /\ b \in Nat /\ c \in Nat
    BY <1>2
  <2>3. /\ 40 + a \in Number /\ b \in Number /\ 40 + a + b \in Number /\ c \in Number
    BY <2>1, <2>2, SMT DEF Number
  <2>4. 40 \in Number /\ 0 \in Number
    BY SMT DEF Number
  <2> QED BY <1>1, <2>3, <2>4
<1>8. L.off_dt_struct + L.size_dt_struct = 40 + a + b
  BY <1>1, <1>2
<1> QED BY <1>1, <1>2, <1>5, <1>6, <1>7, <1>8, <1>a, ZenonT(60) DEF L

\* What is stored where.
LEMMA BlobIs ==
    ASSUME NEW tree, IsFlattened(tree), NEW b, b = Blob(tree)
    PROVE  /\ b \in Seq(Nat) /\ Len(b) \in Nat /\ Len(b) = TokensEnd(tree) + NamesLength(tree)
           /\ Stored(b, 0, tree.magic) /\ Stored(b, 4, BigEndian(Layout(tree).totalsize))
           /\ Stored(b, 8, BigEndian(Layout(tree).off_dt_struct))
           /\ Stored(b, 12, BigEndian(Layout(tree).off_dt_strings))
           /\ Stored(b, 16, BigEndian(Layout(tree).off_mem_rsvmap))
           /\ Stored(b, 20, BigEndian(Layout(tree).version))
           /\ Stored(b, 24, BigEndian(Layout(tree).last_comp_version))
           /\ Stored(b, 28, BigEndian(Layout(tree).boot_cpuid_phys))
           /\ Stored(b, 32, BigEndian(Layout(tree).size_dt_strings))
           /\ Stored(b, 36, BigEndian(Layout(tree).size_dt_struct))
           /\ Stored(b, 40, Joined(tree.reservations, Len(tree.reservations)))
           /\ Stored(b, 40 + 16 * Len(tree.reservations), Zeros(16))
           /\ Stored(b, StructAt(tree), Joined(ItemPart(tree.items), Len(tree.items)))
           /\ Stored(b, StructAt(tree) + ItemsLength(tree, Len(tree.items)), Ending(tree))
           /\ Stored(b, TokensEnd(tree), Joined(NamePart(tree.items), Len(tree.items)))
<1> DEFINE L == Layout(tree)
           l == ReservationsLength(tree)
           m == ItemsLength(tree, Len(tree.items)) + EndingLength(tree)
           n == NamesLength(tree)
           r == ReservationBlock(tree)
           s == StructureBlock(tree)
           t == StringsBlock(tree)
<1>1. b = Assembled(tree.magic, BigEndian(L.totalsize), BigEndian(L.off_dt_struct),
                    BigEndian(L.off_dt_strings), BigEndian(L.off_mem_rsvmap),
                    BigEndian(L.version), BigEndian(L.last_comp_version),
                    BigEndian(L.boot_cpuid_phys), BigEndian(L.size_dt_strings),
                    BigEndian(L.size_dt_struct), r, s, t)
  BY Zenon DEF Blob, Assembled
<1>2. IsBytes(r, l) /\ IsBytes(s, m) /\ IsBytes(t, n)
  BY BlockTypes
<1>a. l = Len(r) /\ m = Len(s) /\ n = Len(t)
  BY <1>2 DEF IsBytes
<1>b. IsBytes(r, Len(r)) /\ IsBytes(s, Len(s)) /\ IsBytes(t, Len(t))
  BY <1>2, <1>a
<1>3. IsBytes(tree.magic, 4)
  <2>1. tree.magic \in [1 .. 4 -> Octet]
    BY TreeTypes
  <2>2. \A c \in Octet : c \in Nat
    BY DEF Octet
  <2>3. tree.magic \in [1 .. 4 -> Nat]
    BY <2>1, <2>2
  <2> QED BY <2>3, FunctionIsSeq, ZenonT(60) DEF IsBytes
<1> HIDE DEF L
<1>4. \A x \in Number : IsBytes(BigEndian(x), 4)
  BY BigEndianType DEF Number
<1>5. /\ IsBytes(BigEndian(L.totalsize), 4) /\ IsBytes(BigEndian(L.off_dt_struct), 4)
      /\ IsBytes(BigEndian(L.off_dt_strings), 4) /\ IsBytes(BigEndian(L.off_mem_rsvmap), 4)
      /\ IsBytes(BigEndian(L.version), 4) /\ IsBytes(BigEndian(L.last_comp_version), 4)
      /\ IsBytes(BigEndian(L.boot_cpuid_phys), 4) /\ IsBytes(BigEndian(L.size_dt_strings), 4)
      /\ IsBytes(BigEndian(L.size_dt_struct), 4)
  BY <1>4, LayoutIs DEF L
<1> HIDE DEF l, m, n, r, s, t
<1>c. /\ IsBytes(b, 40 + Len(r) + Len(s) + Len(t))
      /\ Stored(b, 0, tree.magic) /\ Stored(b, 4, BigEndian(L.totalsize))
      /\ Stored(b, 8, BigEndian(L.off_dt_struct)) /\ Stored(b, 12, BigEndian(L.off_dt_strings))
      /\ Stored(b, 16, BigEndian(L.off_mem_rsvmap)) /\ Stored(b, 20, BigEndian(L.version))
      /\ Stored(b, 24, BigEndian(L.last_comp_version))
      /\ Stored(b, 28, BigEndian(L.boot_cpuid_phys))
      /\ Stored(b, 32, BigEndian(L.size_dt_strings))
      /\ Stored(b, 36, BigEndian(L.size_dt_struct))
      /\ Stored(b, 40, r) /\ Stored(b, 40 + Len(r), s) /\ Stored(b, 40 + Len(r) + Len(s), t)
  BY <1>1, <1>b, <1>3, <1>5, BlobParts
<1>6. /\ IsBytes(b, 40 + l + m + n)
      /\ Stored(b, 0, tree.magic) /\ Stored(b, 4, BigEndian(L.totalsize))
      /\ Stored(b, 8, BigEndian(L.off_dt_struct)) /\ Stored(b, 12, BigEndian(L.off_dt_strings))
      /\ Stored(b, 16, BigEndian(L.off_mem_rsvmap)) /\ Stored(b, 20, BigEndian(L.version))
      /\ Stored(b, 24, BigEndian(L.last_comp_version))
      /\ Stored(b, 28, BigEndian(L.boot_cpuid_phys))
      /\ Stored(b, 32, BigEndian(L.size_dt_strings))
      /\ Stored(b, 36, BigEndian(L.size_dt_struct))
      /\ Stored(b, 40, r) /\ Stored(b, 40 + l, s) /\ Stored(b, 40 + l + m, t)
  BY <1>a, <1>c
<1>7. /\ 40 + l = StructAt(tree) /\ 40 + l + m = TokensEnd(tree)
      /\ 40 \in Nat /\ 40 + l \in Nat
  <2>1. ItemsLength(tree, Len(tree.items)) \in Nat /\ EndingLength(tree) \in Nat /\ l \in Nat
    BY BlockTypes DEF IsBytes, l
  <2> QED BY <2>1 DEF StructAt, TokensEnd, m, l
<1>8. b \in Seq(Nat) /\ Len(b) = 40 + l + m + n /\ Len(b) \in Nat
  BY <1>6 DEF IsBytes
<1>9. /\ Stored(b, 40, Joined(tree.reservations, Len(tree.reservations)))
      /\ Stored(b, 40 + 16 * Len(tree.reservations), Zeros(16))
  <2>1. IsBytes(Zeros(16), 16)
    BY ZerosAre
  <2>2. Stored(b, 40, Joined(tree.reservations, Len(tree.reservations)) \o Zeros(16))
    BY <1>6, BlockTypes DEF r
  <2> DEFINE j == Joined(tree.reservations, Len(tree.reservations))
             c == 16 * Len(tree.reservations)
  <2>3. IsBytes(j, c)
    BY BlockTypes
  <2> HIDE DEF j, c
  <2>4. \A at \in Nat : Stored(b, at, j \o Zeros(16)) => Stored(b, at, j) /\ Stored(b, at + c, Zeros(16))
    BY <1>8, <2>1, <2>3, BytesParted
  <2>5. Stored(b, 40, j) /\ Stored(b, 40 + c, Zeros(16))
    BY <2>2, <2>4, <1>7 DEF j
  <2> QED BY <2>5 DEF j, c
<1>10. /\ Stored(b, StructAt(tree), Joined(ItemPart(tree.items), Len(tree.items)))
       /\ Stored(b, StructAt(tree) + ItemsLength(tree, Len(tree.items)), Ending(tree))
  <2> DEFINE j == Joined(ItemPart(tree.items), Len(tree.items))
             c == ItemsLength(tree, Len(tree.items))
  <2>1. Stored(b, StructAt(tree), j \o Ending(tree)) /\ StructAt(tree) \in Nat
    BY <1>6, <1>7, BlockTypes DEF s
  <2>2. IsBytes(j, c) /\ IsBytes(Ending(tree), EndingLength(tree))
    BY BlockTypes
  <2> HIDE DEF j, c
  <2>3. Stored(b, StructAt(tree), j) /\ Stored(b, StructAt(tree) + c, Ending(tree))
    BY <1>8, <2>1, <2>2, BytesParted
  <2> QED BY <2>3 DEF j, c
<1>11. Stored(b, TokensEnd(tree), Joined(NamePart(tree.items), Len(tree.items)))
  BY <1>6, <1>7, BlockTypes DEF t
<1>12. 40 + l + m + n = TokensEnd(tree) + NamesLength(tree)
  BY <1>7 DEF n
<1> QED BY <1>6, <1>8, <1>9, <1>10, <1>11, <1>12 DEF L

-----------------------------------------------------------------------------
(***************************************************************************)
(* The header, and texts that end with a zero.                             *)
(***************************************************************************)
LEMMA HeaderIs ==
    ASSUME NEW tree, IsFlattened(tree), blob = Blob(tree)
    PROVE  /\ Header("magic") = SeqsExt!Reverse(tree.magic)
           /\ \A f \in {"totalsize", "off_dt_struct", "size_dt_struct", "off_dt_strings",
                        "size_dt_strings", "off_mem_rsvmap", "version", "last_comp_version",
                        "boot_cpuid_phys"} :
                /\ Header(f) = SeqsExt!Reverse(BigEndian(Layout(tree)[f]))
                /\ Field(f) = Layout(tree)[f]
<1> DEFINE L == Layout(tree)
<1>1. Len(blob) \in Nat
  BY BlobIs
<1>2. Header("magic") = SeqsExt!Reverse(tree.magic)
  <2> DEFINE m == tree.magic
  <2>1. m \in [1 .. 4 -> Octet] /\ Stored(blob, 0, m)
    BY BlobIs, TreeTypes
  <2> HIDE DEF m
  <2>2. m \in Seq(Octet) /\ Len(m) = 4
    BY <2>1, FunctionIsSeq, ZenonT(60)
  <2>3. m[1] \in Octet /\ m[2] \in Octet /\ m[3] \in Octet /\ m[4] \in Octet
    BY <2>1
  <2>4. m = << m[1], m[2], m[3], m[4] >>
    BY <2>2, SeqOfFour
  <2> DEFINE a == m[1]
             b == m[2]
             c == m[3]
             d == m[4]
  <2>5. m = << a, b, c, d >> /\ a \in Octet /\ b \in Octet /\ c \in Octet /\ d \in Octet
    BY <2>3, <2>4
  <2> HIDE DEF a, b, c, d
  <2>6. SeqsExt!Reverse(m) = << d, c, b, a >>
    BY <2>5, ReverseQuad
  <2>7. \A at \in Nat : Stored(blob, at, m) => UInt32At(at) = << d, c, b, a >>
    BY <1>1, <2>5, IntegerAt
  <2>8. UInt32At(0) = << d, c, b, a >>
    BY <2>1, <2>7
  <2>9. Header("magic") = UInt32At(0)
    BY DEF Header, HeaderField
  <2> QED BY <2>6, <2>8, <2>9 DEF m
<1> HIDE DEF L
<1>3. ASSUME NEW at \in Nat, NEW n \in Number, Stored(blob, at, BigEndian(n))
      PROVE  UInt32At(at) = SeqsExt!Reverse(BigEndian(n)) /\ NumberOf(UInt32At(at)) = n
  BY <1>1, <1>3, NumberAt
<1>4. /\ L.totalsize \in Number /\ L.off_dt_struct \in Number /\ L.size_dt_struct \in Number
      /\ L.off_dt_strings \in Number /\ L.size_dt_strings \in Number
      /\ L.off_mem_rsvmap \in Number /\ L.version \in Number
      /\ L.last_comp_version \in Number /\ L.boot_cpuid_phys \in Number
  BY LayoutIs DEF L
<1>5. /\ Stored(blob, 4, BigEndian(L.totalsize)) /\ Stored(blob, 8, BigEndian(L.off_dt_struct))
      /\ Stored(blob, 12, BigEndian(L.off_dt_strings))
      /\ Stored(blob, 16, BigEndian(L.off_mem_rsvmap))
      /\ Stored(blob, 20, BigEndian(L.version)) /\ Stored(blob, 24, BigEndian(L.last_comp_version))
      /\ Stored(blob, 28, BigEndian(L.boot_cpuid_phys))
      /\ Stored(blob, 32, BigEndian(L.size_dt_strings))
      /\ Stored(blob, 36, BigEndian(L.size_dt_struct))
  BY BlobIs DEF L
<1>6. /\ Header("totalsize") = UInt32At(4) /\ Header("off_dt_struct") = UInt32At(8)
      /\ Header("off_dt_strings") = UInt32At(12) /\ Header("off_mem_rsvmap") = UInt32At(16)
      /\ Header("version") = UInt32At(20) /\ Header("last_comp_version") = UInt32At(24)
      /\ Header("boot_cpuid_phys") = UInt32At(28) /\ Header("size_dt_strings") = UInt32At(32)
      /\ Header("size_dt_struct") = UInt32At(36)
  BY DEF Header, HeaderField
<1> DEFINE Holds(f, at) == \A n \in Number : Stored(blob, at, BigEndian(n)) =>
             UInt32At(at) = SeqsExt!Reverse(BigEndian(n)) /\ NumberOf(UInt32At(at)) = n
<1>7. /\ Holds("totalsize", 4) /\ Holds("off_dt_struct", 8) /\ Holds("off_dt_strings", 12)
      /\ Holds("off_mem_rsvmap", 16) /\ Holds("version", 20) /\ Holds("last_comp_version", 24)
      /\ Holds("boot_cpuid_phys", 28) /\ Holds("size_dt_strings", 32) /\ Holds("size_dt_struct", 36)
  <2>1. ASSUME NEW at \in Nat PROVE Holds("", at)
    BY <1>3
  <2>2. \A at \in {4, 8, 12, 16, 20, 24, 28, 32, 36} : at \in Nat
    OBVIOUS
  <2> QED BY <2>1, <2>2
<1> DEFINE Is(f) == Header(f) = SeqsExt!Reverse(BigEndian(L[f])) /\ NumberOf(Header(f)) = L[f]
<1>8. /\ Is("totalsize") /\ Is("off_dt_struct") /\ Is("off_dt_strings")
  BY <1>4, <1>5, <1>6, <1>7, Zenon
<1>9. /\ Is("off_mem_rsvmap") /\ Is("version") /\ Is("last_comp_version")
  BY <1>4, <1>5, <1>6, <1>7, ZenonT(60)
<1>10. /\ Is("boot_cpuid_phys") /\ Is("size_dt_strings") /\ Is("size_dt_struct")
  BY <1>4, <1>5, <1>6, <1>7, ZenonT(60)
<1> HIDE DEF Is
<1>11. \A f \in {"totalsize", "off_dt_struct", "size_dt_struct", "off_dt_strings",
                        "size_dt_strings", "off_mem_rsvmap", "version", "last_comp_version",
                        "boot_cpuid_phys"} : Is(f)
  BY <1>8, <1>9, <1>10
<1> QED BY <1>2, <1>11 DEF Is, L, Field

(***************************************************************************)
(* Strings.                                                                *)
(***************************************************************************)
LEMMA StrLenIs ==
    ASSUME Len(blob) \in Nat, NEW at \in Nat, NEW n \in Nat, n <= Len(blob),
           Byte(at + n) = 0, \A k \in 0 .. n - 1 : Byte(at + k) # 0
    PROVE  StrLen(at) = n
<1> DEFINE P(i) == Byte(at + i) = 0 /\ \A k \in 0 .. i - 1 : Byte(at + k) # 0
<1>1. n \in 0 .. Len(blob) /\ P(n)
  OBVIOUS
<1>2. ASSUME NEW i \in 0 .. Len(blob), P(i) PROVE i = n
  <2>1. CASE i < n
    <3>1. i \in 0 .. n - 1
      BY <2>1
    <3> QED BY <1>2, <3>1
  <2>2. CASE n < i
    <3>1. n \in 0 .. i - 1
      BY <2>2
    <3> QED BY <1>2, <3>1
  <2> QED BY <2>1, <2>2
<1> HIDE DEF P
<1>3. StrLen(at) = CHOOSE i \in 0 .. Len(blob) : P(i)
  BY DEF StrLen, P
<1> QED BY <1>1, <1>2, <1>3

LEMMA ByteStored ==
    ASSUME Len(blob) \in Nat, NEW at \in Nat, NEW x, NEW n, IsBytes(x, n), Stored(blob, at, x)
    PROVE  /\ at + n <= Len(blob)
           /\ \A k \in 0 .. n - 1 : Byte(at + k) = x[k + 1]
<1>1. n \in Nat /\ Len(x) = n
  BY DEF IsBytes
<1>2. at + n <= Len(blob)
  BY <1>1 DEF Stored
<1>3. ASSUME NEW k \in 0 .. n - 1 PROVE Byte(at + k) = x[k + 1]
  <2>1. k + 1 \in 1 .. Len(x) /\ at + (k + 1) = at + k + 1 /\ at + k < Len(blob)
    BY <1>1, <1>2
  <2>2. blob[at + (k + 1)] = x[k + 1]
    BY <2>1 DEF Stored
  <2> QED BY <2>1, <2>2 DEF Byte
<1> QED BY <1>2, <1>3

\* A text with the zero behind it is found as it was stored.
LEMMA TextAt ==
    ASSUME Len(blob) \in Nat, NEW at \in Nat, NEW x, IsBytes(x, Len(x)),
           \A i \in 1 .. Len(x) : x[i] # 0, Stored(blob, at, x \o << 0 >>)
    PROVE  /\ StrLen(at) = Len(x) /\ StringAt(at) = x
           /\ StringBytes(at) \subseteq 0 .. Len(blob) - 1
<1> DEFINE n == Len(x)
<1>1. IsBytes(<< 0 >>, 1) /\ Len(<< 0 >>) = 1 /\ << 0 >>[1] = 0
  <2>1. 0 \in Nat
    OBVIOUS
  <2> QED BY <2>1, OneByte
<1>2. Stored(blob, at, x) /\ Stored(blob, at + n, << 0 >>)
  BY <1>1, BytesParted
<1>3. n \in Nat /\ x \in Seq(Nat)
  BY DEF IsBytes
<1> HIDE DEF n
<1>4. at + n \in Nat
  BY <1>3
<1>5. at + n < Len(blob) /\ Byte(at + n) = 0
  <2>1. /\ at + n + 1 <= Len(blob)
        /\ \A k \in 0 .. 1 - 1 : Byte(at + n + k) = << 0 >>[k + 1]
    BY <1>1, <1>2, <1>4, ByteStored
  <2>2. Byte(at + n + 0) = << 0 >>[0 + 1]
    BY <2>1
  <2> QED BY <1>1, <1>4, <2>1, <2>2
<1>6. \A k \in 0 .. n - 1 : Byte(at + k) # 0
  <2>1. \A k \in 0 .. n - 1 : Byte(at + k) = x[k + 1]
    BY <1>2, ByteStored DEF n
  <2>2. \A k \in 0 .. n - 1 : k + 1 \in 1 .. n
    BY <1>3
  <2> QED BY <2>1, <2>2 DEF n
<1>7. StrLen(at) = n
  <2>1. n <= Len(blob)
    BY <1>3, <1>5
  <2> QED BY <1>3, <1>5, <1>6, <2>1, StrLenIs
<1>8. StringAt(at) = x
  BY <1>2, <1>3, <1>7, LoadIs DEF StringAt, n
<1>9. StringBytes(at) \subseteq 0 .. Len(blob) - 1
  BY <1>3, <1>5, <1>7 DEF StringBytes, Bytes
<1> QED BY <1>7, <1>8, <1>9 DEF n

-----------------------------------------------------------------------------
(***************************************************************************)
(* Alignment, and the token of each item.                                  *)
(***************************************************************************)
LEMMA AlignIs ==
    ASSUME NEW a \in Nat, NEW n \in Nat, a % 4 = 0
    PROVE  AlignPointer(a + n, 4) = a + n + Pad(n)
<1>1. DTBAddress \in Nat /\ DTBAddress % 8 = 0
  BY DeviceTreeAssumption
<1>2. DTBAddress % 4 = 0
  BY <1>1
<1>3. (DTBAddress + (a + n)) % 4 = n % 4
  BY <1>1, <1>2
<1> QED BY <1>3 DEF AlignPointer, Pad

LEMMA TokenIs ==
    ASSUME NEW t \in 0 .. 255
    PROVE  /\ t \in Number /\ BigEndian(t) = << 0, 0, 0, t >>
           /\ SeqsExt!Reverse(BigEndian(t)) = << t, 0, 0, 0 >>
<1>1. t \in Number
  BY SMT DEF Number
<1>2. t \div 16777216 = 0 /\ (t \div 65536) % 256 = 0 /\ (t \div 256) % 256 = 0 /\ t % 256 = t
  BY SMT
<1>3. BigEndian(t) = << 0, 0, 0, t >>
  BY <1>2, SMT DEF BigEndian
<1> QED BY <1>1, <1>3, ReverseQuad

LEMMA TokenAt ==
    ASSUME Len(blob) \in Nat, NEW at \in Nat, NEW t \in 0 .. 255, Stored(blob, at, BigEndian(t))
    PROVE  /\ UInt32At(at) = << t, 0, 0, 0 >>
           /\ at + 4 <= Len(blob) /\ Byte(at) = 0
<1>1. UInt32At(at) = << t, 0, 0, 0 >>
  BY TokenIs, NumberAt
<1>2. IsBytes(BigEndian(t), 4)
  BY BigEndianType
<1>3. /\ at + 4 <= Len(blob)
      /\ \A k \in 0 .. 4 - 1 : Byte(at + k) = BigEndian(t)[k + 1]
  BY <1>2, ByteStored
<1>4. BigEndian(t)[1] = 0
  <2>1. BigEndian(t) = << 0, 0, 0, t >>
    BY TokenIs
  <2> QED BY <2>1
<1>5. Byte(at + 0) = BigEndian(t)[0 + 1]
  BY <1>3
<1> QED BY <1>1, <1>3, <1>4, <1>5

\* Where an item is, counted from 1.
ItemAt(tree, k) == StructAt(tree) + ItemsLength(tree, k - 1)

LEMMA ItemAtIs ==
    ASSUME NEW tree, IsFlattened(tree), blob = Blob(tree), NEW k \in 1 .. Len(tree.items)
    PROVE  /\ ItemAt(tree, k) \in Nat /\ ItemAt(tree, k) % 4 = 0
           /\ Stored(blob, ItemAt(tree, k), ItemBytes(tree.items, k))
           /\ ItemAt(tree, k + 1) = ItemAt(tree, k) + ItemLength(tree.items[k])
           /\ ItemAt(tree, k + 1) \in Nat /\ ItemAt(tree, k + 1) % 4 = 0
           /\ ItemAt(tree, k + 1) <= Len(blob)
<1> DEFINE items == tree.items
           N == Len(items)
           J(n) == Joined(ItemPart(items), n)
           s == StructAt(tree)
<1>1. items \in Seq(ItemSet) /\ N \in Nat
  BY TreeTypes
<1>2. s \in Nat /\ s % 4 = 0
  BY LayoutIs
<1>3. Len(blob) \in Nat /\ Stored(blob, s, J(N))
  BY BlobIs
<1>4. /\ \A n \in 0 .. N : Len(J(n)) \in Nat /\ Len(J(n)) % 4 = 0
      /\ \A n \in 0 .. N - 1 : Len(J(n + 1)) = Len(J(n)) + ItemLength(items[n + 1])
  BY <1>1, JoinedItems DEF IsBytes
<1>5. \A j \in 1 .. N : ItemPart(items)[j] \in Seq(Nat) /\ ItemPart(items)[j] = ItemBytes(items, j)
  BY <1>1, ItemBytesType DEF IsBytes, ItemPart
<1>6. \A n \in 0 .. N : /\ Stored(blob, s, J(n))
                        /\ n < N => Stored(blob, s + Len(J(n)), ItemPart(items)[n + 1])
  BY <1>1, <1>2, <1>3, <1>5, StoredJoined
<1> DEFINE l(n) == Len(J(n))
           b == ItemLength(items[k])
<1>7. /\ l(k - 1) \in Nat /\ l(k - 1) % 4 = 0 /\ l(k) \in Nat /\ l(k) % 4 = 0
      /\ l(k) = l(k - 1) + b
      /\ Stored(blob, s, J(k)) /\ Stored(blob, s + l(k - 1), ItemBytes(items, k))
  <2>1. k - 1 \in 0 .. N - 1 /\ k - 1 \in 0 .. N /\ k - 1 < N /\ (k - 1) + 1 = k /\ k \in 0 .. N /\ k \in 1 .. N
    BY <1>1
  <2>2. l((k - 1) + 1) = l(k - 1) + ItemLength(items[(k - 1) + 1])
    BY <1>4, <2>1
  <2>3. Stored(blob, s + l(k - 1), ItemPart(items)[(k - 1) + 1])
    BY <1>6, <2>1
  <2>4. Stored(blob, s + l(k - 1), ItemBytes(items, k)) /\ l(k) = l(k - 1) + b
    BY <1>5, <2>1, <2>2, <2>3
  <2> QED BY <1>4, <1>6, <2>1, <2>4
<1>8. s + l(k) <= Len(blob)
  BY <1>7 DEF Stored
<1>9. ItemAt(tree, k) = s + l(k - 1) /\ ItemAt(tree, k + 1) = s + l(k)
  <2>1. (k + 1) - 1 = k
    OBVIOUS
  <2> QED BY <2>1 DEF ItemAt, ItemsLength
<1>10. l(k - 1) \in Nat /\ l(k) \in Nat /\ b \in Nat
  BY <1>1, <1>7, ItemLengthIs
<1> HIDE DEF s, l, b
<1>11. s + l(k) = s + l(k - 1) + b
  BY <1>2, <1>7, <1>10, SMTT(30)
<1>12. (s + l(k)) % 4 = 0 /\ (s + l(k - 1)) % 4 = 0
  <2>1. \A i, j \in Nat : i % 4 = 0 /\ j % 4 = 0 => (i + j) % 4 = 0
    OBVIOUS
  <2>2. s \in Nat /\ s % 4 = 0 /\ l(k) % 4 = 0 /\ l(k - 1) % 4 = 0
    BY <1>2, <1>7
  <2> QED BY <1>10, <2>1, <2>2
<1> DEFINE p == ItemAt(tree, k)
           q == ItemAt(tree, k + 1)
<1>13. /\ p \in Nat /\ p % 4 = 0 /\ q \in Nat /\ q % 4 = 0 /\ q <= Len(blob)
  BY <1>2, <1>8, <1>9, <1>10, <1>12
<1>14. q = p + b
  BY <1>9, <1>11
<1>15. Stored(blob, p, ItemBytes(items, k))
  BY <1>7, <1>9
<1> QED BY <1>13, <1>14, <1>15 DEF b

\* The token of an item.
TokenNumber(token) == CASE token = "begin" -> 1 [] token = "end" -> 2
                        [] token = "prop" -> 3 [] token = "nop" -> 4

LEMMA ItemTokenAt ==
    ASSUME NEW tree, IsFlattened(tree), blob = Blob(tree), NEW k \in 1 .. Len(tree.items)
    PROVE  /\ UInt32At(ItemAt(tree, k)) = << TokenNumber(tree.items[k].token), 0, 0, 0 >>
           /\ ItemAt(tree, k) + 4 <= Len(blob) /\ Byte(ItemAt(tree, k)) = 0
<1> DEFINE items == tree.items
           at == ItemAt(tree, k)
           t == TokenNumber(items[k].token)
<1>1. items \in Seq(ItemSet) /\ k \in 1 .. Len(items)
  BY TreeTypes
<1>2. items[k].token \in Token /\ IsBytes(items[k].name, Len(items[k].name))
      /\ IsBytes(items[k].value, Len(items[k].value))
  BY <1>1, ItemTypes
<1>3. at \in Nat /\ Stored(blob, at, ItemBytes(items, k)) /\ Len(blob) \in Nat
  BY ItemAtIs, BlobIs
<1>4. t \in 0 .. 255
  <2>1. t \in {1, 2, 3, 4}
    BY <1>2 DEF TokenNumber, Token
  <2> HIDE DEF t
  <2> QED BY <2>1
<1>5. Stored(blob, at, BigEndian(t))
  <2>1. CASE items[k].token = "begin"
    <3> DEFINE x == Padded(items[k].name \o << 0 >>, 4)
               n == Len(items[k].name) + 1
    <3>1. IsBytes(x, n + Pad(n))
      <4>1. IsBytes(items[k].name \o << 0 >>, n)
        BY <1>2, OneByte, BytesJoined
      <4> QED BY <4>1, PaddedIs
    <3>2. ItemBytes(items, k) = BigEndian(1) \o x /\ t = 1
      BY <2>1 DEF ItemBytes, TokenNumber
    <3> HIDE DEF x, n, at
    <3> QED BY <1>3, <3>1, <3>2, BigEndianType, BytesParted
  <2>2. CASE items[k].token = "prop"
    <3> DEFINE x == BigEndian(Len(items[k].value))
               y == BigEndian(Len(StringsBefore(items, k)))
               z == Padded(items[k].value, 4)
               v == Len(items[k].value)
    <3>1. IsBytes(x, 4) /\ IsBytes(y, 4) /\ IsBytes(z, v + Pad(v))
      <4>1. v \in Nat
        BY <1>2 DEF IsBytes
      <4>2. Len(StringsBefore(items, k)) \in Nat
        <5>1. k \in 1 .. Len(items) + 1
          BY <1>1
        <5> QED BY <1>1, <5>1, StringsBeforeIs DEF IsBytes
      <4> QED BY <1>2, <4>1, <4>2, BigEndianType, PaddedIs
    <3>2. ItemBytes(items, k) = ((BigEndian(3) \o x) \o y) \o z /\ t = 3
      BY <2>2 DEF ItemBytes, TokenNumber
    <3> HIDE DEF x, y, z, v, at
    <3>3. IsBytes(BigEndian(3), 4) /\ IsBytes(BigEndian(3) \o x, 4 + 4)
          /\ IsBytes((BigEndian(3) \o x) \o y, 4 + 4 + 4)
      BY <3>1, BigEndianType, BytesJoined
    <3>4. Stored(blob, at, (BigEndian(3) \o x) \o y)
      BY <1>3, <3>1, <3>2, <3>3, BytesParted
    <3>5. Stored(blob, at, BigEndian(3) \o x)
      BY <1>3, <3>1, <3>3, <3>4, BytesParted
    <3> QED BY <1>3, <3>1, <3>2, <3>3, <3>5, BytesParted
  <2>3. CASE items[k].token = "end"
    <3>1. ItemBytes(items, k) = BigEndian(2) /\ t = 2
      BY <2>3 DEF ItemBytes, TokenNumber
    <3> QED BY <1>3, <3>1
  <2>4. CASE items[k].token = "nop"
    <3>1. ItemBytes(items, k) = BigEndian(4) /\ t = 4
      BY <2>4 DEF ItemBytes, TokenNumber
    <3> QED BY <1>3, <3>1
  <2> QED BY <1>2, <2>1, <2>2, <2>3, <2>4 DEF Token
<1> HIDE DEF at, t
<1>6. UInt32At(at) = << t, 0, 0, 0 >> /\ at + 4 <= Len(blob) /\ Byte(at) = 0
  BY <1>3, <1>4, <1>5, TokenAt
<1> QED BY <1>6 DEF at, t

-----------------------------------------------------------------------------
(***************************************************************************)
(* The depth of the items, and the names of nodes and properties.          *)
(***************************************************************************)
WithToken(items, k, token) == {j \in 1 .. k : items[j].token = token}

LEMMA WithTokenStep ==
    ASSUME NEW items, NEW k \in Nat, NEW token
    PROVE  /\ IsFiniteSet(WithToken(items, k, token)) /\ Cardinality(WithToken(items, k, token)) \in Nat
           /\ Cardinality(WithToken(items, k + 1, token))
                = Cardinality(WithToken(items, k, token)) + (IF items[k + 1].token = token THEN 1 ELSE 0)
           /\ k = 0 => Cardinality(WithToken(items, k, token)) = 0
<1> DEFINE S == WithToken(items, k, token)
           T == WithToken(items, k + 1, token)
<1>1. IsFiniteSet(S)
  <2>1. IsFiniteSet(1 .. k)
    BY FS_Interval
  <2>2. S \subseteq 1 .. k
    BY DEF WithToken
  <2> QED BY <2>1, <2>2, FS_Subset
<1>2. Cardinality(S) \in Nat
  BY <1>1, FS_CardinalityType
<1>0. k = 0 => Cardinality(S) = 0
  <2>1. k = 0 => S = {}
    BY DEF WithToken
  <2>2. Cardinality({}) = 0
    BY FS_EmptySet
  <2> HIDE DEF S
  <2> QED BY <2>1, <2>2
<1>3. CASE items[k + 1].token = token
  <2>1. T = S \union {k + 1} /\ k + 1 \notin S
    BY <1>3 DEF WithToken
  <2> HIDE DEF S, T
  <2>2. Cardinality(T) = Cardinality(S) + 1
    BY <1>1, <2>1, FS_AddElement
  <2> QED BY <1>0, <1>1, <1>2, <1>3, <2>2 DEF S, T
<1>4. CASE items[k + 1].token # token
  <2>1. T = S
    BY <1>4 DEF WithToken
  <2> HIDE DEF S, T
  <2>2. Cardinality(T) = Cardinality(S) + 0
    BY <1>2, <2>1
  <2> QED BY <1>0, <1>1, <1>2, <1>4, <2>2 DEF S, T
<1> QED BY <1>3, <1>4

LEMMA DepthStep ==
    ASSUME NEW items, NEW k \in Nat
    PROVE  /\ Depth(items, k) \in Int
           /\ Depth(items, k + 1) = Depth(items, k) + (CASE items[k + 1].token = "begin" -> 1
                                                          [] items[k + 1].token = "end" -> -1
                                                          [] OTHER -> 0)
           /\ Depth(items, 0) = 0
<1> DEFINE b(n) == Cardinality(WithToken(items, n, "begin"))
           e(n) == Cardinality(WithToken(items, n, "end"))
<1>1. \A n \in Nat : Depth(items, n) = b(n) - e(n)
  BY DEF Depth, WithToken
<1>2. /\ \A n \in Nat : b(n) \in Nat /\ b(n + 1) = b(n) + (IF items[n + 1].token = "begin" THEN 1 ELSE 0)
      /\ \A n \in Nat : e(n) \in Nat /\ e(n + 1) = e(n) + (IF items[n + 1].token = "end" THEN 1 ELSE 0)
      /\ b(0) = 0 /\ e(0) = 0
  BY WithTokenStep
<1> HIDE DEF b, e
<1>3. k + 1 \in Nat /\ 0 \in Nat
  OBVIOUS
<1>4. Depth(items, k) = b(k) - e(k) /\ Depth(items, k + 1) = b(k + 1) - e(k + 1) /\ Depth(items, 0) = b(0) - e(0)
  BY <1>1, <1>3
<1>5. b(k) \in Nat /\ e(k) \in Nat
  BY <1>2
<1>6. CASE items[k + 1].token = "begin"
  BY <1>2, <1>4, <1>5, <1>6
<1>7. CASE items[k + 1].token = "end"
  BY <1>2, <1>4, <1>5, <1>7
<1>8. CASE items[k + 1].token \notin {"begin", "end"}
  BY <1>2, <1>4, <1>5, <1>8
<1> QED BY <1>6, <1>7, <1>8

LEMMA LastIsEnd ==
    ASSUME NEW tree, IsFlattened(tree)
    PROVE  tree.items[Len(tree.items)].token = "end" /\ Len(tree.items) > 1
<1> DEFINE items == tree.items
           N == Len(items)
<1>1. N \in Nat /\ N > 1 /\ Depth(items, N) = 0 /\ \A k \in 1 .. N - 1 : Depth(items, k) > 0
  BY TreeTypes DEF IsFlattened, IsTree
<1>2. N - 1 \in Nat /\ N - 1 \in 1 .. N - 1 /\ (N - 1) + 1 = N
  BY <1>1
<1>3. Depth(items, N - 1) > 0
  BY <1>1, <1>2
<1>4. /\ Depth(items, N - 1) \in Int
      /\ Depth(items, (N - 1) + 1) = Depth(items, N - 1) + (CASE items[(N - 1) + 1].token = "begin" -> 1
                                                          [] items[(N - 1) + 1].token = "end" -> -1
                                                          [] OTHER -> 0)
  BY <1>2, DepthStep
<1> HIDE DEF items, N
<1>5. 0 = Depth(items, N - 1) + (CASE items[N].token = "begin" -> 1
                                   [] items[N].token = "end" -> -1
                                   [] OTHER -> 0)
  BY <1>1, <1>2, <1>4
<1>6. items[N].token = "end"
  BY <1>3, <1>4, <1>5
<1> QED BY <1>1, <1>6 DEF items, N

(***************************************************************************)
(* What the walk reads of an item.                                         *)
(***************************************************************************)
LEMMA BeginAt ==
    ASSUME NEW tree, IsFlattened(tree), blob = Blob(tree), NEW k \in 1 .. Len(tree.items),
           tree.items[k].token = "begin",
           NEW at, at = ItemAt(tree, k) + 4
    PROVE  /\ StringAt(at) = tree.items[k].name
           /\ AlignPointer(at + StrLen(at) + 1, 4) = ItemAt(tree, k + 1)
           /\ StringBytes(at) \subseteq 0 .. Len(blob) - 1
<1> DEFINE items == tree.items
           p == ItemAt(tree, k)
           name == items[k].name
           l == Len(name) + 1
<1>1. items \in Seq(ItemSet) /\ k \in 1 .. Len(items)
  BY TreeTypes
<1>2. IsBytes(name, Len(name)) /\ \A i \in 1 .. Len(name) : name[i] # 0
  BY <1>1, ItemTypes
<1>3. p \in Nat /\ p % 4 = 0 /\ Stored(blob, p, ItemBytes(items, k)) /\ Len(blob) \in Nat
      /\ ItemAt(tree, k + 1) = p + ItemLength(items[k])
  BY ItemAtIs, BlobIs
<1>4. l \in Nat /\ IsBytes(name \o << 0 >>, l)
  BY <1>2, OneByte, BytesJoined DEF IsBytes
<1>5. /\ Padded(name \o << 0 >>, 4) = (name \o << 0 >>) \o Zeros(Pad(l))
      /\ IsBytes(Padded(name \o << 0 >>, 4), l + Pad(l))
  BY <1>4, PaddedIs
<1>6. IsBytes(Zeros(Pad(l)), Pad(l))
  <2>1. Pad(l) \in 0 .. 3
    BY <1>4, PadIs
  <2>2. Pad(l) \in Nat
    BY <2>1
  <2> HIDE DEF l
  <2> QED BY <2>2, ZerosAre
<1>7. ItemBytes(items, k) = BigEndian(1) \o Padded(name \o << 0 >>, 4)
  BY DEF ItemBytes
<1>8. ItemLength(items[k]) = 4 + (l + Pad(l))
  BY DEF ItemLength
<1> HIDE DEF p, l, name
<1>9. IsBytes(BigEndian(1), 4)
  BY BigEndianType
<1>10. Stored(blob, p + 4, (name \o << 0 >>) \o Zeros(Pad(l)))
  <2> DEFINE x == (name \o << 0 >>) \o Zeros(Pad(l))
             n == l + Pad(l)
  <2>1. IsBytes(x, n) /\ ItemBytes(items, k) = BigEndian(1) \o x
    BY <1>5, <1>7
  <2> HIDE DEF x, n
  <2>3. p \in Nat /\ Len(blob) \in Nat /\ Stored(blob, p, BigEndian(1) \o x)
    BY <1>3, <2>1
  <2>2. Stored(blob, p + 4, x)
    BY <1>9, <2>1, <2>3, BytesParted
  <2> QED BY <2>2 DEF x
<1>11. at = p + 4 /\ at \in Nat /\ at % 4 = 0
  BY <1>3 DEF p
<1>12. Stored(blob, at, name \o << 0 >>)
  BY <1>3, <1>4, <1>6, <1>10, <1>11, BytesParted
<1>13. StrLen(at) = Len(name) /\ StringAt(at) = name /\ StringBytes(at) \subseteq 0 .. Len(blob) - 1
  BY <1>2, <1>3, <1>11, <1>12, TextAt
<1>14. Len(name) \in Nat /\ l = Len(name) + 1
  BY <1>2 DEF IsBytes, l
<1>15. at + StrLen(at) + 1 = at + l
  <2>1. at + Len(name) + 1 = at + (Len(name) + 1)
    BY <1>11, <1>14
  <2> QED BY <1>13, <1>14, <2>1
<1>16. AlignPointer(at + l, 4) = at + l + Pad(l)
  BY <1>4, <1>11, AlignIs
<1>17. Pad(l) \in 0 .. 3
  BY <1>4, PadIs
<1>18. at + l + Pad(l) = ItemAt(tree, k + 1)
  <2> DEFINE d == Pad(l)
  <2>1. d \in Nat
    BY <1>17
  <2> HIDE DEF d
  <2>2. (p + 4) + l + d = p + (4 + (l + d))
    BY <1>3, <1>4, <2>1
  <2> QED BY <1>3, <1>8, <1>11, <2>2 DEF d
<1> QED BY <1>13, <1>15, <1>16, <1>18 DEF name

LEMMA StringsBeforeAt ==
    ASSUME NEW tree, IsFlattened(tree), blob = Blob(tree), NEW k \in 1 .. Len(tree.items),
           tree.items[k].token = "prop",
           NEW at, at = TokensEnd(tree) + Len(StringsBefore(tree.items, k))
    PROVE  /\ Len(StringsBefore(tree.items, k)) \in Number
           /\ StringAt(at) = tree.items[k].name
           /\ StringBytes(at) \subseteq 0 .. Len(blob) - 1
<1> DEFINE items == tree.items
           N == Len(items)
           J(n) == Joined(NamePart(items), n)
           s == TokensEnd(tree)
           name == items[k].name
<1>1. items \in Seq(ItemSet) /\ N \in Nat
  BY TreeTypes
<1>2. s \in Nat
  BY LayoutIs
<1>3. Len(blob) \in Nat /\ Stored(blob, s, J(N))
  BY BlobIs
<1>4. \A j \in 1 .. N : NamePart(items)[j] \in Seq(Nat)
  BY <1>1, NamePartType
<1>5. \A n \in 0 .. N : /\ Len(J(n)) \in Nat /\ Stored(blob, s, J(n))
                        /\ n < N => Stored(blob, s + Len(J(n)), NamePart(items)[n + 1])
  BY <1>1, <1>2, <1>3, <1>4, StoredJoined
<1>6. k - 1 \in 0 .. N /\ k - 1 < N /\ (k - 1) + 1 = k /\ k \in 1 .. N + 1
  BY <1>1
<1>7. /\ Len(J(k - 1)) \in Nat /\ Stored(blob, s, J(k - 1))
      /\ Stored(blob, s + Len(J(k - 1)), NamePart(items)[k])
  <2> HIDE DEF J, s, N
  <2>1. Stored(blob, s + Len(J(k - 1)), NamePart(items)[(k - 1) + 1])
    BY <1>5, <1>6
  <2> QED BY <1>5, <1>6, <2>1
<1>8. StringsBefore(items, k) = J(k - 1)
  BY <1>1, <1>6, StringsBeforeIs
<1>9. NamePart(items)[k] = name \o << 0 >>
  BY DEF NamePart
<1>10. IsBytes(name, Len(name)) /\ \A i \in 1 .. Len(name) : name[i] # 0
  BY <1>1, ItemTypes
<1>11. at = s + Len(J(k - 1)) /\ at \in Nat
  BY <1>2, <1>7, <1>8
<1> HIDE DEF s, name, J
<1>12. StringAt(at) = name /\ StringBytes(at) \subseteq 0 .. Len(blob) - 1
  BY <1>3, <1>7, <1>9, <1>10, <1>11, TextAt
<1>13. Len(J(k - 1)) \in Number
  <2>1. Len(blob) \in Number
    <3>1. Layout(tree).totalsize \in Number
      BY DEF IsFlattened
    <3>2. Len(blob) = Layout(tree).totalsize
      BY BlobIs, LayoutIs, ZenonT(60)
    <3> QED BY <3>1, <3>2
  <2>2. s + Len(J(k - 1)) <= Len(blob)
    BY <1>7 DEF Stored
  <2>3. Len(J(k - 1)) <= Len(blob)
    BY <1>2, <1>3, <1>7, <2>2
  <2> QED BY <1>3, <1>7, <2>1, <2>3, SMT DEF Number
<1> QED BY <1>8, <1>12, <1>13 DEF name

-----------------------------------------------------------------------------
(***************************************************************************)
(* What the walk reads of a property.                                      *)
(***************************************************************************)
LEMMA PropParts ==
    ASSUME NEW tree, IsFlattened(tree), blob = Blob(tree), NEW k \in 1 .. Len(tree.items),
           tree.items[k].token = "prop",
           NEW p, p = ItemAt(tree, k), NEW v, v = tree.items[k].value,
           NEW n, n = Len(v)
    PROVE  /\ p \in Nat /\ p % 4 = 0 /\ n \in Nat
           /\ Stored(blob, p + 4, BigEndian(n))
           /\ Stored(blob, p + 8, BigEndian(Len(StringsBefore(tree.items, k))))
           /\ Stored(blob, p + 12, v)
           /\ Stored(blob, p + 12 + n, Zeros(Pad(n)))
           /\ ItemAt(tree, k + 1) = p + 12 + n + Pad(n)
           /\ AlignPointer(p + 12 + n, 4) = ItemAt(tree, k + 1)
<1> DEFINE items == tree.items
           x == BigEndian(n)
           y == BigEndian(Len(StringsBefore(items, k)))
           z == Zeros(Pad(n))
<1>1. items \in Seq(ItemSet) /\ k \in 1 .. Len(items)
  BY TreeTypes
<1>2. IsBytes(v, n)
  BY <1>1, ItemTypes
<1>3. n \in Nat
  BY <1>2 DEF IsBytes
<1>4. p \in Nat /\ p % 4 = 0 /\ Stored(blob, p, ItemBytes(items, k))
      /\ ItemAt(tree, k + 1) = p + ItemLength(items[k])
  BY ItemAtIs
<1>5. Len(blob) \in Nat
  BY BlobIs
<1>6. ItemLength(items[k]) = 12 + (n + Pad(n))
  BY DEF ItemLength
<1>7. Padded(v, 4) = v \o z /\ IsBytes(Padded(v, 4), n + Pad(n))
  BY <1>2, PaddedIs
<1>8. Pad(n) \in Nat
  <2>1. Pad(n) \in 0 .. 3
    BY <1>3, PadIs
  <2> QED BY <2>1
<1>9. IsBytes(x, 4) /\ IsBytes(y, 4) /\ IsBytes(z, Pad(n))
  <2>1. Len(StringsBefore(items, k)) \in Nat
    <3>1. k \in 1 .. Len(items) + 1
      BY <1>1, SMTT(30)
    <3> QED BY <1>1, <3>1, StringsBeforeIs DEF IsBytes
  <2> QED BY <1>3, <1>8, <2>1, BigEndianType, ZerosAre
<1>10. ItemBytes(items, k) = ((BigEndian(3) \o x) \o y) \o (v \o z)
  BY <1>7 DEF ItemBytes
<1> DEFINE a == BigEndian(3)
           b == a \o x
           c == b \o y
           w == v \o z
           d == Pad(n)
<1>11. ItemBytes(items, k) = c \o w /\ c = b \o y /\ b = a \o x /\ w = v \o z /\ IsBytes(w, n + d)
  BY <1>7, <1>10
<1>12. IsBytes(a, 4) /\ IsBytes(b, 4 + 4) /\ IsBytes(c, 4 + 4 + 4)
  BY <1>9, BigEndianType, BytesJoined
<1> HIDE DEF a, b, c, w, x, y, z, d
<1>13. Stored(blob, p, c) /\ Stored(blob, p + (4 + 4 + 4), w)
  BY <1>4, <1>5, <1>11, <1>12, BytesParted
<1>14. Stored(blob, p, b) /\ Stored(blob, p + (4 + 4), y)
  BY <1>4, <1>5, <1>9, <1>11, <1>12, <1>13, BytesParted
<1>15. Stored(blob, p + 4, x)
  BY <1>4, <1>5, <1>9, <1>11, <1>12, <1>14, BytesParted
<1>16. p + (4 + 4 + 4) = p + 12 /\ p + (4 + 4) = p + 8 /\ p + 12 \in Nat
  BY <1>4
<1>17. Stored(blob, p + 12, v) /\ Stored(blob, p + 12 + n, z)
  BY <1>2, <1>5, <1>9, <1>11, <1>13, <1>16, BytesParted DEF d
<1>18. p + (12 + (n + d)) = p + 12 + n + d
  BY <1>3, <1>4, <1>8, SMTT(30) DEF d
<1>19. AlignPointer(p + 12 + n, 4) = p + 12 + n + Pad(n)
  <2>1. p + 12 \in Nat /\ (p + 12) % 4 = 0
    BY <1>4
  <2> QED BY <1>3, <2>1, AlignIs
<1> QED BY <1>3, <1>4, <1>6, <1>14, <1>15, <1>16, <1>17, <1>18, <1>19 DEF x, y, z, d

LEMMA PropAt ==
    ASSUME NEW tree, IsFlattened(tree), blob = Blob(tree), NEW k \in 1 .. Len(tree.items),
           tree.items[k].token = "prop",
           NEW p, p = ItemAt(tree, k), NEW v, v = tree.items[k].value,
           NEW n, n = Len(v)
    PROVE  /\ NumberOf(UInt32At(p + 4)) = n
           /\ NumberOf(UInt32At(p + 8)) = Len(StringsBefore(tree.items, k))
           /\ p + 12 + n < Len(blob) /\ Byte(p + 12 + n) = 0
<1> DEFINE items == tree.items
           m == Len(StringsBefore(items, k))
           d == Pad(n)
<1>1. /\ p \in Nat /\ n \in Nat
      /\ Stored(blob, p + 4, BigEndian(n)) /\ Stored(blob, p + 8, BigEndian(m))
      /\ Stored(blob, p + 12, v) /\ Stored(blob, p + 12 + n, Zeros(d))
      /\ ItemAt(tree, k + 1) = p + 12 + n + d
  BY PropParts, SMTT(30)
<1>2. Len(blob) \in Nat /\ Len(blob) \in Number
  <2>1. Layout(tree).totalsize \in Number
    BY DEF IsFlattened
  <2> QED BY <2>1, BlobIs, LayoutIs, SMTT(30)
<1>3. m \in Number
  BY StringsBeforeAt
<1>4. k + 1 \in 1 .. Len(items)
  <2>1. items[Len(items)].token = "end" /\ Len(items) \in Nat
    BY LastIsEnd, TreeTypes
  <2>2. k # Len(items)
    BY <2>1
  <2> QED BY <2>1, <2>2
<1>5. ItemAt(tree, k + 1) + 4 <= Len(blob) /\ Byte(ItemAt(tree, k + 1)) = 0
  BY <1>4, ItemTokenAt
<1>6. d \in 0 .. 3
  BY <1>1, PadIs
<1> HIDE DEF items, m, d
<1>7. p + 12 + n < Len(blob) /\ p + 12 + n \in Nat
  <2>1. d \in Nat
    BY <1>6
  <2>2. p + 12 + n + d + 4 <= Len(blob)
    BY <1>1, <1>5
  <2>3. p \in Nat /\ n \in Nat /\ Len(blob) \in Nat
    BY <1>1, <1>2
  <2>4. \A i, j, e, l \in Nat : i + 12 + j + e + 4 <= l => i + 12 + j < l /\ i + 12 + j \in Nat
    OBVIOUS
  <2> QED BY <2>1, <2>2, <2>3, <2>4
<1>8. Byte(p + 12 + n) = 0
  <2>1. CASE d = 0
    <3>1. ItemAt(tree, k + 1) = p + 12 + n
      <4>1. \A i, j \in Nat : i + 12 + j + 0 = i + 12 + j
        OBVIOUS
      <4>2. p \in Nat /\ n \in Nat /\ ItemAt(tree, k + 1) = p + 12 + n + 0
        BY <1>1, <2>1
      <4> QED BY <4>1, <4>2
    <3> QED BY <1>5, <3>1
  <2>2. CASE d # 0
    <3>1. d \in Nat /\ 0 \in 0 .. d - 1 /\ 1 \in 1 .. d
      BY <1>6, <2>2
    <3>2. IsBytes(Zeros(d), d) /\ Zeros(d)[1] = 0
      BY <3>1, ZerosAre
    <3>3. \A j \in 0 .. d - 1 : Byte(p + 12 + n + j) = Zeros(d)[j + 1]
      BY <1>1, <1>2, <1>7, <3>2, ByteStored, SMTT(30)
    <3>4. Byte(p + 12 + n + 0) = Zeros(d)[0 + 1]
      BY <3>1, <3>3
    <3> QED BY <1>7, <3>2, <3>4
  <2> QED BY <2>1, <2>2
<1>9. n \in Number
  <2>1. p \in Nat /\ n \in Nat /\ Len(blob) \in Nat /\ p + 12 + n < Len(blob)
    BY <1>1, <1>2, <1>7
  <2>2. n <= Len(blob)
    BY <2>1
  <2> QED BY <1>1, <1>2, <2>2, SMTT(30) DEF Number
<1>10. p + 4 \in Nat /\ p + 8 \in Nat
  BY <1>1, SMTT(30)
<1>11. NumberOf(UInt32At(p + 4)) = n /\ NumberOf(UInt32At(p + 8)) = m
  BY <1>1, <1>2, <1>3, <1>9, <1>10, NumberAt
<1> QED BY <1>7, <1>8, <1>11 DEF m, items

-----------------------------------------------------------------------------
(***************************************************************************)
(* Where the strings of a value end.                                       *)
(***************************************************************************)
LEMMA EndsAre ==
    ASSUME NEW v \in Seq(Octet), v # << >>
    PROVE  /\ Len(v) \in Nat \ {0}
           /\ Ends(v) \subseteq 1 .. Len(v) /\ Len(v) \in Ends(v)
           /\ \A k \in 1 .. Len(v) : v[k] = 0 => k \in Ends(v)
           /\ \A k \in Ends(v) : v[k] = 0 \/ k = Len(v)
           /\ IsFiniteSet(Ends(v)) /\ Cardinality(Ends(v)) \in Nat
<1>1. Len(v) \in Nat \ {0} /\ DOMAIN v = 1 .. Len(v)
  OBVIOUS
<1>2. Len(v) \in 1 .. Len(v)
  BY <1>1
<1>3. /\ Ends(v) \subseteq 1 .. Len(v) /\ Len(v) \in Ends(v)
      /\ \A k \in 1 .. Len(v) : v[k] = 0 => k \in Ends(v)
      /\ \A k \in Ends(v) : v[k] = 0 \/ k = Len(v)
  BY <1>1, <1>2, ZenonT(60) DEF Ends
<1>4. IsFiniteSet(1 .. Len(v))
  <2>1. 1 \in Int /\ Len(v) \in Int
    BY <1>1
  <2> QED BY <2>1, FS_Interval
<1>5. IsFiniteSet(Ends(v))
  BY <1>3, <1>4, FS_Subset
<1>6. Cardinality(Ends(v)) \in Nat
  BY <1>5, FS_CardinalityType
<1> QED BY <1>1, <1>3, <1>5, <1>6

Count(v, k) == Cardinality(EndsUpTo(v, k))

LEMMA CountIs ==
    ASSUME NEW v \in Seq(Octet), v # << >>
    PROVE  /\ \A k \in Nat : IsFiniteSet(EndsUpTo(v, k)) /\ Count(v, k) \in Nat
           /\ Count(v, 0) = 0
           /\ Count(v, Len(v)) = Cardinality(Ends(v))
<1>1. /\ Len(v) \in Nat \ {0} /\ Ends(v) \subseteq 1 .. Len(v) /\ IsFiniteSet(Ends(v))
  BY EndsAre
<1>2. ASSUME NEW k \in Nat PROVE IsFiniteSet(EndsUpTo(v, k)) /\ Count(v, k) \in Nat
  <2>1. EndsUpTo(v, k) \subseteq Ends(v)
    BY DEF EndsUpTo
  <2>2. IsFiniteSet(EndsUpTo(v, k))
    BY <1>1, <2>1, FS_Subset
  <2> QED BY <2>2, FS_CardinalityType DEF Count
<1>3. EndsUpTo(v, 0) = {}
  BY <1>1 DEF EndsUpTo
<1>4. EndsUpTo(v, Len(v)) = Ends(v)
  BY <1>1 DEF EndsUpTo
<1>5. Cardinality({}) = 0
  BY FS_EmptySet
<1> QED BY <1>2, <1>3, <1>4, <1>5 DEF Count

LEMMA NextEnd ==
    ASSUME NEW v \in Seq(Octet), v # << >>, NEW k \in 0 .. Len(v) - 1
    PROVE  \E e \in Ends(v) : /\ k < e /\ Count(v, e) = Count(v, k) + 1
                              /\ \A j \in Ends(v) : k < j => e <= j
<1>1. /\ Len(v) \in Nat \ {0} /\ Ends(v) \subseteq 1 .. Len(v) /\ Len(v) \in Ends(v)
  BY EndsAre
<1> DEFINE T == {j \in Ends(v) : k < j}
<1>2. PICK e \in T : \A j \in T : e <= j
  <2>1. T \subseteq Nat /\ Len(v) \in T
    BY <1>1
  <2> HIDE DEF T
  <2> QED BY <2>1, LeastNumber
<1>3. e \in Ends(v) /\ k < e /\ e \in Nat /\ k \in Nat /\ \A j \in Ends(v) : k < j => e <= j
  BY <1>1, <1>2
<1>4. EndsUpTo(v, e) = EndsUpTo(v, k) \union {e} /\ e \notin EndsUpTo(v, k)
  <2>1. \A j \in Ends(v) : j \in Nat
    BY <1>1
  <2>2. \A j \in Ends(v) : j <= e <=> j <= k \/ j = e
    BY <1>3, <2>1
  <2>3. EndsUpTo(v, e) = EndsUpTo(v, k) \union {e}
    BY <1>3, <2>2 DEF EndsUpTo
  <2> QED BY <1>3, <2>3 DEF EndsUpTo
<1>5. IsFiniteSet(EndsUpTo(v, k)) /\ Count(v, k) \in Nat
  BY <1>3, CountIs
<1>6. Count(v, e) = Count(v, k) + 1
  BY <1>4, <1>5, FS_AddElement DEF Count
<1> QED BY <1>3, <1>6

LEMMA CountOrder ==
    ASSUME NEW v \in Seq(Octet), v # << >>, NEW e \in Ends(v), NEW k \in Nat, k < e
    PROVE  Count(v, k) < Count(v, e)
<1>1. e \in Nat
  BY EndsAre
<1>2. /\ IsFiniteSet(EndsUpTo(v, k)) /\ Count(v, k) \in Nat
      /\ IsFiniteSet(EndsUpTo(v, e)) /\ Count(v, e) \in Nat
  BY <1>1, CountIs
<1>3. EndsUpTo(v, k) \subseteq EndsUpTo(v, e) /\ e \in EndsUpTo(v, e) /\ e \notin EndsUpTo(v, k)
  <2>1. \A j \in Ends(v) : j \in Nat
    BY EndsAre
  <2>2. \A j \in Ends(v) : j <= k => j <= e
    BY <1>1, <2>1
  <2>3. e <= e /\ ~(e <= k)
    BY <1>1
  <2> QED BY <2>2, <2>3 DEF EndsUpTo
<1>4. /\ Cardinality(EndsUpTo(v, k)) <= Cardinality(EndsUpTo(v, e))
      /\ Cardinality(EndsUpTo(v, e)) = Cardinality(EndsUpTo(v, k)) => EndsUpTo(v, e) = EndsUpTo(v, k)
  BY <1>2, <1>3, FS_Subset
<1>5. Count(v, k) # Count(v, e)
  BY <1>3, <1>4 DEF Count
<1> QED BY <1>2, <1>4, <1>5 DEF Count

LEMMA EndOfIs ==
    ASSUME NEW v \in Seq(Octet), v # << >>, NEW e \in Ends(v)
    PROVE  EndOf(v, Count(v, e)) = e
<1>1. \A k \in Ends(v) : k \in Nat
  BY EndsAre
<1>2. ASSUME NEW k \in Ends(v), Count(v, k) = Count(v, e) PROVE k = e
  <2>1. k \in Nat /\ e \in Nat
    BY <1>1
  <2>2. Count(v, k) \in Nat /\ Count(v, e) \in Nat
    BY <2>1, CountIs
  <2>3. ~(k < e)
    BY <1>2, <2>1, <2>2, CountOrder
  <2>4. ~(e < k)
    BY <1>2, <2>1, <2>2, CountOrder
  <2> QED BY <2>1, <2>3, <2>4
<1>3. EndOf(v, Count(v, e)) = CHOOSE k \in Ends(v) : Count(v, k) = Count(v, e)
  BY DEF EndOf, Count
<1> QED BY <1>2, <1>3

\* Where string i ends; the first begins behind 0.
StringEnd(v, i) == IF i = 0 THEN 0 ELSE EndOf(v, i)

LEMMA StringEnds ==
    ASSUME NEW v \in Seq(Octet), v # << >>
    PROVE  /\ Cardinality(Ends(v)) \in Nat \ {0}
           /\ StringEnd(v, 0) = 0 /\ StringEnd(v, Cardinality(Ends(v))) = Len(v)
           /\ \A i \in 0 .. Cardinality(Ends(v)) - 1 :
                /\ StringEnd(v, i) \in 0 .. Len(v) - 1
                /\ StringEnd(v, i + 1) \in Ends(v) /\ StringEnd(v, i) < StringEnd(v, i + 1)
                /\ \A j \in Ends(v) : StringEnd(v, i) < j => StringEnd(v, i + 1) <= j
<1> DEFINE N == Cardinality(Ends(v))
           n == Len(v)
           E(i) == StringEnd(v, i)
<1>1. /\ n \in Nat \ {0} /\ Ends(v) \subseteq 1 .. n /\ n \in Ends(v) /\ N \in Nat
  BY EndsAre
<1>2. Count(v, n) = N /\ Count(v, 0) = 0
  BY CountIs
<1>3. N \in Nat \ {0}
  <2>1. Count(v, 0) < Count(v, n)
    BY <1>1, CountOrder
  <2> QED BY <1>1, <1>2, <2>1
<1>4. E(0) = 0
  BY DEF StringEnd
<1>5. \A e \in Ends(v) : Count(v, e) # 0 => E(Count(v, e)) = e
  BY EndOfIs DEF StringEnd
<1>6. E(N) = n
  BY <1>1, <1>2, <1>3, <1>5
<1> HIDE DEF N, n, E
<1> DEFINE Good(i) == E(i) \in 0 .. n /\ Count(v, E(i)) = i
<1>7. Good(0)
  BY <1>1, <1>2, <1>4
<1>8. ASSUME NEW i \in 0 .. N - 1, Good(i)
      PROVE  /\ E(i) \in 0 .. n - 1 /\ E(i + 1) \in Ends(v) /\ E(i) < E(i + 1)
             /\ \A j \in Ends(v) : E(i) < j => E(i + 1) <= j
             /\ Good(i + 1)
  <2>1. E(i) # n
    BY <1>2, <1>8
  <2>2. E(i) \in 0 .. n - 1
    BY <1>1, <1>8, <2>1
  <2>3. PICK e \in Ends(v) : /\ E(i) < e /\ Count(v, e) = Count(v, E(i)) + 1
                             /\ \A j \in Ends(v) : E(i) < j => e <= j
    BY <2>2, NextEnd DEF n
  <2>4. Count(v, e) = i + 1 /\ i + 1 # 0
    BY <1>8, <2>3
  <2>5. E(i + 1) = e
    BY <1>5, <2>4
  <2>6. e \in 0 .. n
    BY <1>1
  <2> QED BY <2>2, <2>3, <2>4, <2>5, <2>6
<1> DEFINE T == {i \in 0 .. N : Good(i)}
<1>9. 0 \in T
  BY <1>3, <1>7
<1>10. ASSUME NEW i \in 0 .. N - 1, i \in T PROVE i + 1 \in T
  <2> HIDE DEF Good
  <2>1. i + 1 \in 0 .. N
    BY <1>3
  <2> QED BY <1>8, <1>10, <2>1
<1> HIDE DEF T
<1>11. \A i \in 0 .. N : i \in T
  BY <1>3, <1>9, <1>10, NumberInduction
<1>12. \A i \in 0 .. N - 1 : Good(i)
  <2>1. \A i \in 0 .. N - 1 : i \in 0 .. N
    BY <1>3
  <2> QED BY <1>11, <2>1 DEF T
<1> HIDE DEF Good
<1> QED BY <1>3, <1>4, <1>6, <1>8, <1>12 DEF N, n, E

-----------------------------------------------------------------------------
(***************************************************************************)
(* The recursion of PrettyPrintStringList, for as far as the list is read. *)
(***************************************************************************)
NextOffset(at, cur) == cur + StrLen(at + cur) + 1

Entry(at, len, cur, rest) ==
    IF cur >= len
    THEN Value(IF cur # len THEN "bad list" ELSE "list", << >>, {})
    ELSE Value(rest.says, << StringAt(at + cur) >> \o rest.shows,
               StringBytes(at + cur) \union rest.reads)

Entries(f, at, len, first) ==
    f = [cur \in first .. Len(blob) + 1 |-> Entry(at, len, cur, f[NextOffset(at, cur)])]

LEMMA EntriesExist ==
    ASSUME Len(blob) \in Nat, NEW at \in Nat, NEW len \in Nat,
           \A cur \in 0 .. len - 1 : NextOffset(at, cur) \in cur + 1 .. Len(blob) + 1
    PROVE  \E f : Entries(f, at, len, 0)
<1> DEFINE M == Len(blob) + 1
           T == {d \in 0 .. M + 1 : \E f : Entries(f, at, len, M + 1 - d)}
<1>1. M \in Nat
  OBVIOUS
<1>2. 0 \in T
  <2>1. M + 1 - 0 = M + 1 /\ (M + 1) .. M = {}
    BY <1>1
  <2>2. Entries([cur \in {} |-> 0], at, len, M + 1)
    BY <2>1 DEF Entries
  <2>3. \E f : Entries(f, at, len, M + 1 - 0)
    BY <2>1, <2>2
  <2> HIDE DEF M
  <2> QED BY <1>1, <2>3
<1>3. ASSUME NEW d \in 0 .. (M + 1) - 1, d \in T PROVE d + 1 \in T
  <2> DEFINE m == M + 1 - (d + 1)
  <2>1. m \in 0 .. M /\ M + 1 - d = m + 1
    BY <1>1
  <2>2. PICK g : Entries(g, at, len, m + 1)
    BY <1>3, <2>1
  <2> HIDE DEF m, M
  <2> DEFINE h == [cur \in m .. M |-> IF cur = m THEN Entry(at, len, cur, g[NextOffset(at, cur)])
                                                 ELSE g[cur]]
  <2>3. ASSUME NEW cur \in m .. M
        PROVE  h[cur] = Entry(at, len, cur, h[NextOffset(at, cur)])
    <3> DEFINE n == NextOffset(at, cur)
    <3>1. h[cur] = Entry(at, len, cur, g[n])
      <4>1. CASE cur = m
        BY <4>1
      <4>2. CASE cur # m
        <5>1. cur \in m + 1 .. M
          BY <1>1, <2>1, <4>2
        <5>2. g[cur] = Entry(at, len, cur, g[n])
          BY <2>2, <5>1 DEF Entries, M
        <5> QED BY <4>2, <5>2
      <4> QED BY <4>1, <4>2
    <3>2. CASE cur >= len
      BY <3>1, <3>2 DEF Entry
    <3>3. CASE ~(cur >= len)
      <4>1. cur \in 0 .. len - 1
        BY <1>1, <2>1, <3>3
      <4>2. n \in cur + 1 .. M
        BY <4>1 DEF M
      <4>3. n \in m .. M /\ n # m
        BY <1>1, <2>1, <4>2
      <4> HIDE DEF n
      <4>4. h[n] = g[n]
        BY <4>3
      <4> QED BY <3>1, <4>4 DEF n
    <3> QED BY <3>2, <3>3
  <2>4. h = [cur \in m .. M |-> h[cur]]
    OBVIOUS
  <2> HIDE DEF h
  <2>5. Entries(h, at, len, m)
    BY <2>3, <2>4 DEF Entries, M
  <2>6. d + 1 \in 0 .. M + 1
    BY <1>1
  <2> QED BY <2>5, <2>6 DEF m
<1> HIDE DEF T, M
<1>4. \A d \in 0 .. M + 1 : d \in T
  <2>1. M + 1 \in Nat
    BY <1>1
  <2> QED BY <1>2, <1>3, <2>1, NumberInduction
<1>5. M + 1 \in 0 .. M + 1 /\ M + 1 - (M + 1) = 0
  BY <1>1
<1>6. M + 1 \in T
  BY <1>4, <1>5
<1>7. \E f : Entries(f, at, len, M + 1 - (M + 1))
  BY <1>6 DEF T
<1> QED BY <1>5, <1>7

LEMMA StringListIs ==
    ASSUME Len(blob) \in Nat, NEW at \in Nat, NEW len \in Nat,
           \A cur \in 0 .. len - 1 : NextOffset(at, cur) \in cur + 1 .. Len(blob) + 1
    PROVE  \E f : Entries(f, at, len, 0) /\ PrettyPrintStringList(at, len) = f[0]
<1> DEFINE E(g) == [curOffset \in 0 .. Len(blob) + 1 |->
                      IF curOffset >= len
                      THEN Value(IF curOffset # len THEN "bad list" ELSE "list", << >>, {})
                      ELSE LET rest == g[curOffset + StrLen(at + curOffset) + 1]
                           IN  Value(rest.says, << StringAt(at + curOffset) >> \o rest.shows,
                                     StringBytes(at + curOffset) \union rest.reads)]
<1>1. PrettyPrintStringList(at, len) = (CHOOSE g : g = E(g))[0]
  BY DEF PrettyPrintStringList
<1>2. \A g : g = E(g) <=> Entries(g, at, len, 0)
  BY DEF Entries, Entry, NextOffset
<1>3. PICK h : Entries(h, at, len, 0)
  BY EntriesExist
<1> HIDE DEF E
<1>4. (CHOOSE g : g = E(g)) = E(CHOOSE g : g = E(g))
  BY <1>2, <1>3
<1> QED BY <1>1, <1>2, <1>4

-----------------------------------------------------------------------------
(***************************************************************************)
(* The strings that are read are those of the value.                       *)
(***************************************************************************)
\* A value in the blob, and behind it a zero.
ValueAt(at, v) ==
    /\ Len(blob) \in Nat /\ at \in Nat
    /\ v \in Seq(Octet) /\ v # << >>
    /\ Stored(blob, at, v)
    /\ at + Len(v) < Len(blob) /\ Byte(at + Len(v)) = 0

\* The offset behind string i, with its zero.
Behind(v, i) == IF i = Cardinality(Ends(v)) /\ v[Len(v)] # 0 THEN Len(v) + 1 ELSE StringEnd(v, i)

LEMMA StringInValue ==
    ASSUME NEW at, NEW v, ValueAt(at, v), NEW i \in 0 .. Cardinality(Ends(v)) - 1
    PROVE  /\ StringEnd(v, i) \in 0 .. Len(v) - 1 /\ Behind(v, i) = StringEnd(v, i)
           /\ NextOffset(at, StringEnd(v, i)) = Behind(v, i + 1)
           /\ StrLen(at + StringEnd(v, i)) \in Nat
           /\ StringAt(at + StringEnd(v, i)) = Strings(v)[i + 1]
           /\ StringBytes(at + StringEnd(v, i)) \subseteq 0 .. Len(blob) - 1
           /\ Behind(v, i + 1) \in StringEnd(v, i) + 1 .. Len(v) + 1
<1> DEFINE N == Cardinality(Ends(v))
           n == Len(v)
           a == StringEnd(v, i)
           e == StringEnd(v, i + 1)
           l == IF v[e] = 0 THEN e - 1 - a ELSE e - a
<1>1. /\ n \in Nat \ {0} /\ Ends(v) \subseteq 1 .. n /\ n \in Ends(v)
      /\ \A k \in 1 .. n : v[k] = 0 => k \in Ends(v)
      /\ \A k \in Ends(v) : v[k] = 0 \/ k = n
  BY EndsAre DEF ValueAt
<1>2. /\ N \in Nat \ {0} /\ StringEnd(v, N) = n
      /\ a \in 0 .. n - 1 /\ e \in Ends(v) /\ a < e
      /\ \A j \in Ends(v) : a < j => e <= j
  BY StringEnds DEF ValueAt
<1>3. /\ Len(blob) \in Nat /\ at \in Nat /\ Stored(blob, at, v)
      /\ at + n < Len(blob) /\ Byte(at + n) = 0 /\ IsBytes(v, n)
  <2>1. 0 .. 255 \subseteq Nat /\ v \in Seq(0 .. 255)
    BY DEF ValueAt, Octet
  <2>2. v \in Seq(Nat)
    BY <2>1, Lists!SeqMonotonic
  <2> QED BY <1>1, <2>2 DEF ValueAt, IsBytes
<1>4. i \in Nat /\ i + 1 \in 1 .. N /\ i + 1 # 0 /\ i # N
  BY <1>2
<1>5. \A k \in 0 .. n - 1 : Byte(at + k) = v[k + 1]
  <2> HIDE DEF n
  <2> QED BY <1>3, ByteStored
<1>6. Behind(v, i) = a
  BY <1>4 DEF Behind
<1>7. e = n => i + 1 = N
  <2>1. CASE i + 1 # N
    <3>1. i + 1 \in 0 .. N - 1
      BY <1>2, <1>4, <2>1
    <3>2. e \in 0 .. n - 1
      BY <3>1, StringEnds DEF ValueAt
    <3> QED BY <1>1, <3>2
  <2> QED BY <2>1
<1>8. i + 1 = N => e = n
  BY <1>2
<1>9. Strings(v)[i + 1] = SubSeq(v, a + 1, IF v[e] = 0 THEN e - 1 ELSE e)
  <2>1. i + 1 \in 1 .. Cardinality(Ends(v)) /\ (i + 1) - 1 = i
    BY <1>4
  <2>2. Strings(v)[i + 1] = SubSeq(v, IF i + 1 = 1 THEN 1 ELSE EndOf(v, i) + 1,
                                   IF v[EndOf(v, i + 1)] = 0 THEN EndOf(v, i + 1) - 1 ELSE EndOf(v, i + 1))
    BY <2>1 DEF Strings
  <2>3. e = EndOf(v, i + 1)
    BY <1>4 DEF StringEnd
  <2>4. (IF i + 1 = 1 THEN 1 ELSE EndOf(v, i) + 1) = a + 1
    BY <1>4 DEF StringEnd
  <2> HIDE DEF a, e
  <2> QED BY <2>2, <2>3, <2>4
<1> HIDE DEF N, n, a, e
<1>10. e \in 1 .. n
  BY <1>1, <1>2
<1>11. Behind(v, i + 1) = IF e = n /\ v[e] # 0 THEN n + 1 ELSE e
  BY <1>7, <1>8 DEF Behind, N, n, e
<1>12. l \in 0 .. n - a /\ a + l + 1 = Behind(v, i + 1)
  BY <1>1, <1>2, <1>10, <1>11
<1>13. Byte(at + a + l) = 0
  <2>1. CASE v[e] = 0
    <3>1. e - 1 \in 0 .. n - 1 /\ (e - 1) + 1 = e /\ at + a + l = at + (e - 1)
      BY <1>1, <1>2, <1>3, <1>10, <2>1
    <3> QED BY <1>5, <2>1, <3>1
  <2>2. CASE v[e] # 0
    <3>1. e = n /\ at + a + l = at + n
      BY <1>1, <1>2, <1>3, <1>10, <2>2
    <3> QED BY <1>3, <3>1
  <2> QED BY <2>1, <2>2
<1>14. ASSUME NEW k \in 0 .. l - 1 PROVE Byte(at + a + k) # 0
  <2>1. a + k \in 0 .. n - 1 /\ at + a + k = at + (a + k) /\ (a + k) + 1 \in 1 .. n /\ a < (a + k) + 1
    <3>1. n \in Nat /\ a \in 0 .. n - 1 /\ l \in 0 .. n - a /\ at \in Nat
      BY <1>1, <1>2, <1>3, <1>12
    <3> HIDE DEF l
    <3> QED BY <3>1
  <2>2. (a + k) + 1 < e \/ (a + k + 1 = e /\ v[e] # 0)
    BY <1>2, <1>10, <1>12
  <2>3. v[(a + k) + 1] # 0
    <3>1. CASE (a + k) + 1 < e
      <4>1. ~(e <= (a + k) + 1)
        BY <1>10, <2>1, <3>1
      <4>2. (a + k) + 1 \notin Ends(v)
        BY <1>2, <2>1, <4>1
      <4> QED BY <1>1, <2>1, <4>2
    <3>2. CASE a + k + 1 = e /\ v[e] # 0
      BY <2>1, <3>2
    <3> QED BY <2>2, <3>1, <3>2
  <2> QED BY <1>5, <2>1, <2>3
<1>15. a \in 0 .. n - 1 /\ n \in Nat /\ l \in Nat
  BY <1>1, <1>2, <1>12
<1> HIDE DEF l
<1>16. at + a \in Nat /\ at + a + l < Len(blob) /\ l <= Len(blob)
  BY <1>3, <1>12, <1>15
<1>17. StrLen(at + a) = l
  BY <1>3, <1>13, <1>14, <1>15, <1>16, StrLenIs
<1>18. NextOffset(at, a) = Behind(v, i + 1)
  BY <1>12, <1>17 DEF NextOffset
<1>19. StringBytes(at + a) \subseteq 0 .. Len(blob) - 1
  BY <1>3, <1>15, <1>16, <1>17 DEF StringBytes, Bytes
<1>20. StringAt(at + a) = Strings(v)[i + 1]
  <2> DEFINE q == IF v[e] = 0 THEN e - 1 ELSE e
             x == SubSeq(v, a + 1, q)
  <2>1. q = a + l /\ q \in Int /\ a + 1 \in Int /\ q <= n
    BY <1>10, <1>12, <1>15 DEF l
  <2>2. \A k \in a + 1 .. q : v[k] \in Nat
    <3>1. v \in Seq(Nat) /\ Len(v) = n
      BY <1>3 DEF IsBytes
    <3>2. \A k \in a + 1 .. q : k \in 1 .. Len(v)
      BY <1>15, <2>1, <3>1
    <3> QED BY <3>1, <3>2
  <2> HIDE DEF q
  <2>3. /\ x \in Seq(Nat) /\ Len(x) = (IF a + 1 <= q THEN q - (a + 1) + 1 ELSE 0)
        /\ \A k \in 1 .. q - (a + 1) + 1 : x[k] = v[(a + 1) + k - 1]
    BY <2>1, <2>2, Lists!SubSeqProperties
  <2> HIDE DEF x
  <2>4. Len(x) = l /\ \A k \in 1 .. l : x[k] = v[a + k]
    <3>1. q - (a + 1) + 1 = l
      BY <1>15, <2>1
    <3>2. \A k \in 1 .. l : (a + 1) + k - 1 = a + k
      BY <1>15
    <3>3. Len(x) = l
      BY <1>15, <2>1, <2>3, <3>1
    <3> QED BY <2>3, <3>1, <3>2, <3>3
  <2>5. Stored(blob, at + a, x)
    <3>1. ASSUME NEW k \in 1 .. l PROVE blob[at + a + k] = x[k]
      <4>1. a + k \in 1 .. n /\ at + a + k = at + (a + k)
        BY <1>3, <1>12, <1>15
      <4>2. blob[at + (a + k)] = v[a + k]
        BY <1>3, <4>1 DEF Stored, n
      <4> QED BY <2>4, <4>1, <4>2
    <3>2. at + a + l <= Len(blob)
      BY <1>3, <1>15, <1>16
    <3> QED BY <2>4, <3>1, <3>2 DEF Stored
  <2>6. Load(at + a, Len(x)) = x
    BY <1>3, <1>16, <2>3, <2>5, LoadIs
  <2> QED BY <1>9, <1>17, <2>4, <2>6 DEF StringAt, x, q
<1>21. Behind(v, i + 1) \in a + 1 .. n + 1
  BY <1>12, <1>15
<1> QED BY <1>6, <1>15, <1>17, <1>18, <1>19, <1>20, <1>21 DEF a, n

-----------------------------------------------------------------------------
(***************************************************************************)
(* Lists of strings.                                                       *)
(***************************************************************************)
LEMMA ZeroBehind ==
    ASSUME Len(blob) \in Nat, NEW at \in Nat, NEW n \in Nat, at + n < Len(blob), Byte(at + n) = 0,
           NEW cur \in 0 .. n
    PROVE  StrLen(at + cur) \in 0 .. n - cur
<1> DEFINE T == {k \in 0 .. n - cur : Byte(at + cur + k) = 0}
<1>1. PICK l \in T : \A k \in T : l <= k
  <2>1. at + cur + (n - cur) = at + n /\ n - cur \in 0 .. n - cur
    OBVIOUS
  <2>2. Byte(at + cur + (n - cur)) = 0
    BY <2>1
  <2>3. T \subseteq Nat /\ n - cur \in T
    BY <2>1, <2>2
  <2> HIDE DEF T
  <2> QED BY <2>3, LeastNumber
<1>2. l \in 0 .. n - cur /\ Byte(at + cur + l) = 0 /\ \A k \in T : l <= k
  BY <1>1
<1>3. ASSUME NEW k \in 0 .. l - 1 PROVE Byte(at + cur + k) # 0
  <2>1. k \in 0 .. n - cur /\ ~(l <= k)
    BY <1>2
  <2> QED BY <1>2, <2>1
<1> HIDE DEF T
<1>4. at + cur \in Nat /\ l \in Nat /\ l <= Len(blob)
  BY <1>2
<1>5. StrLen(at + cur) = l
  BY <1>2, <1>3, <1>4, StrLenIs
<1> QED BY <1>2, <1>5

LEMMA ValueIs ==
    ASSUME NEW a, NEW b, NEW c
    PROVE  Value(a, b, c).says = a /\ Value(a, b, c).shows = b /\ Value(a, b, c).reads = c
  BY DEF Value

LEMMA StringListShows ==
    ASSUME NEW at, NEW v, ValueAt(at, v), NEW r, r = PrettyPrintStringList(at, Len(v))
    PROVE  /\ r.says = (IF v[Len(v)] = 0 THEN "list" ELSE "bad list")
           /\ r.shows = Strings(v)
           /\ r.reads \subseteq 0 .. Len(blob) - 1
<1> DEFINE N == Cardinality(Ends(v))
           n == Len(v)
           M == Len(blob) + 1
           W == IF v[n] = 0 THEN "list" ELSE "bad list"
           B(i) == Behind(v, i)
           s(i) == Strings(v)[i]
<1>1. /\ Len(blob) \in Nat /\ at \in Nat /\ at + n < Len(blob) /\ Byte(at + n) = 0
      /\ n \in Nat \ {0}
  BY EndsAre DEF ValueAt
<1>2. N \in Nat \ {0} /\ StringEnd(v, 0) = 0 /\ StringEnd(v, N) = n
  BY StringEnds DEF ValueAt
<1>3. ASSUME NEW cur \in 0 .. n - 1 PROVE NextOffset(at, cur) \in cur + 1 .. M
  <2>1. cur \in 0 .. n
    BY <1>1
  <2>2. StrLen(at + cur) \in 0 .. n - cur
    BY <1>1, <2>1, ZeroBehind
  <2> HIDE DEF n
  <2>3. StrLen(at + cur) \in Nat /\ StrLen(at + cur) <= n - cur
    BY <1>1, <2>1, <2>2
  <2> QED BY <1>1, <2>1, <2>3 DEF NextOffset
<1>4. PICK f : Entries(f, at, n, 0) /\ r = f[0]
  <2>1. n \in Nat
    BY <1>1
  <2> QED BY <1>1, <1>3, <2>1, StringListIs
<1>5. \A cur \in 0 .. M : f[cur] = Entry(at, n, cur, f[NextOffset(at, cur)])
  BY <1>4 DEF Entries
<1>6. /\ B(0) = 0 /\ B(N) = (IF v[n] # 0 THEN n + 1 ELSE n)
  BY <1>2 DEF Behind
<1>7. ASSUME NEW i \in 0 .. N - 1
      PROVE  /\ B(i) \in 0 .. n - 1 /\ NextOffset(at, B(i)) = B(i + 1)
             /\ StringAt(at + B(i)) = s(i + 1)
             /\ StringBytes(at + B(i)) \subseteq 0 .. Len(blob) - 1
  BY StringInValue
<1>8. Strings(v) = [i \in 1 .. N |-> s(i)]
  BY DEF Strings
<1> HIDE DEF N, n, M, B, s
<1> DEFINE Good(d) == /\ f[B(N - d)].says = W
                      /\ f[B(N - d)].reads \subseteq 0 .. Len(blob) - 1
                      /\ f[B(N - d)].shows = [j \in 1 .. d |-> s(N - d + j)]
<1>9. Good(0)
  <2>1. B(N) \in 0 .. M /\ B(N) >= n /\ (B(N) # n <=> v[n] # 0)
    BY <1>1, <1>6 DEF M
  <2>2. f[B(N)] = Value(IF B(N) # n THEN "bad list" ELSE "list", << >>, {})
    BY <1>5, <2>1 DEF Entry
  <2>3. f[B(N)].says = W /\ f[B(N)].reads = {} /\ f[B(N)].shows = << >>
    <3> DEFINE w == IF B(N) # n THEN "bad list" ELSE "list"
    <3>1. w = W
      BY <2>1
    <3>2. f[B(N)] = Value(w, << >>, {})
      BY <2>2
    <3> HIDE DEF w, W
    <3> QED BY <3>1, <3>2, ValueIs
  <2>4. N - 0 = N
    BY <1>2
  <2>5. [j \in 1 .. 0 |-> s(N - 0 + j)] = << >>
    OBVIOUS
  <2> QED BY <2>3, <2>4, <2>5
<1>10. ASSUME NEW d \in 0 .. N - 1, Good(d) PROVE Good(d + 1)
  <2> DEFINE i == N - (d + 1)
             x == [j \in 1 .. d |-> s(N - d + j)]
             y == [j \in 1 .. d + 1 |-> s(i + j)]
  <2>1. i \in 0 .. N - 1 /\ i + 1 = N - d
    BY <1>2
  <2> HIDE DEF i, x, y
  <2>2. /\ B(i) \in 0 .. n - 1 /\ NextOffset(at, B(i)) = B(N - d)
        /\ StringAt(at + B(i)) = s(N - d)
        /\ StringBytes(at + B(i)) \subseteq 0 .. Len(blob) - 1
    BY <1>7, <2>1
  <2>3. B(i) \in 0 .. M /\ ~(B(i) >= n)
    BY <1>1, <2>2 DEF M
  <2>4. f[B(i)] = Value(f[B(N - d)].says, << s(N - d) >> \o f[B(N - d)].shows,
                        StringBytes(at + B(i)) \union f[B(N - d)].reads)
    BY <1>5, <2>2, <2>3 DEF Entry
  <2>5. f[B(i)].says = W /\ f[B(i)].reads \subseteq 0 .. Len(blob) - 1
        /\ f[B(i)].shows = << s(N - d) >> \o x
    <3> DEFINE w == f[B(N - d)].says
               a == << s(N - d) >> \o f[B(N - d)].shows
               c == StringBytes(at + B(i)) \union f[B(N - d)].reads
    <3>1. w = W /\ a = << s(N - d) >> \o x /\ c \subseteq 0 .. Len(blob) - 1
      BY <1>10, <2>2 DEF x
    <3>2. f[B(i)] = Value(w, a, c)
      BY <2>4
    <3> HIDE DEF w, a, c, W
    <3>3. f[B(i)].says = w /\ f[B(i)].shows = a /\ f[B(i)].reads = c
      BY <3>2, ValueIs
    <3> QED BY <3>1, <3>3
  <2>6. << s(N - d) >> \o x = y
    <3> DEFINE S == {s(j) : j \in 1 .. N}
               h == << s(N - d) >>
    <3>1. \A j \in 1 .. N : s(j) \in S
      OBVIOUS
    <3> HIDE DEF S
    <3>2. N - d \in 1 .. N /\ \A j \in 1 .. d : N - d + j \in 1 .. N
      BY <1>2
    <3>3. x \in [1 .. d -> S] /\ s(N - d) \in S
      BY <3>1, <3>2 DEF x
    <3>4. x \in Seq(S) /\ Len(x) = d
      BY <3>3, FunctionIsSeq
    <3>5. h \in Seq(S) /\ Len(h) = 1 /\ h[1] = s(N - d)
      BY <3>3
    <3> HIDE DEF h
    <3>6. /\ h \o x \in Seq(S) /\ Len(h \o x) = d + 1
          /\ \A j \in 1 .. 1 + d : (h \o x)[j] = IF j <= 1 THEN h[j] ELSE x[j - 1]
      <4>1. /\ h \o x \in Seq(S) /\ Len(h \o x) = Len(h) + Len(x)
            /\ \A j \in 1 .. Len(h) + Len(x) : (h \o x)[j] = IF j <= Len(h) THEN h[j] ELSE x[j - Len(h)]
        BY <3>4, <3>5, Lists!ConcatProperties
      <4>2. d \in Nat /\ 1 + d = d + 1
        OBVIOUS
      <4> QED BY <3>4, <3>5, <4>1, <4>2
    <3>7. \A j \in 1 .. d + 1 : (h \o x)[j] = s(i + j)
      <4>1. \A j \in 1 .. d : x[j] = s(N - d + j)
        BY DEF x
      <4> TAKE j \in 1 .. d + 1
      <4>2. CASE j = 1
        BY <2>1, <3>5, <3>6, <4>2
      <4>3. CASE j # 1
        <5>1. j \in 1 .. 1 + d /\ ~(j <= 1) /\ j - 1 \in 1 .. d /\ N - d + (j - 1) = i + j
          BY <1>2, <4>3 DEF i
        <5>2. (h \o x)[j] = x[j - 1]
          BY <3>6, <5>1
        <5> QED BY <4>1, <5>1, <5>2
      <4> QED BY <4>2, <4>3
    <3>8. h \o x = [j \in 1 .. d + 1 |-> (h \o x)[j]]
      <4>1. \A z \in Seq(S) : z = [j \in 1 .. Len(z) |-> z[j]]
        OBVIOUS
      <4> QED BY <3>6, <4>1
    <3> QED BY <3>7, <3>8 DEF y, h
  <2> QED BY <2>5, <2>6 DEF i, y
<1> DEFINE T == {d \in 0 .. N : Good(d)}
<1>11. 0 \in T
  <2> HIDE DEF Good
  <2>1. 0 \in 0 .. N
    BY <1>2
  <2> QED BY <1>9, <2>1
<1>12. ASSUME NEW d \in 0 .. N - 1, d \in T PROVE d + 1 \in T
  <2> HIDE DEF Good
  <2>1. d + 1 \in 0 .. N
    BY <1>2
  <2> QED BY <1>10, <1>12, <2>1
<1> HIDE DEF T
<1>13. \A d \in 0 .. N : d \in T
  BY <1>2, <1>11, <1>12, NumberInduction
<1>14. Good(N)
  <2>1. N \in 0 .. N
    BY <1>2
  <2> QED BY <1>13, <2>1 DEF T
<1>15. N - N = 0 /\ \A j \in 1 .. N : N - N + j = j
  BY <1>2
<1>16. [j \in 1 .. N |-> s(N - N + j)] = [j \in 1 .. N |-> s(j)]
  BY <1>15
<1> QED BY <1>4, <1>6, <1>8, <1>14, <1>15, <1>16 DEF n

-----------------------------------------------------------------------------
(***************************************************************************)
(* What is printed of a value, whatever its name.                          *)
(***************************************************************************)
LEMMA ValueBytes ==
    ASSUME NEW at, NEW v, ValueAt(at, v)
    PROVE  /\ Len(v) \in Nat \ {0} /\ at \in Nat /\ at + Len(v) < Len(blob)
           /\ Load(at, Len(v)) = v /\ Bytes(at, Len(v)) \subseteq 0 .. Len(blob) - 1
<1>1. /\ Len(blob) \in Nat /\ at \in Nat /\ at + Len(v) < Len(blob) /\ v \in Seq(Octet)
      /\ Stored(blob, at, v) /\ Len(v) \in Nat \ {0}
  BY EndsAre DEF ValueAt
<1>2. Load(at, Len(v)) = v
  BY <1>1, LoadIs
<1>3. Bytes(at, Len(v)) \subseteq 0 .. Len(blob) - 1
  <2> DEFINE n == Len(v)
             m == Len(blob)
  <2>1. at \in Nat /\ n \in Nat /\ m \in Nat /\ at + n < m
    BY <1>1
  <2> HIDE DEF n, m
  <2>2. at .. at + n - 1 \subseteq 0 .. m - 1
    BY <2>1
  <2> QED BY <2>2 DEF Bytes, n, m
<1> QED BY <1>1, <1>2, <1>3

\* What is printed of a value, and what is read of it.
Printed(r, shows) ==
    /\ r.says = shows[1] /\ r.shows = shows[2]
    /\ r.reads \subseteq 0 .. Len(blob) - 1

LEMMA UnknownShows ==
    ASSUME NEW at, NEW v, ValueAt(at, v)
    PROVE  Printed(PrettyPrintUnknownValue(at, Len(v)), << "unknown", << v >> >>)
  BY ValueBytes, ValueIs DEF PrettyPrintUnknownValue, Printed

LEMMA IntegerShows ==
    ASSUME NEW at, NEW v, ValueAt(at, v)
    PROVE  Printed(PrettyPrintUInt32(at, Len(v)),
                   IF Len(v) = 4 THEN << "integer", << SeqsExt!Reverse(v) >> >> ELSE << "unknown", << v >> >>)
<1>1. CASE Len(v) # 4
  BY <1>1, UnknownShows DEF PrettyPrintUInt32
<1>2. CASE Len(v) = 4
  <2>1. v \in Seq(Octet) /\ Stored(blob, at, v) /\ Len(blob) \in Nat /\ at \in Nat
    BY DEF ValueAt
  <2>2. v = << v[1], v[2], v[3], v[4] >>
    BY <1>2, <2>1, SeqOfFour
  <2>3. v[1] \in Octet /\ v[2] \in Octet /\ v[3] \in Octet /\ v[4] \in Octet
    <3>1. \A i \in 1 .. Len(v) : v[i] \in Octet
      BY <2>1, Lists!ElementOfSeq
    <3> QED BY <1>2, <3>1
  <2> DEFINE a == v[1]
             b == v[2]
             c == v[3]
             d == v[4]
  <2>4. v = << a, b, c, d >> /\ a \in Octet /\ b \in Octet /\ c \in Octet /\ d \in Octet
    BY <2>2, <2>3
  <2> HIDE DEF a, b, c, d
  <2>5. UInt32At(at) = << d, c, b, a >>
    BY <2>1, <2>4, IntegerAt
  <2>6. SeqsExt!Reverse(v) = << d, c, b, a >>
    BY <2>4, ReverseQuad
  <2>7. Bytes(at, 4) \subseteq 0 .. Len(blob) - 1
    BY <1>2, ValueBytes
  <2>8. PrettyPrintUInt32(at, Len(v)) = Value("integer", << UInt32At(at) >>, Bytes(at, 4))
    BY <1>2 DEF PrettyPrintUInt32
  <2>9. Printed(PrettyPrintUInt32(at, Len(v)), << "integer", << SeqsExt!Reverse(v) >> >>)
    BY <2>5, <2>6, <2>7, <2>8, ValueIs DEF Printed
  <2> QED BY <1>2, <2>9
<1> QED BY <1>1, <1>2

LEMMA StringShows ==
    ASSUME NEW at, NEW v, ValueAt(at, v)
    PROVE  Printed(PrettyPrintString(at, Len(v)),
                   IF Terminated0(v) /\ Len(Strings(v)) = 1 THEN << "string", Strings(v) >>
                                                            ELSE << "unknown", << v >> >>)
<1> DEFINE N == Cardinality(Ends(v))
           n == Len(v)
           unknown == << "unknown", << v >> >>
<1>1. /\ n \in Nat \ {0} /\ at \in Nat /\ Len(blob) \in Nat
  BY ValueBytes DEF ValueAt
<1>2. N \in Nat \ {0} /\ StringEnd(v, 0) = 0 /\ StringEnd(v, N) = n
  BY StringEnds DEF ValueAt
<1>3. Len(Strings(v)) = N /\ Strings(v) = [i \in 1 .. N |-> Strings(v)[i]]
  <2>1. Strings(v) = [i \in 1 .. N |-> Strings(v)[i]]
    BY DEF Strings
  <2> HIDE DEF N
  <2>2. Len([i \in 1 .. N |-> Strings(v)[i]]) = N
    BY <1>2
  <2> QED BY <2>1, <2>2
<1>4. /\ NextOffset(at, 0) = Behind(v, 1) /\ StrLen(at) \in Nat
      /\ StringAt(at) = Strings(v)[1] /\ StringBytes(at) \subseteq 0 .. Len(blob) - 1
  <2>1. 0 \in 0 .. N - 1
    BY <1>2
  <2>2. /\ NextOffset(at, StringEnd(v, 0)) = Behind(v, 0 + 1)
        /\ StrLen(at + StringEnd(v, 0)) \in Nat
        /\ StringAt(at + StringEnd(v, 0)) = Strings(v)[0 + 1]
        /\ StringBytes(at + StringEnd(v, 0)) \subseteq 0 .. Len(blob) - 1
    BY <2>1, StringInValue
  <2>3. at + 0 = at /\ 0 + 1 = 1
    BY <1>1
  <2> HIDE DEF N
  <2> QED BY <1>2, <2>2, <2>3
<1>5. StrLen(at) + 1 = Behind(v, 1)
  BY <1>1, <1>4 DEF NextOffset
<1>6. n = Behind(v, 1) <=> N = 1 /\ v[n] = 0
  <2>1. CASE N = 1
    BY <1>1, <1>2, <2>1 DEF Behind
  <2>2. CASE N # 1
    <3>1. 1 \in 0 .. N - 1
      BY <1>2, <2>2
    <3>2. StringEnd(v, 1) \in 0 .. n - 1 /\ Behind(v, 1) = StringEnd(v, 1)
      BY <3>1, StringInValue
    <3>3. Behind(v, 1) # n
      BY <1>1, <3>2
    <3> QED BY <2>2, <3>3
  <2> QED BY <2>1, <2>2
<1>7. Terminated0(v) <=> v[n] = 0
  BY DEF Terminated0
<1>8. CASE N = 1 /\ v[n] = 0
  <2>1. n = StrLen(at) + 1
    BY <1>5, <1>6, <1>8
  <2>2. PrettyPrintString(at, n) = [Value("string", << StringAt(at) >>, {}) EXCEPT !.reads = @ \union StringBytes(at)]
    BY <2>1 DEF PrettyPrintString
  <2>3. Strings(v) = << StringAt(at) >>
    <3>1. Strings(v) = [i \in 1 .. 1 |-> Strings(v)[i]]
      BY <1>3, <1>8
    <3>2. [i \in 1 .. 1 |-> Strings(v)[i]] = << Strings(v)[1] >>
      OBVIOUS
    <3> QED BY <1>4, <3>1, <3>2
  <2>4. PrettyPrintString(at, n) = Value("string", << StringAt(at) >>, StringBytes(at))
    BY <2>2 DEF Value
  <2>5. Printed(PrettyPrintString(at, n), << "string", Strings(v) >>)
    BY <1>4, <2>3, <2>4, ValueIs DEF Printed
  <2> QED BY <1>3, <1>7, <1>8, <2>5
<1>9. CASE ~(N = 1 /\ v[n] = 0)
  <2>1. n # StrLen(at) + 1
    BY <1>5, <1>6, <1>9
  <2>2. PrettyPrintString(at, n) = [PrettyPrintUnknownValue(at, n) EXCEPT !.reads = @ \union StringBytes(at)]
    BY <2>1 DEF PrettyPrintString
  <2>3. PrettyPrintString(at, n) = Value("unknown", << Load(at, n) >>, Bytes(at, n) \union StringBytes(at))
    BY <2>2 DEF Value, PrettyPrintUnknownValue
  <2>4. Load(at, n) = v /\ Bytes(at, n) \union StringBytes(at) \subseteq 0 .. Len(blob) - 1
    BY <1>4, ValueBytes
  <2>5. Printed(PrettyPrintString(at, n), unknown)
    BY <2>3, <2>4, ValueIs DEF Printed
  <2> QED BY <1>3, <1>7, <1>9, <2>5
<1> QED BY <1>8, <1>9

\* What is printed of a value that is not empty is what Shows says of it.
LEMMA ValueShows ==
    ASSUME NEW at, NEW v, ValueAt(at, v), NEW name
    PROVE  Printed(PrettyPrintValue(name, at, Len(v)), Shows(name, v))
<1> DEFINE n == Len(v)
           unknown == << "unknown", << v >> >>
           D == {Printed(PrettyPrintValue(name, at, n), Shows(name, v))}
<1>1. v # << >>
  BY DEF ValueAt
<1>2. /\ StringListNames \cap (StringNames \union UInt32Names) = {}
      /\ StringNames \cap UInt32Names = {}
  BY DeviceTreeAssumption
<1>3. CASE name \in StringListNames
  <2>1. name \notin StringNames /\ name \notin UInt32Names
    BY <1>2, <1>3
  <2>2. PrettyPrintValue(name, at, n) = PrettyPrintStringList(at, n)
    BY <1>3, <2>1 DEF PrettyPrintValue
  <2>3. Shows(name, v) = << IF Terminated0(v) THEN "list" ELSE "bad list", Strings(v) >>
    BY <1>1, <1>3, <2>1 DEF Shows
  <2> DEFINE r == PrettyPrintStringList(at, n)
  <2>4. /\ r.says = (IF v[Len(v)] = 0 THEN "list" ELSE "bad list")
        /\ r.shows = Strings(v) /\ r.reads \subseteq 0 .. Len(blob) - 1
    BY StringListShows
  <2> HIDE DEF r
  <2>5. PrettyPrintValue(name, at, n) = r
    BY <2>2 DEF r
  <2>6. /\ Shows(name, v)[1] = (IF v[Len(v)] = 0 THEN "list" ELSE "bad list")
        /\ Shows(name, v)[2] = Strings(v)
    <3> DEFINE w == IF Terminated0(v) THEN "list" ELSE "bad list"
               x == Strings(v)
    <3>1. Shows(name, v) = << w, x >> /\ w = (IF v[Len(v)] = 0 THEN "list" ELSE "bad list")
      BY <2>3 DEF Terminated0
    <3> HIDE DEF w, x
    <3>2. << w, x >>[1] = w /\ << w, x >>[2] = x
      OBVIOUS
    <3>3. Shows(name, v)[1] = w /\ Shows(name, v)[2] = x
      BY <3>1, <3>2
    <3> QED BY <3>1, <3>3, Zenon DEF x
  <2>7. Printed(r, Shows(name, v))
    BY <2>4, <2>6, Zenon DEF Printed
  <2> QED BY <2>5, <2>7
<1>4. CASE name \in StringNames
  <2>1. name \notin StringListNames /\ name \notin UInt32Names
    BY <1>2, <1>4
  <2>2. PrettyPrintValue(name, at, n) = PrettyPrintString(at, n)
    BY <1>4, <2>1 DEF PrettyPrintValue
  <2>3. Shows(name, v) = (IF Terminated0(v) /\ Len(Strings(v)) = 1 THEN << "string", Strings(v) >>
                                                                   ELSE unknown)
    BY <1>1, <1>4, <2>1 DEF Shows
  <2> QED BY <2>2, <2>3, StringShows
<1>5. CASE name \in UInt32Names
  <2>1. name \notin StringListNames /\ name \notin StringNames
    BY <1>2, <1>5
  <2>2. PrettyPrintValue(name, at, n) = PrettyPrintUInt32(at, n)
    BY <1>5, <2>1 DEF PrettyPrintValue
  <2>3. Shows(name, v) = (IF Len(v) = 4 THEN << "integer", << SeqsExt!Reverse(v) >> >> ELSE unknown)
    BY <1>1, <1>5, <2>1 DEF Shows
  <2> QED BY <2>2, <2>3, IntegerShows
<1>6. CASE name \notin StringListNames \union StringNames \union UInt32Names
  <2>1. PrettyPrintValue(name, at, n) = PrettyPrintUnknownValue(at, n)
    BY <1>6 DEF PrettyPrintValue
  <2>2. Shows(name, v) = unknown
    BY <1>1, <1>6 DEF Shows
  <2> QED BY <2>1, <2>2, UnknownShows
<1> QED BY <1>3, <1>4, <1>5, <1>6

-----------------------------------------------------------------------------
(***************************************************************************)
(* The lines of a listing.                                                 *)
(***************************************************************************)
\* The lines of a listing, in parts.
ReservationLines(tree) ==
    [k \in 1 .. Len(tree.reservations) |->
       Line(0, "reservation", << SeqsExt!Reverse(SubSeq(tree.reservations[k], 1, 8)),
                                 SeqsExt!Reverse(SubSeq(tree.reservations[k], 9, 16)) >>)]

TokenLines(tree) == [k \in 1 .. Len(tree.items) |-> ItemLines(tree.items, k)]

\* What is listed when r reservations have been shown, and when k tokens have.
ListedReservations(tree, r) == HeaderLine(tree) \o Joined(ReservationLines(tree), r)

ListedTokens(tree, k) ==
    ListedReservations(tree, Len(tree.reservations)) \o Joined(TokenLines(tree), k)

\* A tree whose header the walk accepts.
HeaderFits(tree) ==
    /\ tree.magic = SeqsExt!Reverse(ExpectedMagic)
    /\ 17 \in tree.lastCompatible .. tree.version

\* A line, or none.
LEMMA LineIs ==
    ASSUME NEW i, NEW w, NEW x
    PROVE  Line(i, w, x) = << Line(i, w, x)[1] >>
  BY DEF Line

LEMMA ItemLinesAre ==
    ASSUME NEW items \in Seq(ItemSet), NEW k \in 1 .. Len(items)
    PROVE  ItemLines(items, k) = << >> \/ ItemLines(items, k) = << ItemLines(items, k)[1] >>
<1>1. items[k].token \in Token
  BY ItemTypes
<1>2. CASE items[k].token = "begin"
  BY <1>2, LineIs DEF ItemLines
<1>3. CASE items[k].token = "end"
  BY <1>3, LineIs DEF ItemLines
<1>4. CASE items[k].token = "prop"
  BY <1>4, LineIs DEF ItemLines
<1>5. CASE items[k].token = "nop"
  BY <1>5 DEF ItemLines
<1> QED BY <1>1, <1>2, <1>3, <1>4, <1>5 DEF Token

\* The listing grows with its parts, and all of them are the listing of the tree.
LEMMA ListingParts ==
    ASSUME NEW tree, IsFlattened(tree)
    PROVE  /\ ListedReservations(tree, 0) = HeaderLine(tree)
           /\ \A r \in 0 .. Len(tree.reservations) - 1 :
                ListedReservations(tree, r + 1)
                  = ListedReservations(tree, r) \o ReservationLines(tree)[r + 1]
           /\ ListedTokens(tree, 0) = ListedReservations(tree, Len(tree.reservations))
           /\ \A k \in 0 .. Len(tree.items) - 1 :
                ListedTokens(tree, k + 1) = ListedTokens(tree, k) \o ItemLines(tree.items, k + 1)
           /\ HeaderFits(tree) =>
                TreeListing(tree) = ListedTokens(tree, Len(tree.items)) \o EndingLine(tree)
<1> DEFINE R == Len(tree.reservations)
           N == Len(tree.items)
           h == HeaderLine(tree)
           p == ReservationLines(tree)
           q == TokenLines(tree)
           S == {h[1]} \union {p[k][1] : k \in 1 .. R} \union {q[k][1] : k \in 1 .. N}
<1>1. R \in Nat /\ N \in Nat /\ tree.items \in Seq(ItemSet)
  BY TreeTypes
<1>2. h = << h[1] >>
  BY LineIs DEF HeaderLine
<1>3. \A k \in 1 .. R : p[k] = << p[k][1] >>
  BY LineIs DEF ReservationLines
<1>4. \A k \in 1 .. N : q[k] = << >> \/ q[k] = << q[k][1] >>
  BY <1>1, ItemLinesAre DEF TokenLines
<1>5. \A k \in 1 .. N : q[k] = ItemLines(tree.items, k)
  BY DEF TokenLines
<1>6. h \in Seq(S) /\ (\A k \in 1 .. R : p[k] \in Seq(S)) /\ \A k \in 1 .. N : q[k] \in Seq(S)
  <2> HIDE DEF h, p, q, R, N
  <2>1. \A s \in S : << s >> \in Seq(S)
    OBVIOUS
  <2>2. << >> \in Seq(S)
    OBVIOUS
  <2>3. h[1] \in S /\ (\A k \in 1 .. R : p[k][1] \in S) /\ \A k \in 1 .. N : q[k][1] \in S
    OBVIOUS
  <2> HIDE DEF S
  <2> QED BY <1>2, <1>3, <1>4, <2>1, <2>2, <2>3
<1> HIDE DEF S
<1>7. /\ Joined(p, 0) = << >> /\ Joined(q, 0) = << >>
      /\ \A r \in 0 .. R : Joined(p, r) \in Seq(S)
      /\ \A k \in 0 .. N : Joined(q, k) \in Seq(S)
      /\ \A r \in 0 .. R - 1 : Joined(p, r + 1) = Joined(p, r) \o p[r + 1]
      /\ \A k \in 0 .. N - 1 : Joined(q, k + 1) = Joined(q, k) \o q[k + 1]
  <2>1. \A k \in 1 .. R : p[k] \in Seq(S)
    BY <1>6
  <2>2. \A k \in 1 .. N : q[k] \in Seq(S)
    BY <1>6
  <2> HIDE DEF p, q, R, N
  <2>3. /\ Joined(p, 0) = << >>
        /\ \A r \in 0 .. R : Joined(p, r) \in Seq(S)
        /\ \A r \in 0 .. R - 1 : Joined(p, r + 1) = Joined(p, r) \o p[r + 1]
    BY <1>1, <2>1, JoinedIs, ZenonT(60)
  <2>4. /\ Joined(q, 0) = << >>
        /\ \A k \in 0 .. N : Joined(q, k) \in Seq(S)
        /\ \A k \in 0 .. N - 1 : Joined(q, k + 1) = Joined(q, k) \o q[k + 1]
    BY <1>1, <2>2, JoinedIs, ZenonT(60)
  <2> QED BY <2>3, <2>4
<1>8. \A s1, s2, s3 \in Seq(S) : (s1 \o s2) \o s3 = s1 \o (s2 \o s3)
  BY Lists!ConcatAssociative
<1>9. \A s \in Seq(S) : s \o << >> = s
  OBVIOUS
<1> DEFINE g == h \o Joined(p, R)
<1>10. g \in Seq(S)
  <2>1. R \in 0 .. R
    BY <1>1
  <2> HIDE DEF h, p, R
  <2> QED BY <1>6, <1>7, <2>1
<1>11. h \o Joined(p, 0) = h /\ g \o Joined(q, 0) = g
  BY <1>6, <1>7, <1>9, <1>10
<1>12. ASSUME NEW r \in 0 .. R - 1
       PROVE  h \o Joined(p, r + 1) = (h \o Joined(p, r)) \o p[r + 1]
  <2>1. r \in 0 .. R /\ r + 1 \in 1 .. R
    BY <1>1
  <2>2. h \in Seq(S) /\ Joined(p, r) \in Seq(S) /\ p[r + 1] \in Seq(S)
    BY <1>6, <1>7, <2>1
  <2>3. Joined(p, r + 1) = Joined(p, r) \o p[r + 1]
    BY <1>7
  <2> DEFINE s1 == Joined(p, r)
             s2 == p[r + 1]
  <2> HIDE DEF h, p, s1, s2
  <2>4. (h \o s1) \o s2 = h \o (s1 \o s2)
    BY <1>8, <2>2 DEF s1, s2
  <2> QED BY <2>3, <2>4 DEF s1, s2
<1>13. ASSUME NEW k \in 0 .. N - 1
       PROVE  g \o Joined(q, k + 1) = (g \o Joined(q, k)) \o q[k + 1]
  <2>1. k \in 0 .. N /\ k + 1 \in 1 .. N
    BY <1>1
  <2>2. g \in Seq(S) /\ Joined(q, k) \in Seq(S) /\ q[k + 1] \in Seq(S)
    BY <1>6, <1>7, <1>10, <2>1
  <2>3. Joined(q, k + 1) = Joined(q, k) \o q[k + 1]
    BY <1>7
  <2> DEFINE s1 == Joined(q, k)
             s2 == q[k + 1]
  <2> HIDE DEF g, q, s1, s2
  <2>4. (g \o s1) \o s2 = g \o (s1 \o s2)
    BY <1>8, <2>2 DEF s1, s2
  <2> QED BY <2>3, <2>4 DEF s1, s2
<1>14. ASSUME HeaderFits(tree)
       PROVE  TreeListing(tree) = (g \o Joined(q, N)) \o EndingLine(tree)
  <2>1. TreeListing(tree) =
          HeaderLine(tree)
             \o Concatenated(LAMBDA k : Line(0, "reservation",
                                             << SeqsExt!Reverse(SubSeq(tree.reservations[k], 1, 8)),
                                                SeqsExt!Reverse(SubSeq(tree.reservations[k], 9, 16)) >>),
                             Len(tree.reservations))
             \o Concatenated(LAMBDA k : ItemLines(tree.items, k), Len(tree.items))
             \o EndingLine(tree)
    BY <1>14 DEF TreeListing, HeaderFits
  <2>2. Concatenated(LAMBDA k : Line(0, "reservation",
                                     << SeqsExt!Reverse(SubSeq(tree.reservations[k], 1, 8)),
                                        SeqsExt!Reverse(SubSeq(tree.reservations[k], 9, 16)) >>),
                     Len(tree.reservations)) = Joined(p, R)
    <3>1. [k \in 1 .. R |-> p[k]] = [k \in 1 .. Len(tree.reservations) |->
             Line(0, "reservation", << SeqsExt!Reverse(SubSeq(tree.reservations[k], 1, 8)),
                                       SeqsExt!Reverse(SubSeq(tree.reservations[k], 9, 16)) >>)]
      BY DEF ReservationLines
    <3> QED BY <3>1 DEF Concatenated, Joined
  <2>3. Concatenated(LAMBDA k : ItemLines(tree.items, k), Len(tree.items)) = Joined(q, N)
    <3>1. [k \in 1 .. N |-> q[k]] = [k \in 1 .. Len(tree.items) |-> ItemLines(tree.items, k)]
      BY DEF TokenLines
    <3> QED BY <3>1 DEF Concatenated, Joined
  <2> QED BY <2>1, <2>2, <2>3
<1>15. ASSUME NEW k \in 0 .. N - 1 PROVE q[k + 1] = ItemLines(tree.items, k + 1)
  BY <1>1, <1>5
<1>16. ListedTokens(tree, 0) = ListedReservations(tree, R) /\ ListedReservations(tree, 0) = h
  BY <1>11 DEF ListedReservations, ListedTokens
<1>17. \A r \in 0 .. R - 1 : ListedReservations(tree, r + 1) = ListedReservations(tree, r) \o p[r + 1]
  BY <1>12 DEF ListedReservations
<1>18. \A k \in 0 .. N - 1 :
         ListedTokens(tree, k + 1) = ListedTokens(tree, k) \o ItemLines(tree.items, k + 1)
  BY <1>13, <1>15 DEF ListedReservations, ListedTokens
<1>19. HeaderFits(tree) => TreeListing(tree) = ListedTokens(tree, N) \o EndingLine(tree)
  BY <1>14 DEF ListedReservations, ListedTokens
<1> QED BY <1>16, <1>17, <1>18, <1>19

-----------------------------------------------------------------------------
(***************************************************************************)
(* The header and the reservations, as the walk checks and lists them.     *)
(***************************************************************************)
\* Where the walk is, and what it has listed by then.
AtReservation(tree, r) ==
    /\ walk = "reservations" /\ HeaderFits(tree)
    /\ cursor = 40 + 16 * r
    /\ listing = ListedReservations(tree, r)

AtToken(tree, k) ==
    /\ walk = "tokens" /\ HeaderFits(tree)
    /\ k = Len(tree.items) => tree.ending # "none"
    /\ cursor = ItemAt(tree, k + 1)
    /\ indentLevel = Depth(tree.items, k)
    /\ listing = ListedTokens(tree, k)

AtEnd(tree) == walk = "done" /\ listing = TreeListing(tree)

ReadsInside == read \subseteq 0 .. Len(blob) - 1

LEMMA MagicIs ==
    ASSUME NEW tree, IsFlattened(tree), blob = Blob(tree)
    PROVE  /\ Header("magic") = ExpectedMagic <=> tree.magic = SeqsExt!Reverse(ExpectedMagic)
           /\ Header("magic") = SeqsExt!Reverse(tree.magic)
<1> DEFINE m == tree.magic
<1>1. m \in Seq(Octet) /\ Len(m) = 4
  <2>1. m \in [1 .. 4 -> Octet]
    BY TreeTypes
  <2> HIDE DEF m
  <2>2. 4 \in Nat
    OBVIOUS
  <2> QED BY <2>1, <2>2, FunctionIsSeq, ZenonT(60)
<1>2. m = << m[1], m[2], m[3], m[4] >>
  BY <1>1, SeqOfFour
<1>3. SeqsExt!Reverse(m) = << m[4], m[3], m[2], m[1] >>
  <2> DEFINE a == m[1]
             b == m[2]
             c == m[3]
             d == m[4]
  <2>1. m = << a, b, c, d >>
    BY <1>2
  <2> HIDE DEF a, b, c, d
  <2>2. SeqsExt!Reverse(m) = << d, c, b, a >>
    BY <2>1, ReverseQuad
  <2> QED BY <2>2 DEF a, b, c, d
<1>4. SeqsExt!Reverse(ExpectedMagic) = << 208, 13, 254, 237 >>
  BY ReverseQuad DEF ExpectedMagic
<1>5. << m[4], m[3], m[2], m[1] >> = << 237, 254, 13, 208 >>
        <=> << m[1], m[2], m[3], m[4] >> = << 208, 13, 254, 237 >>
  OBVIOUS
<1>6. SeqsExt!Reverse(m) = ExpectedMagic <=> m = SeqsExt!Reverse(ExpectedMagic)
  BY <1>2, <1>3, <1>4, <1>5 DEF ExpectedMagic
<1>7. Header("magic") = SeqsExt!Reverse(m)
  BY HeaderIs
<1> QED BY <1>6, <1>7

LEMMA HeaderLineIs ==
    ASSUME NEW tree, IsFlattened(tree), blob = Blob(tree), Header("magic") = ExpectedMagic
    PROVE  OutputHeader = HeaderLine(tree)
<1>1. \A f \in {"totalsize", "off_dt_struct", "size_dt_struct", "off_dt_strings",
                "size_dt_strings", "off_mem_rsvmap", "version", "last_comp_version",
                "boot_cpuid_phys"} :
        Header(f) = SeqsExt!Reverse(BigEndian(Layout(tree)[f]))
  BY HeaderIs
<1>2. /\ Header("totalsize") = SeqsExt!Reverse(BigEndian(Layout(tree).totalsize))
      /\ Header("off_dt_struct") = SeqsExt!Reverse(BigEndian(Layout(tree).off_dt_struct))
      /\ Header("size_dt_struct") = SeqsExt!Reverse(BigEndian(Layout(tree).size_dt_struct))
      /\ Header("off_dt_strings") = SeqsExt!Reverse(BigEndian(Layout(tree).off_dt_strings))
      /\ Header("size_dt_strings") = SeqsExt!Reverse(BigEndian(Layout(tree).size_dt_strings))
      /\ Header("off_mem_rsvmap") = SeqsExt!Reverse(BigEndian(Layout(tree).off_mem_rsvmap))
      /\ Header("version") = SeqsExt!Reverse(BigEndian(Layout(tree).version))
      /\ Header("last_comp_version") = SeqsExt!Reverse(BigEndian(Layout(tree).last_comp_version))
      /\ Header("boot_cpuid_phys") = SeqsExt!Reverse(BigEndian(Layout(tree).boot_cpuid_phys))
  BY <1>1
<1> QED BY <1>2, Zenon DEF OutputHeader, HeaderLine

\* A header of another kind ends the walk with a message, and one that fits leads
\* to the reservations.
LEMMA CheckHeaderLists ==
    ASSUME NEW tree, IsFlattened(tree), blob = Blob(tree), CheckHeader
    PROVE  /\ blob' = blob /\ ReadsInside'
           /\ AtEnd(tree)' \/ AtReservation(tree, 0)'
<1>1. Header("magic") = ExpectedMagic <=> tree.magic = SeqsExt!Reverse(ExpectedMagic)
  BY MagicIs
<1>2. Header("magic") = SeqsExt!Reverse(tree.magic)
  BY MagicIs
<1>3. /\ Header("version") = SeqsExt!Reverse(BigEndian(tree.version))
      /\ Header("last_comp_version") = SeqsExt!Reverse(BigEndian(tree.lastCompatible))
      /\ Field("version") = tree.version /\ Field("last_comp_version") = tree.lastCompatible
      /\ Field("off_mem_rsvmap") = 40
  BY HeaderIs, LayoutIs
<1>4. blob' = blob /\ read' = Bytes(0, HeaderSize)
  BY DEF CheckHeader
<1>5. Len(blob) \in Nat /\ Len(blob) >= 56
  <2>1. Len(blob) \in Nat /\ Stored(blob, 40 + 16 * Len(tree.reservations), Zeros(16))
        /\ Len(tree.reservations) \in Nat
    BY BlobIs, TreeTypes
  <2>2. Len(Zeros(16)) = 16
    BY ZerosAre DEF IsBytes
  <2>3. 40 + 16 * Len(tree.reservations) + 16 <= Len(blob)
    BY <2>1, <2>2 DEF Stored
  <2> QED BY <2>1, <2>3
<1>6. ReadsInside'
  <2>1. Bytes(0, HeaderSize) = 0 .. 39
    BY DEF Bytes, HeaderSize
  <2>2. 0 .. 39 \subseteq 0 .. Len(blob) - 1
    BY <1>5
  <2> QED BY <1>4, <2>1, <2>2 DEF ReadsInside
<1>7. tree.version \in Int /\ tree.lastCompatible \in Int
  BY TreeTypes DEF Number
<1>8. (Field("version") < ExpectedVersion \/ Field("last_comp_version") > ExpectedVersion)
        <=> ~(17 \in tree.lastCompatible .. tree.version)
  <2> DEFINE v == tree.version
             l == tree.lastCompatible
  <2>1. v \in Int /\ l \in Int
    BY <1>7
  <2> HIDE DEF v, l
  <2>2. (v < 17 \/ l > 17) <=> ~(17 \in l .. v)
    BY <2>1
  <2> QED BY <1>3, <2>2 DEF v, l, ExpectedVersion
<1>9. CASE Header("magic") # ExpectedMagic
  <2>1. walk' = "done" /\ listing' = Line(0, "magic mismatch", << Header("magic") >>)
    BY <1>9 DEF CheckHeader
  <2>2. TreeListing(tree) = Line(0, "magic mismatch", << SeqsExt!Reverse(tree.magic) >>)
    BY <1>1, <1>9 DEF TreeListing
  <2> QED BY <1>2, <1>4, <1>6, <2>1, <2>2 DEF AtEnd
<1>10. CASE Header("magic") = ExpectedMagic /\ ~(17 \in tree.lastCompatible .. tree.version)
  <2>1. walk' = "done" /\ listing' = Line(0, "version check failed",
                                          << Header("version"), Header("last_comp_version") >>)
    BY <1>8, <1>10 DEF CheckHeader
  <2>2. TreeListing(tree) = Line(0, "version check failed",
                                 << SeqsExt!Reverse(BigEndian(tree.version)),
                                    SeqsExt!Reverse(BigEndian(tree.lastCompatible)) >>)
    BY <1>1, <1>10 DEF TreeListing
  <2> QED BY <1>3, <1>4, <1>6, <2>1, <2>2 DEF AtEnd
<1>11. CASE Header("magic") = ExpectedMagic /\ 17 \in tree.lastCompatible .. tree.version
  <2>1. walk' = "reservations" /\ listing' = OutputHeader /\ cursor' = 40
    BY <1>3, <1>8, <1>11 DEF CheckHeader
  <2>2. OutputHeader = ListedReservations(tree, 0)
    BY <1>11, HeaderLineIs, ListingParts
  <2>3. HeaderFits(tree)
    BY <1>1, <1>11 DEF HeaderFits
  <2>4. 40 + 16 * 0 = 40
    OBVIOUS
  <2> QED BY <1>4, <1>6, <2>1, <2>2, <2>3, <2>4 DEF AtReservation
<1> QED BY <1>9, <1>10, <1>11

\* Two integers of eight bytes.
LEMMA PairAt ==
    ASSUME Len(blob) \in Nat, NEW at \in Nat, NEW x \in [1 .. 16 -> Octet], Stored(blob, at, x)
    PROVE  /\ UInt64At(at) = SeqsExt!Reverse(SubSeq(x, 1, 8))
           /\ UInt64At(at + 8) = SeqsExt!Reverse(SubSeq(x, 9, 16))
           /\ at + 16 <= Len(blob)
           /\ UInt64At(at) = ZeroInteger /\ UInt64At(at + 8) = ZeroInteger <=> x = Zeros(16)
<1> DEFINE y == SubSeq(x, 1, 8)
           z == SubSeq(x, 9, 16)
<1>1. x \in Seq(Octet) /\ Len(x) = 16
  BY FunctionIsSeq
<1>2. /\ y = [i \in 1 .. 8 |-> x[i]] /\ z = [i \in 1 .. 8 |-> x[i + 8]]
      /\ Len(y) = 8 /\ Len(z) = 8
  <2>1. y = [i \in 1 .. (8 - 1 + 1) |-> x[1 + i - 1]] /\ z = [i \in 1 .. (16 - 9 + 1) |-> x[9 + i - 1]]
        /\ Len(y) = 8 - 1 + 1 /\ Len(z) = 16 - 9 + 1
    BY <1>1, Lists!SubSeqProperties
  <2>2. \A i \in 1 .. 8 : 1 + i - 1 = i /\ 9 + i - 1 = i + 8
    OBVIOUS
  <2> QED BY <2>1, <2>2
<1>3. \A i \in 1 .. 8 : y[i] = x[i] /\ z[i] = x[i + 8]
  BY <1>2
<1>4. \A i \in 1 .. 8 : i \in 1 .. 16 /\ i + 8 \in 1 .. 16
  OBVIOUS
<1>5. y \in [1 .. 8 -> Octet] /\ z \in [1 .. 8 -> Octet]
  BY <1>2, <1>4
<1> HIDE DEF y, z
<1>6. at + 16 <= Len(blob) /\ \A i \in 1 .. 16 : blob[at + i] = x[i]
  BY <1>1 DEF Stored
<1>7. Stored(blob, at, y)
  <2>1. at + 8 <= Len(blob)
    BY <1>6
  <2>2. \A i \in 1 .. 8 : blob[at + i] = y[i]
    BY <1>3, <1>4, <1>6
  <2>3. Len(y) = 8
    BY <1>2
  <2> QED BY <2>1, <2>2, <2>3, Zenon DEF Stored
<1>8. Stored(blob, at + 8, z)
  <2>1. \A i \in 1 .. 8 : at + 8 + i = at + (i + 8)
    OBVIOUS
  <2>2. \A i \in 1 .. 8 : blob[at + 8 + i] = z[i]
    BY <1>3, <1>4, <1>6, <2>1
  <2>3. at + 8 + 8 <= Len(blob) /\ Len(z) = 8
    BY <1>2, <1>6
  <2> QED BY <2>2, <2>3, Zenon DEF Stored
<1>9. UInt64At(at) = SeqsExt!Reverse(y) /\ UInt64At(at + 8) = SeqsExt!Reverse(z)
  BY <1>5, <1>7, <1>8, LongIntegerAt
<1>10. ASSUME NEW s, Len(s) = 8
       PROVE  SeqsExt!Reverse(s) = ZeroInteger <=> \A i \in 1 .. 8 : s[i] = 0
  <2>1. SeqsExt!Reverse(s) = [i \in 1 .. 8 |-> s[(8 - i) + 1]]
    BY <1>10 DEF SeqsExt!Reverse
  <2>2. \A i \in 1 .. 8 : (8 - i) + 1 \in 1 .. 8 /\ (8 - ((8 - i) + 1)) + 1 = i
    OBVIOUS
  <2>3. ASSUME SeqsExt!Reverse(s) = ZeroInteger, NEW i \in 1 .. 8 PROVE s[i] = 0
    <3>1. SeqsExt!Reverse(s)[(8 - i) + 1] = 0
      BY <2>2, <2>3 DEF ZeroInteger
    <3> QED BY <2>1, <2>2, <3>1
  <2>4. ASSUME \A i \in 1 .. 8 : s[i] = 0 PROVE SeqsExt!Reverse(s) = ZeroInteger
    BY <2>1, <2>2, <2>4 DEF ZeroInteger
  <2> QED BY <2>3, <2>4
<1>11. (\A i \in 1 .. 8 : y[i] = 0) /\ (\A i \in 1 .. 8 : z[i] = 0) <=> \A i \in 1 .. 16 : x[i] = 0
  <2>1. ASSUME \A i \in 1 .. 8 : y[i] = 0 /\ z[i] = 0, NEW i \in 1 .. 16 PROVE x[i] = 0
    <3>1. CASE i <= 8
      BY <1>3, <2>1, <3>1, SMTT(30)
    <3>2. CASE i > 8
      <4>1. i - 8 \in 1 .. 8 /\ (i - 8) + 8 = i
        BY <3>2
      <4> QED BY <1>3, <2>1, <4>1
    <3> QED BY <3>1, <3>2
  <2> QED BY <1>3, <1>4, <2>1
<1>12. (\A i \in 1 .. 16 : x[i] = 0) <=> x = Zeros(16)
  BY DEF Zeros
<1> QED BY <1>2, <1>6, <1>9, <1>10, <1>11, <1>12, ZenonT(60) DEF y, z

\* What OutputMemoryReservation reads is the next reservation, or behind the last
\* one the zeros.
LEMMA ReservationAt ==
    ASSUME NEW tree, IsFlattened(tree), blob = Blob(tree),
           NEW r \in 0 .. Len(tree.reservations), NEW at, at = 40 + 16 * r
    PROVE  /\ at \in Nat /\ at + 16 <= Len(blob) /\ Len(blob) \in Nat
           /\ r < Len(tree.reservations) =>
                /\ UInt64At(at) = SeqsExt!Reverse(SubSeq(tree.reservations[r + 1], 1, 8))
                /\ UInt64At(at + 8) = SeqsExt!Reverse(SubSeq(tree.reservations[r + 1], 9, 16))
                /\ ~(UInt64At(at) = ZeroInteger /\ UInt64At(at + 8) = ZeroInteger)
           /\ r = Len(tree.reservations) => UInt64At(at) = ZeroInteger /\ UInt64At(at + 8) = ZeroInteger
<1> DEFINE p == tree.reservations
           R == Len(p)
<1>1. p \in Seq(Reservation) /\ R \in Nat /\ Len(blob) \in Nat
      /\ Stored(blob, 40, Joined(p, R)) /\ Stored(blob, 40 + 16 * R, Zeros(16))
  BY TreeTypes, BlobIs
<1>2. /\ \A k \in 1 .. R : IsBytes(p[k], 16)
      /\ \A n \in 0 .. R : IsBytes(Joined(p, n), 16 * n)
  BY <1>1, JoinedReservations
<1>3. at \in Nat
  BY <1>1
<1>4. CASE r = R
  <2>1. Zeros(16) \in [1 .. 16 -> Octet]
    BY DEF Zeros, Octet
  <2>2. Stored(blob, at, Zeros(16))
    BY <1>1, <1>4
  <2> DEFINE x == Zeros(16)
  <2>3. x \in [1 .. 16 -> Octet] /\ Stored(blob, at, x) /\ x = Zeros(16)
    BY <2>1, <2>2
  <2> HIDE DEF x
  <2>4. at + 16 <= Len(blob) /\ UInt64At(at) = ZeroInteger /\ UInt64At(at + 8) = ZeroInteger
    BY <1>1, <1>3, <2>3, PairAt
  <2>5. ~(r < Len(tree.reservations))
    BY <1>1, <1>4
  <2> QED BY <1>1, <1>3, <2>4, <2>5
<1>5. CASE r # R
  <2>1. r \in 0 .. R /\ r < R /\ r + 1 \in 1 .. R
    BY <1>1, <1>5
  <2>2. \A k \in 1 .. R : p[k] \in Seq(Nat)
    BY <1>2 DEF IsBytes
  <2> DEFINE x == p[r + 1]
  <2>3. x \in [1 .. 16 -> Octet] /\ x # Zeros(16)
    <3>1. x \in Reservation
      BY <1>1, <2>1, Lists!ElementOfSeq
    <3> QED BY <3>1 DEF Reservation
  <2>4. Len(Joined(p, r)) = 16 * r
    BY <1>2, <2>1 DEF IsBytes
  <2> HIDE DEF p, R, x
  <2>5. \A s \in Nat : Stored(blob, s, Joined(p, R)) => Stored(blob, s + Len(Joined(p, r)), p[r + 1])
    BY <1>1, <2>1, <2>2, StoredJoined
  <2>6. Stored(blob, at, x)
    BY <1>1, <2>4, <2>5 DEF x
  <2>7. /\ UInt64At(at) = SeqsExt!Reverse(SubSeq(x, 1, 8))
        /\ UInt64At(at + 8) = SeqsExt!Reverse(SubSeq(x, 9, 16))
        /\ at + 16 <= Len(blob)
        /\ ~(UInt64At(at) = ZeroInteger /\ UInt64At(at + 8) = ZeroInteger)
    BY <1>1, <1>3, <2>3, <2>6, PairAt
  <2> QED BY <1>1, <1>3, <1>5, <2>7 DEF x, p, R
<1> QED BY <1>4, <1>5

-----------------------------------------------------------------------------
(***************************************************************************)
(* The token that is next.                                                 *)
(***************************************************************************)
\* The walk is inside the root until the last token, and no deeper than it counts.
LEMMA DepthIs ==
    ASSUME NEW tree, IsFlattened(tree), NEW k \in 0 .. Len(tree.items)
    PROVE  Depth(tree.items, k) \in 0 .. IndentLevels - 1
<1>1. IndentLevels \in Nat \ {0}
  BY DeviceTreeAssumption
<1>2. Len(tree.items) \in Nat /\ Len(tree.items) > 1
  BY TreeTypes, LastIsEnd
<1>3. Depth(tree.items, k) \in Int /\ Depth(tree.items, 0) = 0
  BY <1>2, DepthStep
<1>4. CASE k = 0
  BY <1>1, <1>3, <1>4
<1>5. CASE k \in 1 .. Len(tree.items)
  <2>1. Depth(tree.items, k) < IndentLevels
    BY <1>5 DEF IsFlattened
  <2>2. Depth(tree.items, k) >= 0
    <3>1. CASE k \in 1 .. Len(tree.items) - 1
      BY <1>3, <3>1 DEF IsFlattened, IsTree
    <3>2. CASE k = Len(tree.items)
      BY <3>2 DEF IsFlattened, IsTree
    <3> QED BY <1>2, <1>5, <3>1, <3>2
  <2> QED BY <1>1, <1>3, <2>1, <2>2
<1> QED BY <1>2, <1>4, <1>5

\* Only behind the last item is the end of the tokens, if nothing is behind it.
LEMMA RanOffIs ==
    ASSUME NEW tree, IsFlattened(tree), blob = Blob(tree), NEW k \in 1 .. Len(tree.items)
    PROVE  RanOff(ItemAt(tree, k + 1)) <=> k = Len(tree.items) /\ tree.ending = "none"
<1> DEFINE items == tree.items
           N == Len(items)
           p == ItemPart(items)
           s == StructAt(tree)
           l(n) == Len(Joined(p, n))
<1>1. items \in Seq(ItemSet) /\ N \in Nat /\ s \in Nat
  BY TreeTypes, LayoutIs
<1>2. \A n \in 1 .. N : /\ p[n] \in Seq(Nat)
                        /\ Len(p[n]) \in Nat /\ Len(p[n]) >= 4
  BY <1>1, ItemBytesType, ItemLengthIs DEF IsBytes, ItemPart
<1>3. \A n \in 0 .. N : Joined(p, n) \in Seq(Nat)
  <2> HIDE DEF p, N
  <2> QED BY <1>1, <1>2, JoinedIs
<1>4. l(N) \in Nat /\ l(k) \in Nat
  BY <1>1, <1>3
<1>5. ASSUME k # N PROVE l(k) + 4 <= l(N)
  <2> DEFINE b == Joined(p, N)
  <2>1. Len(b) \in Nat /\ k \in 0 .. N /\ k < N /\ k + 1 \in 1 .. N
    BY <1>1, <1>4, <1>5
  <2>2. \A i \in 1 .. Len(b) : b[0 + i] = b[i]
    <3>1. \A i \in 1 .. Len(b) : 0 + i = i
      BY <2>1
    <3> QED BY <3>1
  <2>3. Stored(b, 0, Joined(p, N))
    BY <2>1, <2>2 DEF Stored
  <2>4. \A n \in 1 .. N : p[n] \in Seq(Nat)
    BY <1>2
  <2> HIDE DEF b, p, N
  <2>5. \A at \in Nat : Stored(b, at, Joined(p, N)) =>
          \A n \in 0 .. N : n < N => Stored(b, at + Len(Joined(p, n)), p[n + 1])
    BY <1>1, <2>1, <2>4, StoredJoined
  <2>6. Stored(b, 0 + l(k), p[k + 1])
    BY <2>1, <2>3, <2>5
  <2>7. l(k) + 4 <= l(N)
    <3>1. 0 + l(k) + Len(p[k + 1]) <= Len(b)
      BY <2>6 DEF Stored
    <3>2. Len(p[k + 1]) \in Nat /\ Len(p[k + 1]) >= 4
      BY <1>2, <2>1
    <3>3. Len(b) = l(N)
      BY DEF b
    <3> HIDE DEF l
    <3> QED BY <1>4, <3>1, <3>2, <3>3
  <2> QED BY <2>7
<1>6. k = N \/ l(k) + 4 <= l(N)
  BY <1>5
<1>7. EndOfTokens = s + l(N) + EndingLength(tree)
  <2>1. Field("off_dt_struct") = Layout(tree).off_dt_struct
        /\ Field("size_dt_struct") = Layout(tree).size_dt_struct
    BY HeaderIs
  <2>2. EndOfTokens = TokensEnd(tree)
    BY <2>1, LayoutIs DEF EndOfTokens
  <2> QED BY <2>2 DEF TokensEnd, ItemsLength
<1>8. ItemAt(tree, k + 1) = s + l(k)
  <2>1. (k + 1) - 1 = k
    OBVIOUS
  <2> QED BY <2>1 DEF ItemAt, ItemsLength
<1>9. \/ tree.ending = "none" /\ EndingLength(tree) = 0
      \/ tree.ending # "none" /\ EndingLength(tree) = 4
  <2>1. CASE tree.ending = "none"
    BY <2>1 DEF EndingLength
  <2>2. CASE tree.ending # "none"
    BY <2>2 DEF EndingLength
  <2> QED BY <2>1, <2>2
<1> DEFINE a == l(k)
           c == l(N)
           e == EndingLength(tree)
<1>10. a \in Nat /\ c \in Nat /\ s \in Nat /\ k \in Nat /\ N \in Nat
  BY <1>1, <1>4
<1>11. k = N => a = c
  OBVIOUS
<1>12. RanOff(ItemAt(tree, k + 1)) <=> s + a >= s + c + e
  BY <1>7, <1>8 DEF RanOff
<1> HIDE DEF a, c, e, s, l, N
<1>13. k = N \/ a + 4 <= c
  BY <1>6 DEF a, c
<1>14. \/ tree.ending = "none" /\ e = 0
       \/ tree.ending # "none" /\ e = 4
  BY <1>9 DEF e
<1>15. s + a >= s + c + e <=> k = N /\ tree.ending = "none"
  <2>1. CASE e = 0
    BY <1>10, <1>11, <1>13, <1>14, <2>1
  <2>2. CASE e = 4
    BY <1>10, <1>11, <1>13, <1>14, <2>2
  <2> QED BY <1>14, <2>1, <2>2
<1> QED BY <1>12, <1>15 DEF N

\* The token that is next.
LEMMA NextToken ==
    ASSUME NEW tree, IsFlattened(tree), blob = Blob(tree), NEW k \in 0 .. Len(tree.items),
           k = Len(tree.items) => tree.ending # "none"
    PROVE  /\ Len(blob) \in Nat /\ ItemAt(tree, k + 1) \in Nat /\ ItemAt(tree, k + 1) + 4 <= Len(blob)
           /\ k < Len(tree.items) =>
                UInt32At(ItemAt(tree, k + 1)) = << TokenNumber(tree.items[k + 1].token), 0, 0, 0 >>
           /\ k = Len(tree.items) =>
                UInt32At(ItemAt(tree, k + 1))
                  = IF tree.ending = "end" THEN << 9, 0, 0, 0 >> ELSE << 5, 0, 0, 0 >>
<1> DEFINE N == Len(tree.items)
           at == ItemAt(tree, k + 1)
<1>1. N \in Nat /\ Len(blob) \in Nat /\ tree.ending \in {"end", "unknown", "none"}
  BY TreeTypes, BlobIs
<1>2. CASE k < N
  <2>1. k + 1 \in 1 .. N /\ k # N
    BY <1>1, <1>2
  <2> QED BY <1>1, <1>2, <2>1, ItemTokenAt, ItemAtIs
<1>3. CASE k = N
  <2>1. at = StructAt(tree) + ItemsLength(tree, N) /\ ~(k < N)
    <3>1. (N + 1) - 1 = N /\ ~(N < N)
      BY <1>1
    <3> QED BY <1>3, <3>1 DEF ItemAt
  <2>2. at \in Nat
    <3>1. StructAt(tree) \in Nat
      BY LayoutIs
    <3>2. N \in 0 .. N
      BY <1>1
    <3>3. ItemsLength(tree, N) \in Nat
      BY <3>2, TreeTypes, JoinedItems DEF ItemsLength, IsBytes
    <3> QED BY <2>1, <3>1, <3>3
  <2>3. Stored(blob, at, Ending(tree))
    BY <2>1, BlobIs
  <2>4. CASE tree.ending = "end"
    <3>1. Stored(blob, at, BigEndian(9)) /\ 9 \in 0 .. 255
      BY <2>3, <2>4 DEF Ending
    <3> HIDE DEF at, N
    <3>2. UInt32At(at) = << 9, 0, 0, 0 >> /\ at + 4 <= Len(blob)
      BY <1>1, <2>2, <3>1, TokenAt
    <3> QED BY <1>1, <1>3, <2>1, <2>2, <2>4, <3>2 DEF at, N
  <2>5. CASE tree.ending = "unknown"
    <3>1. Stored(blob, at, BigEndian(5)) /\ 5 \in 0 .. 255
      BY <2>3, <2>5 DEF Ending
    <3> HIDE DEF at, N
    <3>2. UInt32At(at) = << 5, 0, 0, 0 >> /\ at + 4 <= Len(blob)
      BY <1>1, <2>2, <3>1, TokenAt
    <3> QED BY <1>1, <1>3, <2>1, <2>2, <2>5, <3>2 DEF at, N
  <2> QED BY <1>1, <1>3, <2>4, <2>5
<1> QED BY <1>1, <1>2, <1>3

-----------------------------------------------------------------------------
(***************************************************************************)
(* The steps of the walk.                                                  *)
(***************************************************************************)
\* A reservation is listed, or behind the last one the walk goes on to the tokens.
LEMMA ReservationLists ==
    ASSUME NEW tree, IsFlattened(tree), blob = Blob(tree), NEW r \in 0 .. Len(tree.reservations),
           AtReservation(tree, r), OutputMemoryReservation
    PROVE  /\ blob' = blob /\ ReadsInside'
           /\ \/ r + 1 \in 0 .. Len(tree.reservations) /\ AtReservation(tree, r + 1)'
              \/ AtToken(tree, 0)'
<1> DEFINE R == Len(tree.reservations)
           address == UInt64At(cursor)
           size == UInt64At(cursor + 8)
<1>1. /\ HeaderFits(tree) /\ cursor = 40 + 16 * r /\ listing = ListedReservations(tree, r)
      /\ walk = "reservations" /\ R \in Nat
  BY TreeTypes DEF AtReservation
<1>2. /\ cursor \in Nat /\ cursor + 16 <= Len(blob) /\ Len(blob) \in Nat
      /\ r < R => /\ address = SeqsExt!Reverse(SubSeq(tree.reservations[r + 1], 1, 8))
                  /\ size = SeqsExt!Reverse(SubSeq(tree.reservations[r + 1], 9, 16))
                  /\ ~(address = ZeroInteger /\ size = ZeroInteger)
      /\ r = R => address = ZeroInteger /\ size = ZeroInteger
  BY <1>1, ReservationAt
<1>3. blob' = blob /\ read' = Bytes(cursor, 16)
  BY DEF OutputMemoryReservation
<1>4. ReadsInside'
  <2>1. cursor .. cursor + 16 - 1 \subseteq 0 .. Len(blob) - 1
    BY <1>2
  <2> QED BY <1>3, <2>1 DEF ReadsInside, Bytes
<1>5. CASE r < R
  <2>1. ~(address = ZeroInteger /\ size = ZeroInteger)
    BY <1>2, <1>5
  <2>2. /\ listing' = listing \o Line(0, "reservation", << address, size >>)
        /\ cursor' = cursor + 16 /\ walk' = walk
    BY <2>1 DEF OutputMemoryReservation
  <2>3. r \in 0 .. R - 1 /\ r + 1 \in 0 .. R /\ r + 1 \in 1 .. R /\ 40 + 16 * r + 16 = 40 + 16 * (r + 1)
    BY <1>1, <1>5
  <2>4. ReservationLines(tree)[r + 1] = Line(0, "reservation", << address, size >>)
    BY <1>2, <1>5, <2>3 DEF ReservationLines
  <2>5. ListedReservations(tree, r + 1) = ListedReservations(tree, r) \o ReservationLines(tree)[r + 1]
    BY <2>3, ListingParts
  <2>6. listing' = ListedReservations(tree, r + 1) /\ cursor' = 40 + 16 * (r + 1)
    BY <1>1, <2>2, <2>3, <2>4, <2>5
  <2>7. AtReservation(tree, r + 1)'
    BY <1>1, <2>2, <2>6 DEF AtReservation
  <2> QED BY <1>3, <1>4, <2>3, <2>7
<1>6. CASE r = R
  <2>1. address = ZeroInteger /\ size = ZeroInteger
    BY <1>2, <1>6
  <2>2. /\ walk' = "tokens" /\ cursor' = Field("off_dt_struct") /\ indentLevel' = 0
        /\ listing' = listing
    BY <2>1 DEF OutputMemoryReservation
  <2>3. Field("off_dt_struct") = StructAt(tree) /\ StructAt(tree) \in Nat
    BY HeaderIs, LayoutIs
  <2>4. ItemAt(tree, 0 + 1) = StructAt(tree)
    <3>1. Joined(ItemPart(tree.items), 0) = << >>
      BY FlattenEmpty DEF Joined
    <3>2. (0 + 1) - 1 = 0 /\ Len(<< >>) = 0
      OBVIOUS
    <3>3. ItemsLength(tree, 0) = 0
      BY <3>1, <3>2 DEF ItemsLength
    <3> QED BY <2>3, <3>2, <3>3 DEF ItemAt
  <2>5. Depth(tree.items, 0) = 0
    <3>1. 0 \in Nat
      OBVIOUS
    <3> QED BY <3>1, DepthStep
  <2>6. 0 # Len(tree.items)
    BY LastIsEnd
  <2>7. ListedTokens(tree, 0) = ListedReservations(tree, R)
    BY ListingParts
  <2>8. AtToken(tree, 0)'
    BY <1>1, <1>6, <2>2, <2>3, <2>4, <2>5, <2>6, <2>7 DEF AtToken
  <2> QED BY <1>3, <1>4, <2>8
<1> QED BY <1>1, <1>5, <1>6

\* A token was dealt with as the listing has it, and the walk is at the next one or
\* at the end of a tree that was cut off.
LEMMA ContinueLists ==
    ASSUME NEW tree, IsFlattened(tree), blob = Blob(tree), NEW k \in 0 .. Len(tree.items) - 1,
           AtToken(tree, k),
           NEW lines, NEW next, NEW reads, Continue(lines, next, reads),
           lines = ItemLines(tree.items, k + 1), next = ItemAt(tree, (k + 1) + 1),
           reads \subseteq 0 .. Len(blob) - 1, indentLevel' = Depth(tree.items, k + 1)
    PROVE  /\ blob' = blob /\ ReadsInside'
           /\ AtEnd(tree)' \/ AtToken(tree, k + 1)'
<1> DEFINE N == Len(tree.items)
<1>1. /\ HeaderFits(tree) /\ cursor = ItemAt(tree, k + 1) /\ listing = ListedTokens(tree, k)
      /\ walk = "tokens" /\ N \in Nat
  BY TreeTypes DEF AtToken
<1>2. k \in 0 .. N /\ k # N /\ k + 1 \in 1 .. N /\ k + 1 \in 0 .. N
  BY <1>1
<1>3. blob' = blob /\ read' = Bytes(cursor, 4) \union reads /\ cursor' = next
  BY DEF Continue
<1>4. cursor \in Nat /\ cursor + 4 <= Len(blob) /\ Len(blob) \in Nat
  BY <1>1, <1>2, NextToken
<1>5. ReadsInside'
  <2>1. cursor .. cursor + 4 - 1 \subseteq 0 .. Len(blob) - 1
    BY <1>4
  <2> QED BY <1>3, <2>1 DEF ReadsInside, Bytes
<1>6. listing \o lines = ListedTokens(tree, k + 1)
  BY <1>1, ListingParts
<1>7. RanOff(next) <=> k + 1 = N /\ tree.ending = "none"
  BY <1>2, RanOffIs
<1>8. CASE RanOff(next)
  <2>1. listing' = listing \o lines \o Line(0, "ran off the end", << >>) /\ walk' = "done"
    BY <1>8 DEF Continue
  <2>2. TreeListing(tree) = ListedTokens(tree, N) \o EndingLine(tree)
    BY <1>1, ListingParts
  <2>3. EndingLine(tree) = Line(0, "ran off the end", << >>)
    BY <1>7, <1>8 DEF EndingLine
  <2>4. AtEnd(tree)'
    BY <1>6, <1>7, <1>8, <2>1, <2>2, <2>3 DEF AtEnd
  <2> QED BY <1>3, <1>5, <2>4
<1>9. CASE ~RanOff(next)
  <2>1. listing' = listing \o lines /\ walk' = walk
    BY <1>9 DEF Continue
  <2>2. AtToken(tree, k + 1)'
    BY <1>1, <1>3, <1>6, <1>7, <1>9, <2>1 DEF AtToken
  <2> QED BY <1>3, <1>5, <2>2
<1> QED BY <1>8, <1>9

\* The token that is next is that of the item, unless all items are behind.
LEMMA TokenNext ==
    ASSUME NEW tree, IsFlattened(tree), blob = Blob(tree), NEW k \in 0 .. Len(tree.items),
           AtToken(tree, k)
    PROVE  /\ cursor \in Nat /\ cursor + 4 <= Len(blob) /\ Len(blob) \in Nat
           /\ cursor = ItemAt(tree, k + 1)
           /\ k < Len(tree.items) =>
                /\ k \in 0 .. Len(tree.items) - 1 /\ k + 1 \in 1 .. Len(tree.items)
                /\ tree.items[k + 1].token \in Token
                /\ UInt32At(cursor) = << TokenNumber(tree.items[k + 1].token), 0, 0, 0 >>
           /\ k = Len(tree.items) =>
                \/ tree.ending = "end" /\ UInt32At(cursor) = FDT_END
                \/ tree.ending = "unknown" /\ UInt32At(cursor) = << 5, 0, 0, 0 >>
<1> DEFINE N == Len(tree.items)
<1>1. /\ cursor = ItemAt(tree, k + 1) /\ (k = N => tree.ending # "none")
  BY DEF AtToken
<1>2. N \in Nat /\ tree.items \in Seq(ItemSet) /\ tree.ending \in {"end", "unknown", "none"}
  BY TreeTypes
<1>3. /\ cursor \in Nat /\ cursor + 4 <= Len(blob) /\ Len(blob) \in Nat
      /\ k < N => UInt32At(cursor) = << TokenNumber(tree.items[k + 1].token), 0, 0, 0 >>
      /\ k = N => UInt32At(cursor) = IF tree.ending = "end" THEN << 9, 0, 0, 0 >> ELSE << 5, 0, 0, 0 >>
  BY <1>1, NextToken
<1>4. ASSUME k < N
      PROVE  k \in 0 .. N - 1 /\ k + 1 \in 1 .. N /\ tree.items[k + 1].token \in Token
  <2>1. k \in 0 .. N - 1 /\ k + 1 \in 1 .. N
    BY <1>2, <1>4
  <2> QED BY <1>2, <2>1, ItemTypes
<1>5. ASSUME k = N
      PROVE  \/ tree.ending = "end" /\ UInt32At(cursor) = FDT_END
             \/ tree.ending = "unknown" /\ UInt32At(cursor) = << 5, 0, 0, 0 >>
  BY <1>1, <1>2, <1>3, <1>5 DEF FDT_END
<1> QED BY <1>1, <1>3, <1>4, <1>5

LEMMA TokenNumbers ==
    /\ \A t \in Token :
         /\ << TokenNumber(t), 0, 0, 0 >> = FDT_BEGIN_NODE <=> t = "begin"
         /\ << TokenNumber(t), 0, 0, 0 >> = FDT_END_NODE <=> t = "end"
         /\ << TokenNumber(t), 0, 0, 0 >> = FDT_PROP <=> t = "prop"
         /\ << TokenNumber(t), 0, 0, 0 >> = FDT_NOP <=> t = "nop"
         /\ << TokenNumber(t), 0, 0, 0 >> # FDT_END
         /\ << TokenNumber(t), 0, 0, 0 >>
              \in {FDT_BEGIN_NODE, FDT_END_NODE, FDT_PROP, FDT_NOP, FDT_END}
    /\ FDT_END \notin {FDT_BEGIN_NODE, FDT_END_NODE, FDT_PROP, FDT_NOP}
    /\ << 5, 0, 0, 0 >> \notin {FDT_BEGIN_NODE, FDT_END_NODE, FDT_PROP, FDT_NOP, FDT_END}
  BY DEF TokenNumber, Token, FDT_BEGIN_NODE, FDT_END_NODE, FDT_PROP, FDT_NOP, FDT_END

-----------------------------------------------------------------------------
(***************************************************************************)
(* One lemma per token, and the invariant of the walk.                     *)
(***************************************************************************)
\* The indentation counts the depth: it neither wraps nor becomes negative.
LEMMA IndentCounts ==
    ASSUME NEW tree, IsFlattened(tree), NEW k \in 0 .. Len(tree.items) - 1
    PROVE  /\ tree.items[k + 1].token = "begin" =>
                /\ Depth(tree.items, k) = Depth(tree.items, k + 1) - 1
                /\ (Depth(tree.items, k) + 1) % IndentLevels = Depth(tree.items, k + 1)
           /\ tree.items[k + 1].token = "end" =>
                (Depth(tree.items, k) - 1) % IndentLevels = Depth(tree.items, k + 1)
           /\ tree.items[k + 1].token \notin {"begin", "end"} =>
                Depth(tree.items, k) = Depth(tree.items, k + 1)
<1> DEFINE N == Len(tree.items)
           d == Depth(tree.items, k)
           e == Depth(tree.items, k + 1)
           token == tree.items[k + 1].token
<1>1. N \in Nat /\ IndentLevels \in Nat \ {0}
  BY TreeTypes, DeviceTreeAssumption
<1>2. k \in 0 .. N /\ k + 1 \in 0 .. N /\ k \in Nat
  BY <1>1
<1>3. d \in 0 .. IndentLevels - 1 /\ e \in 0 .. IndentLevels - 1
  BY <1>2, DepthIs
<1>4. e = d + (CASE token = "begin" -> 1 [] token = "end" -> -1 [] OTHER -> 0)
  BY <1>2, DepthStep
<1> HIDE DEF d, e, token
<1>5. \A i \in 0 .. IndentLevels - 1 : i % IndentLevels = i
  BY <1>1
<1>6. CASE token = "begin"
  <2>1. e = d + 1
    BY <1>4, <1>6
  <2>2. d = e - 1 /\ d + 1 = e
    BY <1>1, <1>3, <2>1
  <2>3. (d + 1) % IndentLevels = e
    BY <1>3, <1>5, <2>2
  <2> QED BY <1>6, <2>2, <2>3 DEF d, e, token
<1>7. CASE token = "end"
  <2>1. e = d + (-1)
    BY <1>4, <1>7
  <2>2. d - 1 = e
    BY <1>1, <1>3, <2>1
  <2>3. (d - 1) % IndentLevels = e
    BY <1>3, <1>5, <2>2
  <2> QED BY <1>7, <2>3 DEF d, e, token
<1>8. CASE token \notin {"begin", "end"}
  <2>1. e = d + 0
    BY <1>4, <1>8
  <2>2. d = e
    BY <1>1, <1>3, <2>1
  <2> QED BY <1>8, <2>2 DEF d, e, token
<1> QED BY <1>6, <1>7, <1>8

\* One lemma per token.
LEMMA BeginLists ==
    ASSUME NEW tree, IsFlattened(tree), blob = Blob(tree), NEW k \in 0 .. Len(tree.items),
           AtToken(tree, k), OutputBeginNode
    PROVE  /\ k < Len(tree.items) /\ blob' = blob /\ ReadsInside'
           /\ AtEnd(tree)' \/ AtToken(tree, k + 1)'
<1> DEFINE N == Len(tree.items)
           item == tree.items[k + 1]
<1>1. UInt32At(cursor) = FDT_BEGIN_NODE
  BY DEF OutputBeginNode, NextIs
<1>2. k < N /\ k \in 0 .. N - 1 /\ k + 1 \in 1 .. N /\ item.token = "begin"
  <2>1. N \in Nat /\ (k < N \/ k = N)
    BY TreeTypes
  <2> QED BY <1>1, <2>1, TokenNext, TokenNumbers
<1>3. cursor = ItemAt(tree, k + 1) /\ indentLevel = Depth(tree.items, k)
  BY DEF AtToken
<1>4. /\ StringAt(ExtraData) = item.name
      /\ AlignPointer(ExtraData + StrLen(ExtraData) + 1, 4) = ItemAt(tree, (k + 1) + 1)
      /\ StringBytes(ExtraData) \subseteq 0 .. Len(blob) - 1
  <2>1. ExtraData = ItemAt(tree, k + 1) + 4
    BY <1>3 DEF ExtraData
  <2> QED BY <1>2, <2>1, BeginAt
<1>5. /\ Depth(tree.items, k) = Depth(tree.items, k + 1) - 1
      /\ (Depth(tree.items, k) + 1) % IndentLevels = Depth(tree.items, k + 1)
  BY <1>2, IndentCounts
<1>6. ItemLines(tree.items, k + 1) = Line(indentLevel, "begin", << StringAt(ExtraData) >>)
  <2>1. ItemLines(tree.items, k + 1) = Line(Depth(tree.items, k + 1) - 1, "begin", << item.name >>)
    BY <1>2 DEF ItemLines
  <2> QED BY <1>3, <1>4, <1>5, <2>1
<1>7. indentLevel' = Depth(tree.items, k + 1)
  BY <1>3, <1>5 DEF OutputBeginNode
<1> DEFINE lines == Line(indentLevel, "begin", << StringAt(ExtraData) >>)
           next == AlignPointer(ExtraData + StrLen(ExtraData) + 1, 4)
           reads == StringBytes(ExtraData)
<1>8. Continue(lines, next, reads)
  BY DEF OutputBeginNode
<1>9. lines = ItemLines(tree.items, k + 1) /\ next = ItemAt(tree, (k + 1) + 1) /\ reads \subseteq 0 .. Len(blob) - 1
  BY <1>4, <1>6
<1> HIDE DEF lines, next, reads
<1> QED BY <1>2, <1>7, <1>8, <1>9, ContinueLists

LEMMA EndLists ==
    ASSUME NEW tree, IsFlattened(tree), blob = Blob(tree), NEW k \in 0 .. Len(tree.items),
           AtToken(tree, k), OutputEndNode
    PROVE  /\ k < Len(tree.items) /\ blob' = blob /\ ReadsInside'
           /\ AtEnd(tree)' \/ AtToken(tree, k + 1)'
<1> DEFINE N == Len(tree.items)
           item == tree.items[k + 1]
<1>1. UInt32At(cursor) = FDT_END_NODE
  BY DEF OutputEndNode, NextIs
<1>2. k < N /\ k \in 0 .. N - 1 /\ k + 1 \in 1 .. N /\ item.token = "end"
  <2>1. N \in Nat /\ (k < N \/ k = N)
    BY TreeTypes
  <2> QED BY <1>1, <2>1, TokenNext, TokenNumbers
<1>3. cursor = ItemAt(tree, k + 1) /\ indentLevel = Depth(tree.items, k)
  BY DEF AtToken
<1>4. ExtraData = ItemAt(tree, (k + 1) + 1)
  <2>1. ItemAt(tree, (k + 1) + 1) = ItemAt(tree, k + 1) + ItemLength(item)
    BY <1>2, ItemAtIs
  <2>2. ItemLength(item) = 4
    BY <1>2 DEF ItemLength
  <2> QED BY <1>3, <2>1, <2>2 DEF ExtraData
<1>5. (Depth(tree.items, k) - 1) % IndentLevels = Depth(tree.items, k + 1)
  BY <1>2, IndentCounts
<1>6. ItemLines(tree.items, k + 1) = Line(IndentedAfter, "end", << >>)
  <2>1. ItemLines(tree.items, k + 1) = Line(Depth(tree.items, k + 1), "end", << >>)
    BY <1>2 DEF ItemLines
  <2>2. IndentedAfter = Depth(tree.items, k + 1)
    BY <1>3, <1>5 DEF IndentedAfter
  <2> QED BY <2>1, <2>2
<1>7. indentLevel' = Depth(tree.items, k + 1)
  BY <1>3, <1>5 DEF OutputEndNode
<1> DEFINE lines == Line(IndentedAfter, "end", << >>)
           next == ExtraData
           reads == {}
<1>8. Continue(lines, next, reads)
  BY DEF OutputEndNode
<1>9. lines = ItemLines(tree.items, k + 1) /\ next = ItemAt(tree, (k + 1) + 1) /\ reads \subseteq 0 .. Len(blob) - 1
  BY <1>4, <1>6
<1> HIDE DEF lines, next, reads
<1> QED BY <1>2, <1>7, <1>8, <1>9, ContinueLists

LEMMA NopLists ==
    ASSUME NEW tree, IsFlattened(tree), blob = Blob(tree), NEW k \in 0 .. Len(tree.items),
           AtToken(tree, k), OutputNop
    PROVE  /\ k < Len(tree.items) /\ blob' = blob /\ ReadsInside'
           /\ AtEnd(tree)' \/ AtToken(tree, k + 1)'
<1> DEFINE N == Len(tree.items)
           item == tree.items[k + 1]
<1>1. UInt32At(cursor) = FDT_NOP
  BY DEF OutputNop, NextIs
<1>2. k < N /\ k \in 0 .. N - 1 /\ k + 1 \in 1 .. N /\ item.token = "nop"
  <2>1. N \in Nat /\ (k < N \/ k = N)
    BY TreeTypes
  <2> QED BY <1>1, <2>1, TokenNext, TokenNumbers
<1>3. cursor = ItemAt(tree, k + 1) /\ indentLevel = Depth(tree.items, k)
  BY DEF AtToken
<1>4. ExtraData = ItemAt(tree, (k + 1) + 1)
  <2>1. ItemAt(tree, (k + 1) + 1) = ItemAt(tree, k + 1) + ItemLength(item)
    BY <1>2, ItemAtIs
  <2>2. ItemLength(item) = 4
    BY <1>2 DEF ItemLength
  <2> QED BY <1>3, <2>1, <2>2 DEF ExtraData
<1>5. Depth(tree.items, k) = Depth(tree.items, k + 1)
  BY <1>2, IndentCounts
<1>6. ItemLines(tree.items, k + 1) = << >>
  BY <1>2 DEF ItemLines
<1>7. indentLevel' = Depth(tree.items, k + 1)
  BY <1>3, <1>5 DEF OutputNop
<1> DEFINE lines == << >>
           next == ExtraData
           reads == {}
<1>8. Continue(lines, next, reads)
  BY DEF OutputNop
<1>9. lines = ItemLines(tree.items, k + 1) /\ next = ItemAt(tree, (k + 1) + 1) /\ reads \subseteq 0 .. Len(blob) - 1
  BY <1>4, <1>6
<1> HIDE DEF lines, next, reads
<1> QED BY <1>2, <1>7, <1>8, <1>9, ContinueLists

LEMMA PropLists ==
    ASSUME NEW tree, IsFlattened(tree), blob = Blob(tree), NEW k \in 0 .. Len(tree.items),
           AtToken(tree, k), OutputProp
    PROVE  /\ k < Len(tree.items) /\ blob' = blob /\ ReadsInside'
           /\ AtEnd(tree)' \/ AtToken(tree, k + 1)'
<1> DEFINE N == Len(tree.items)
           item == tree.items[k + 1]
           v == item.value
           n == Len(v)
           p == ItemAt(tree, k + 1)
           m == Len(StringsBefore(tree.items, k + 1))
<1>1. UInt32At(cursor) = FDT_PROP
  BY DEF OutputProp, NextIs
<1>2. k < N /\ k \in 0 .. N - 1 /\ k + 1 \in 1 .. N /\ item.token = "prop"
  <2>1. N \in Nat /\ (k < N \/ k = N)
    BY TreeTypes
  <2> QED BY <1>1, <2>1, TokenNext, TokenNumbers
<1>3. cursor = p /\ indentLevel = Depth(tree.items, k)
  BY DEF AtToken
<1>4. /\ p \in Nat /\ p % 4 = 0 /\ n \in Nat
      /\ Stored(blob, p + 12, v)
      /\ ItemAt(tree, (k + 1) + 1) = p + 12 + n + Pad(n)
      /\ AlignPointer(p + 12 + n, 4) = ItemAt(tree, (k + 1) + 1)
  <2> DEFINE j == k + 1
  <2>1. p = ItemAt(tree, j) /\ v = tree.items[j].value /\ n = Len(v)
    OBVIOUS
  <2>2. j \in 1 .. N /\ tree.items[j].token = "prop" /\ j = k + 1
    BY <1>2
  <2> HIDE DEF j, p, v, n
  <2>3. /\ p \in Nat /\ p % 4 = 0 /\ n \in Nat
        /\ Stored(blob, p + 12, v)
        /\ ItemAt(tree, j + 1) = p + 12 + n + Pad(n)
        /\ AlignPointer(p + 12 + n, 4) = ItemAt(tree, j + 1)
    BY <2>1, <2>2, PropParts, SMTT(30)
  <2> QED BY <2>2, <2>3
<1>5. /\ NumberOf(UInt32At(p + 4)) = n
      /\ NumberOf(UInt32At(p + 8)) = m
      /\ p + 12 + n < Len(blob) /\ Byte(p + 12 + n) = 0
  <2> DEFINE j == k + 1
  <2>1. p = ItemAt(tree, j) /\ v = tree.items[j].value /\ n = Len(v)
    OBVIOUS
  <2>2. j \in 1 .. N /\ tree.items[j].token = "prop" /\ j = k + 1
    BY <1>2
  <2> HIDE DEF j, p, v, n
  <2> QED BY <2>1, <2>2, PropAt, SMTT(30) DEF m
<1>6. Len(blob) \in Nat /\ v \in Seq(Octet)
  <2>1. tree.items \in Seq(ItemSet)
    BY TreeTypes
  <2>2. item \in ItemSet
    BY <1>2, <2>1, Lists!ElementOfSeq
  <2> HIDE DEF item
  <2> QED BY <2>2, BlobIs DEF ItemSet
<1>7. Depth(tree.items, k) = Depth(tree.items, k + 1)
  BY <1>2, IndentCounts
<1> DEFINE pname == TokensEnd(tree) + m
<1>8. /\ StringAt(pname) = item.name
      /\ StringBytes(pname) \subseteq 0 .. Len(blob) - 1
  BY <1>2, StringsBeforeAt
<1>9. Field("off_dt_strings") = TokensEnd(tree)
  BY HeaderIs, LayoutIs
<1>10. ExtraData = p + 4 /\ ExtraData + 4 = p + 8 /\ ExtraData + 8 = p + 12
  BY <1>3, <1>4 DEF ExtraData
<1> DEFINE shows == Shows(item.name, v)
           value == IF n = 0 THEN Value("flag", << >>, {})
                    ELSE PrettyPrintValue(item.name, p + 12, n)
<1>11. Printed(value, shows)
  <2>1. CASE n = 0
    <3>1. v = << >>
      BY <1>6, <2>1
    <3>2. shows = << "flag", << >> >> /\ value = Value("flag", << >>, {})
      BY <2>1, <3>1 DEF Shows
    <3> QED BY <3>2, ValueIs DEF Printed
  <2>2. CASE n # 0
    <3>1. v # << >>
      BY <2>2
    <3>2. p + 12 \in Nat
      BY <1>4
    <3>3. ValueAt(p + 12, v)
      BY <1>4, <1>5, <1>6, <3>1, <3>2 DEF ValueAt
    <3>4. value = PrettyPrintValue(item.name, p + 12, n)
      BY <2>2
    <3>5. Printed(PrettyPrintValue(item.name, p + 12, n), shows)
      BY <3>3, ValueShows
    <3> QED BY <3>4, <3>5
  <2> QED BY <2>1, <2>2
<1> DEFINE lines == Line(indentLevel, value.says, << item.name >> \o value.shows)
           next == AlignPointer(p + 12 + n, 4)
           reads == Bytes(p + 4, 8) \union StringBytes(pname) \union value.reads
<1>12. Continue(lines, next, reads) /\ indentLevel' = indentLevel
  <2> HIDE DEF pname, p, n, m
  <2> DEFINE w == IF NumberOf(UInt32At(ExtraData)) = 0 THEN Value("flag", << >>, {})
                  ELSE PrettyPrintValue(StringAt(Field("off_dt_strings") + NumberOf(UInt32At(ExtraData + 4))),
                                        ExtraData + 8, NumberOf(UInt32At(ExtraData)))
             name == Field("off_dt_strings") + NumberOf(UInt32At(ExtraData + 4))
  <2>1. /\ Continue(Line(indentLevel, w.says, << StringAt(name) >> \o w.shows),
                    AlignPointer(ExtraData + 8 + NumberOf(UInt32At(ExtraData)), 4),
                    Bytes(ExtraData, 8) \union StringBytes(name) \union w.reads)
        /\ indentLevel' = indentLevel
    BY DEF OutputProp
  <2>2. name = pname
    BY <1>5, <1>9, <1>10 DEF pname
  <2>3. NumberOf(UInt32At(ExtraData)) = n
    BY <1>5, <1>10
  <2>4. StringAt(name) = item.name
    BY <1>8, <2>2
  <2>5. w = value
    BY <1>10, <2>3, <2>4
  <2> HIDE DEF w, value, name
  <2> QED BY <1>10, <2>1, <2>2, <2>3, <2>4, <2>5
<1>13. lines = ItemLines(tree.items, k + 1)
  <2>1. ItemLines(tree.items, k + 1) =
          Line(Depth(tree.items, k + 1), shows[1], << item.name >> \o shows[2])
    BY <1>2 DEF ItemLines
  <2> HIDE DEF value, shows
  <2> QED BY <1>3, <1>7, <1>11, <2>1 DEF Printed
<1>14. reads \subseteq 0 .. Len(blob) - 1
  <2>1. Bytes(p + 4, 8) \subseteq 0 .. Len(blob) - 1
    <3> DEFINE b == Len(blob)
    <3>1. p \in Nat /\ n \in Nat /\ b \in Nat /\ p + 12 + n < b
      BY <1>4, <1>5, <1>6
    <3> HIDE DEF p, n, b
    <3>2. p + 4 .. p + 4 + 8 - 1 \subseteq 0 .. b - 1
      BY <3>1
    <3> QED BY <3>2 DEF Bytes, b
  <2>2. value.reads \subseteq 0 .. Len(blob) - 1
    BY <1>11 DEF Printed
  <2> QED BY <1>8, <2>1, <2>2
<1>15. next = ItemAt(tree, (k + 1) + 1) /\ indentLevel' = Depth(tree.items, k + 1)
  BY <1>3, <1>4, <1>7, <1>12
<1> HIDE DEF lines, next, reads
<1> QED BY <1>2, <1>12, <1>13, <1>14, <1>15, ContinueLists

\* FDT_END and a token of another kind end the walk.
LEMMA FinishLists ==
    ASSUME NEW tree, IsFlattened(tree), blob = Blob(tree), NEW k \in 0 .. Len(tree.items),
           AtToken(tree, k), OutputEnd \/ UnknownToken
    PROVE  blob' = blob /\ ReadsInside' /\ AtEnd(tree)'
<1> DEFINE N == Len(tree.items)
<1>1. /\ cursor \in Nat /\ cursor + 4 <= Len(blob) /\ Len(blob) \in Nat
  BY TokenNext
<1>2. blob' = blob /\ read' = Bytes(cursor, 4) /\ walk' = "done"
  BY DEF OutputEnd, UnknownToken, Finish
<1>3. ReadsInside'
  <2>1. cursor .. cursor + 4 - 1 \subseteq 0 .. Len(blob) - 1
    BY <1>1
  <2> QED BY <1>2, <2>1 DEF ReadsInside, Bytes
<1>4. k = N
  <2>1. N \in Nat /\ (k < N \/ k = N)
    BY TreeTypes
  <2>2. CASE k < N
    <3>1. UInt32At(cursor) = << TokenNumber(tree.items[k + 1].token), 0, 0, 0 >>
          /\ tree.items[k + 1].token \in Token
      BY <2>2, TokenNext
    <3>2. /\ UInt32At(cursor) # FDT_END
          /\ UInt32At(cursor) \in {FDT_BEGIN_NODE, FDT_END_NODE, FDT_PROP, FDT_NOP, FDT_END}
      BY <3>1, TokenNumbers
    <3> QED BY <3>2 DEF OutputEnd, UnknownToken, NextIs
  <2> QED BY <2>1, <2>2
<1>5. \/ tree.ending = "end" /\ UInt32At(cursor) = FDT_END
      \/ tree.ending = "unknown" /\ UInt32At(cursor) = << 5, 0, 0, 0 >>
  BY <1>4, TokenNext
<1>6. listing = ListedTokens(tree, N) /\ TreeListing(tree) = ListedTokens(tree, N) \o EndingLine(tree)
  BY <1>4, ListingParts DEF AtToken
<1>7. CASE tree.ending = "end" /\ UInt32At(cursor) = FDT_END
  <2>1. listing' = listing \o << >>
    BY <1>7 DEF OutputEnd, UnknownToken, Finish
  <2>2. EndingLine(tree) = << >>
    BY <1>7 DEF EndingLine
  <2> QED BY <1>2, <1>3, <1>6, <2>1, <2>2 DEF AtEnd
<1>8. CASE tree.ending = "unknown" /\ UInt32At(cursor) = << 5, 0, 0, 0 >>
  <2>1. UInt32At(cursor) # FDT_END
    BY <1>8, TokenNumbers
  <2>2. listing' = listing \o Line(0, "unknown token", << UInt32At(cursor) >>)
    BY <2>1 DEF OutputEnd, UnknownToken, Finish, NextIs
  <2>3. EndingLine(tree) = Line(0, "unknown token", << UInt32At(cursor) >>)
    BY <1>8 DEF EndingLine
  <2> QED BY <1>2, <1>3, <1>6, <2>2, <2>3 DEF AtEnd
<1> QED BY <1>5, <1>7, <1>8

\* What holds during the walk of a tree.
WalkKnows(tree) ==
    /\ ReadsInside
    /\ \/ walk = "header"
       \/ \E r \in 0 .. Len(tree.reservations) : AtReservation(tree, r)
       \/ \E k \in 0 .. Len(tree.items) : AtToken(tree, k)
       \/ AtEnd(tree)

LEMMA WalkKeeps ==
    ASSUME NEW tree, IsFlattened(tree), blob = Blob(tree), WalkKnows(tree), WalkNext
    PROVE  blob' = blob /\ WalkKnows(tree)'
<1>1. CASE CheckHeader
  <2>1. 0 \in 0 .. Len(tree.reservations)
    BY TreeTypes
  <2> QED BY <1>1, <2>1, CheckHeaderLists DEF WalkKnows
<1>2. CASE OutputMemoryReservation
  <2>1. walk = "reservations"
    BY <1>2 DEF OutputMemoryReservation
  <2>2. PICK r \in 0 .. Len(tree.reservations) : AtReservation(tree, r)
    BY <2>1 DEF WalkKnows, AtToken, AtEnd
  <2>3. 0 \in 0 .. Len(tree.items)
    BY TreeTypes
  <2> QED BY <1>2, <2>2, <2>3, ReservationLists DEF WalkKnows
<1>3. CASE OutputDeviceTree
  <2>1. walk = "tokens"
    BY <1>3 DEF OutputDeviceTree, OutputBeginNode, OutputEndNode, OutputProp, OutputNop, OutputEnd,
                UnknownToken, NextIs
  <2>2. PICK k \in 0 .. Len(tree.items) : AtToken(tree, k)
    BY <2>1 DEF WalkKnows, AtReservation, AtEnd
  <2>3. Len(tree.items) \in Nat /\ (k < Len(tree.items) => k + 1 \in 0 .. Len(tree.items))
    BY TreeTypes
  <2>4. CASE OutputBeginNode \/ OutputEndNode \/ OutputProp \/ OutputNop
    <3>1. /\ k < Len(tree.items) /\ blob' = blob /\ ReadsInside'
          /\ AtEnd(tree)' \/ AtToken(tree, k + 1)'
      BY <2>2, <2>4, BeginLists, EndLists, PropLists, NopLists
    <3> QED BY <2>3, <3>1 DEF WalkKnows
  <2>5. CASE OutputEnd \/ UnknownToken
    BY <2>2, <2>5, FinishLists DEF WalkKnows
  <2> QED BY <1>3, <2>4, <2>5 DEF OutputDeviceTree
<1> QED BY <1>1, <1>2, <1>3 DEF WalkNext
=============================================================================
