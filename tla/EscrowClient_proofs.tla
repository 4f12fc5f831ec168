------------------------- MODULE EscrowClient_proofs -------------------------
(***************************************************************************)
(* The generated client reads back what it writes.  The codecs are proved  *)
(* for every layout of fields, so for any number, order and width of them: *)
(* a decoder finds each field where the encoder has put it, also behind    *)
(* options, whose width depends on what is in them.  The seven             *)
(* instructions and the two accounts are instances of that, because the    *)
(* lists of their decoders and parsers are found equal to those of their   *)
(* encoders and builders.                                                  *)
(*                                                                         *)
(* Flattening the fields and counting their offsets are recursive          *)
(* functions; the inductions over them are by a least counterexample.      *)
(***************************************************************************)
EXTENDS EscrowClient, FiniteSetTheorems, SequenceTheorems, WellFoundedInduction, TLAPS

LEMMA Least ==
  ASSUME NEW T, T \subseteq Nat, T # {}
  PROVE  \E n \in T : \A m \in T : n <= m
<1>1. PICK n \in T : \A m \in T : ~ (<<m, n>> \in OpToRel(<, Nat))
  BY NatLessThanWellFounded, WFMin
<1>2. \A m \in T : ~ (m < n)
  BY <1>1 DEF OpToRel
<1> QED BY <1>2

-----------------------------------------------------------------------------
(* Flattening a sequence of sequences *)

\* f is the function by which FlattenSeq is defined, as far as n.
Flattens(f, s, n) ==
  f = [i \in 1..n |-> IF i = 1 THEN s[i] ELSE f[i-1] \o s[i]]

LEMMA FlattensExists ==
  ASSUME NEW s, NEW n \in Nat
  PROVE  \E f : Flattens(f, s, n)
<1> DEFINE Without == {m \in 0..n : ~ \E f : Flattens(f, s, m)}
<1> SUFFICES ASSUME Without # {} PROVE FALSE
  OBVIOUS
<1>0. Without \subseteq Nat
  OBVIOUS
<1>1. PICK m \in Without : \A k \in Without : m <= k
  <2> HIDE DEF Without
  <2> QED BY <1>0, Least
<1>2. m # 0
  <2>1. Flattens(<<>>, s, 0)
    BY DEF Flattens
  <2> QED BY <2>1
<1>3. m - 1 \in 0..n /\ m - 1 \notin Without /\ m \in Nat
  BY <1>1, <1>2
<1>4. PICK f : Flattens(f, s, m - 1)
  BY <1>3
<1> DEFINE last == IF m = 1 THEN s[m] ELSE f[m-1] \o s[m]
           g == [i \in 1..m |-> IF i = m THEN last ELSE f[i]]
<1>5. \A i \in 1..(m-1) : g[i] = f[i]
  BY <1>3
<1>6. \A i \in 1..m : g[i] = IF i = 1 THEN s[i] ELSE g[i-1] \o s[i]
  <2> SUFFICES ASSUME NEW i \in 1..m PROVE g[i] = IF i = 1 THEN s[i] ELSE g[i-1] \o s[i]
    OBVIOUS
  <2>1. CASE i = m
    BY <1>3, <1>5, <2>1
  <2>2. CASE i # m
    <3>1. i \in 1..(m-1) /\ (i = 1 \/ i - 1 \in 1..(m-1))
      BY <1>3, <2>2
    <3>2. f[i] = IF i = 1 THEN s[i] ELSE f[i-1] \o s[i]
      BY <1>4, <3>1 DEF Flattens
    <3> QED BY <1>5, <3>1, <3>2
  <2> QED BY <2>1, <2>2
<1>7. Flattens(g, s, m)
  <2>1. g = [i \in 1..m |-> g[i]]
    OBVIOUS
  <2> HIDE DEF g
  <2> QED BY <1>6, <2>1 DEF Flattens
<1> QED BY <1>1, <1>7

LEMMA FlattenIs ==
  ASSUME NEW s, Len(s) \in Nat \ {0}
  PROVE  \E f : Flattens(f, s, Len(s)) /\ FlattenSeq(s) = f[Len(s)]
<1> DEFINE f == CHOOSE g : Flattens(g, s, Len(s))
<1>1. Flattens(f, s, Len(s))
  BY FlattensExists
<1>2. FlattenSeq(s) = f[Len(s)]
  BY DEF FlattenSeq, Flattens
<1> QED BY <1>1, <1>2

LEMMA FlatStep ==
  ASSUME NEW s, NEW n \in Nat, NEW f, Flattens(f, s, n)
  PROVE  \A i \in 1..n : (i = 1 => f[i] = s[i]) /\ (i # 1 => f[i] = f[i-1] \o s[i])
  BY DEF Flattens

\* Two sequences, one behind the other.
LEMMA Behind ==
  ASSUME NEW U, NEW a \in Seq(U), NEW b \in Seq(U), NEW c, c = a \o b
  PROVE  /\ c \in Seq(U) /\ Len(a) \in Nat /\ Len(b) \in Nat /\ Len(c) \in Nat
         /\ Len(c) = Len(a) + Len(b) /\ Len(a) <= Len(c)
         /\ \A k \in 1..Len(a) : c[k] = a[k]
         /\ \A k \in 1..Len(b) : c[Len(a) + k] = b[k]
<1>1. /\ a \o b \in Seq(U) /\ Len(a) \in Nat /\ Len(b) \in Nat
      /\ Len(a \o b) = Len(a) + Len(b)
  BY ConcatProperties, LenProperties
<1>2. ASSUME NEW k \in 1..Len(a) PROVE (a \o b)[k] = a[k]
  BY <1>1, ConcatProperties
<1>3. ASSUME NEW k \in 1..Len(b) PROVE (a \o b)[Len(a) + k] = b[k]
  BY <1>1, ConcatProperties
<1> QED BY <1>1, <1>2, <1>3

LEMMA FlatTyped ==
  ASSUME NEW s, NEW n \in Nat, NEW f, Flattens(f, s, n),
         NEW U, \A i \in 1..n : s[i] \in Seq(U)
  PROVE  \A i \in 1..n : f[i] \in Seq(U)
<1> DEFINE Wrong == {i \in 1..n : f[i] \notin Seq(U)}
<1> SUFFICES ASSUME Wrong # {} PROVE FALSE
  OBVIOUS
<1>0. Wrong \subseteq Nat
  OBVIOUS
<1>1. PICK i \in Wrong : \A k \in Wrong : i <= k
  <2> HIDE DEF Wrong
  <2> QED BY <1>0, Least
<1>2. i \in 1..n /\ f[i] \notin Seq(U) /\ s[i] \in Seq(U)
  OBVIOUS
<1>3. i = 1 \/ (i - 1 \in 1..n /\ f[i-1] \in Seq(U))
  BY <1>1, <1>2
<1>4. (i = 1 => f[i] = s[i]) /\ (i # 1 => f[i] = f[i-1] \o s[i])
  BY <1>2, FlatStep
<1> HIDE DEF Wrong
<1> QED BY <1>2, <1>3, <1>4, Behind

\* What is flattened first stays in front.
LEMMA FlatPrefix ==
  ASSUME NEW s, NEW n \in Nat, NEW f, Flattens(f, s, n),
         NEW U, \A j \in 1..n : s[j] \in Seq(U), NEW i \in 1..n
  PROVE  \A m \in i..n :
           /\ Len(f[i]) <= Len(f[m])
           /\ \A k \in 1..Len(f[i]) : f[m][k] = f[i][k]
<1> DEFINE Prefix(m) == /\ Len(f[i]) <= Len(f[m])
                        /\ \A k \in 1..Len(f[i]) : f[m][k] = f[i][k]
           Wrong == {m \in i..n : ~ Prefix(m)}
<1> SUFFICES ASSUME Wrong # {} PROVE FALSE
  OBVIOUS
<1>0. Wrong \subseteq Nat
  OBVIOUS
<1>1. PICK m \in Wrong : \A k \in Wrong : m <= k
  <2> HIDE DEF Wrong
  <2> QED BY <1>0, Least
<1>2. m \in i..n /\ ~ Prefix(m) /\ (m - 1 \in i..n => Prefix(m - 1))
  <2>1. m \in i..n /\ ~ Prefix(m)
    OBVIOUS
  <2>2. m - 1 \notin Wrong
    <3> HIDE DEF Wrong
    <3> QED BY <1>0, <1>1
  <2> HIDE DEF Prefix
  <2> QED BY <2>1, <2>2
<1> HIDE DEF Wrong
<1>3. \A k \in 1..n : f[k] \in Seq(U) /\ Len(f[k]) \in Nat
  BY FlatTyped, LenProperties
<1>4. m # i
  BY <1>2, <1>3
<1>5. m - 1 \in i..n /\ m \in 2..n /\ m - 1 \in 1..n /\ m \in 1..n /\ m # 1
  BY <1>2, <1>4
<1>6. f[m] = f[m-1] \o s[m]
  <2> HIDE DEF Prefix
  <2> QED BY <1>5, FlatStep
<1>7. f[m-1] \in Seq(U) /\ s[m] \in Seq(U)
  <2> HIDE DEF Prefix
  <2> QED BY <1>3, <1>5
<1> DEFINE a == f[m-1]
           b == f[m]
<1>8. /\ Len(a) \in Nat /\ Len(b) \in Nat /\ Len(a) <= Len(b)
      /\ \A k \in 1..Len(a) : b[k] = a[k]
  <2> HIDE DEF Prefix
  <2>1. a \in Seq(U) /\ s[m] \in Seq(U) /\ b = a \o s[m]
    BY <1>6, <1>7
  <2> HIDE DEF a, b
  <2> QED BY <2>1, Behind
<1>9. Prefix(m - 1) /\ Len(f[i]) \in Nat
  BY <1>2, <1>3, <1>5
<1>10. Prefix(m)
  BY <1>8, <1>9
<1> QED BY <1>2, <1>10

\* Where the i-th sequence begins.
StartOf(f, i) == IF i = 1 THEN 0 ELSE Len(f[i-1])

IsFlat(whole, part, e, start, U) ==
  /\ start \in Nat /\ whole \in Seq(U) /\ part \in Seq(U)
  /\ Len(part) = start + Len(e)
  /\ Len(part) <= Len(whole)
  /\ \A k \in 1..Len(e) : whole[start + k] = e[k]

LEMMA FlatPlaces ==
  ASSUME NEW s, NEW n \in Nat, NEW f, Flattens(f, s, n),
         NEW U, \A j \in 1..n : s[j] \in Seq(U), NEW i \in 1..n
  PROVE  IsFlat(f[n], f[i], s[i], StartOf(f, i), U)
<1>1. \A k \in 1..n : f[k] \in Seq(U) /\ Len(f[k]) \in Nat
  BY FlatTyped, LenProperties
<1>2. StartOf(f, i) \in Nat
  BY <1>1 DEF StartOf
<1>3. s[i] \in Seq(U) /\ Len(s[i]) \in Nat
  BY LenProperties
<1>4. (i = 1 => f[i] = s[i]) /\ (i # 1 => f[i] = f[i-1] \o s[i])
  BY FlatStep
<1>5. /\ Len(f[i]) = StartOf(f, i) + Len(s[i])
      /\ \A k \in 1..Len(s[i]) : f[i][StartOf(f, i) + k] = s[i][k]
  <2>1. CASE i = 1
    BY <1>3, <1>4, <2>1 DEF StartOf
  <2>2. CASE i # 1
    <3>1. f[i-1] \in Seq(U) /\ StartOf(f, i) = Len(f[i-1])
      BY <1>1, <2>2 DEF StartOf
    <3> DEFINE a == f[i-1]
               c == f[i]
    <3>2. a \in Seq(U) /\ c = a \o s[i]
      BY <1>4, <2>2, <3>1
    <3>3. /\ Len(c) = Len(a) + Len(s[i])
          /\ \A k \in 1..Len(s[i]) : c[Len(a) + k] = s[i][k]
      <4> HIDE DEF a, c
      <4> QED BY <1>3, <3>2, Behind
    <3> QED BY <3>1, <3>3
  <2> QED BY <2>1, <2>2
<1>6. /\ Len(f[i]) <= Len(f[n])
      /\ \A k \in 1..Len(f[i]) : f[n][k] = f[i][k]
  <2>1. n \in i..n
    OBVIOUS
  <2>2. \A m \in i..n :
          /\ Len(f[i]) <= Len(f[m])
          /\ \A k \in 1..Len(f[i]) : f[m][k] = f[i][k]
    BY FlatPrefix
  <2> QED BY <2>1, <2>2
<1>7. ASSUME NEW k \in 1..Len(s[i]) PROVE f[n][StartOf(f, i) + k] = s[i][k]
  <2>1. StartOf(f, i) + k \in 1..Len(f[i])
    BY <1>2, <1>3, <1>5
  <2> QED BY <1>5, <1>6, <2>1
<1>8. n \in 1..n
  OBVIOUS
<1> QED BY <1>1, <1>2, <1>5, <1>6, <1>7, <1>8 DEF IsFlat

-----------------------------------------------------------------------------
(* One field *)

LEMMA BytesAre ==
  ASSUME NEW v, NEW n \in Nat
  PROVE  /\ Bytes(v, n) \in Seq({v} \X Nat) /\ Len(Bytes(v, n)) = n
         /\ \A k \in 1..n : Bytes(v, n)[k] = <<v, k>>
  BY DEF Bytes

\* n bytes of one value are read as that value.
LEMMA BytesRead ==
  ASSUME NEW v, NEW n \in Nat \ {0}, NEW at \in Nat, NEW U, NEW data \in Seq(U),
         at + n <= Len(data), \A k \in 1..n : data[at + k] = <<v, k>>
  PROVE  ValueAt(data, at, n) = v
<1>1. /\ Len(data) \in Nat /\ \A k \in 1..Len(data) : data[k] \in U
  BY LenProperties
<1>2. data[at + 1][1] = v
  <2>1. data[at + 1] = <<v, 1>>
    OBVIOUS
  <2> QED BY <2>1
<1>3. SubSeq(data, at + 1, at + n) = Bytes(v, n)
  <2>1. \A i \in (at + 1)..(at + n) : data[i] \in U
    BY <1>1
  <2> DEFINE part == SubSeq(data, at + 1, at + n)
  <2>2. /\ part \in Seq(U) /\ Len(part) = n
        /\ \A i \in 1..n : part[i] = data[at + 1 + i - 1]
    <3>1. at + 1 <= at + n /\ at + n - (at + 1) + 1 = n
      OBVIOUS
    <3> QED BY <2>1, <3>1, SubSeqProperties
  <2>3. \A i \in 1..n : part[i] = <<v, i>>
    <3>1. \A i \in 1..n : at + 1 + i - 1 = at + i
      OBVIOUS
    <3> QED BY <2>2, <3>1
  <2>4. part = [i \in 1..n |-> <<v, i>>]
    <3>1. part = [i \in 1..n |-> part[i]]
      <4> HIDE DEF part
      <4> QED BY <2>2, LenProperties
    <3> HIDE DEF part
    <3> QED BY <2>3, <3>1
  <2> QED BY <2>4 DEF Bytes
<1> QED BY <1>2, <1>3 DEF ValueAt

LEMMA ByteRead ==
  ASSUME NEW v, NEW at \in Nat, NEW U, NEW data \in Seq(U),
         at + 1 <= Len(data), data[at + 1] = <<v, 1>>
  PROVE  ValueAt(data, at, 1) = v
<1> DEFINE n == 1
<1>1. n \in Nat \ {0} /\ at + n <= Len(data)
  OBVIOUS
<1>2. \A k \in 1..n : data[at + k] = <<v, k>>
  OBVIOUS
<1>3. ValueAt(data, at, n) = v
  <2> HIDE DEF n
  <2> QED BY <1>1, <1>2, BytesRead
<1> QED BY <1>3

IsField(f) ==
  /\ f.size \in Nat \ {0} /\ f.optional \in BOOLEAN
  /\ Len(f.variants) \in Nat /\ DOMAIN f.variants = 1..Len(f.variants)
  /\ f.variants # <<>> => f.size = 1 /\ ~ f.optional

\* An enumeration has a byte for its variants only.
Fits(f, v) == f.variants # <<>> => \E i \in DOMAIN f.variants : f.variants[i] = v

\* The bytes of a sequence are in data, behind the first at.
Placed(e, data, at) ==
  /\ at + Len(e) <= Len(data)
  /\ \A k \in 1..Len(e) : data[at + k] = e[k]

\* A decoder that begins where the field does reads it, and knows how long it is.
LEMMA FieldRead ==
  ASSUME NEW f, IsField(f), NEW v, Fits(f, v), NEW at \in Nat, NEW U, NEW data \in Seq(U),
         Placed(EncodeField(f, v), data, at)
  PROVE  /\ DecodeField(f, data, at) = v
         /\ WidthAt(f, data, at) = Len(EncodeField(f, v))
<1> DEFINE e == EncodeField(f, v)
<1>1. CASE f.variants # <<>>
  <2> DEFINE i == CHOOSE n \in DOMAIN f.variants : f.variants[n] = v
  <2>1. i \in Nat /\ f.variants[i] = v
    <3>1. i \in DOMAIN f.variants /\ f.variants[i] = v
      BY <1>1 DEF Fits
    <3> QED BY <3>1, LenProperties DEF IsField
  <2>2. e = Bytes(i - 1, 1)
    BY <1>1 DEF EncodeField
  <2>3. Len(e) = 1 /\ e[1] = <<i - 1, 1>>
    <3> HIDE DEF e, i
    <3> QED BY <2>2 DEF Bytes
  <2>4. ValueAt(data, at, 1) = i - 1
    <3>1. at + 1 <= Len(data) /\ data[at + 1] = <<i - 1, 1>>
      <4> HIDE DEF e, i
      <4> QED BY <2>3 DEF Placed, e
    <3> HIDE DEF e, i
    <3> QED BY <3>1, ByteRead
  <2>5. DecodeField(f, data, at) = f.variants[i - 1 + 1]
    BY <1>1, <2>4 DEF DecodeField
  <2>6. WidthAt(f, data, at) = 1
    BY <1>1 DEF WidthAt, IsField
  <2> HIDE DEF i
  <2>7. i - 1 + 1 = i
    BY <2>1
  <2> QED BY <2>1, <2>3, <2>5, <2>6, <2>7
<1>2. CASE f.variants = <<>> /\ ~ f.optional
  <2>1. e = Bytes(v, f.size) /\ f.size \in Nat \ {0}
    BY <1>2 DEF EncodeField, IsField
  <2>2. Len(e) = f.size /\ \A k \in 1..f.size : e[k] = <<v, k>>
    <3> HIDE DEF e
    <3> QED BY <2>1, BytesAre
  <2>3. at + f.size <= Len(data) /\ \A k \in 1..f.size : data[at + k] = <<v, k>>
    <3> HIDE DEF e
    <3> QED BY <2>2 DEF Placed, e
  <2>4. ValueAt(data, at, f.size) = v
    BY <2>1, <2>3, BytesRead
  <2> QED BY <1>2, <2>2, <2>4 DEF DecodeField, WidthAt
<1>3. CASE f.variants = <<>> /\ f.optional /\ v = NoAddress
  <2>1. e = Bytes(0, 1)
    BY <1>3 DEF EncodeField
  <2>2. Len(e) = 1 /\ e[1] = <<0, 1>>
    <3> HIDE DEF e
    <3> QED BY <2>1 DEF Bytes
  <2>3. at + 1 <= Len(data) /\ data[at + 1] = <<0, 1>>
    <3> HIDE DEF e
    <3> QED BY <2>2 DEF Placed, e
  <2>4. ValueAt(data, at, 1) = 0
    <3> HIDE DEF e
    <3> QED BY <2>3, ByteRead
  <2> QED BY <1>3, <2>2, <2>4 DEF DecodeField, WidthAt, IsNone
<1>4. CASE f.variants = <<>> /\ f.optional /\ v # NoAddress
  <2> DEFINE a == Bytes(1, 1)
             b == Bytes(v, f.size)
             V == {1, v} \X Nat
  <2>1. e = a \o b /\ f.size \in Nat \ {0}
    BY <1>4 DEF EncodeField, IsField
  <2>2. /\ a \in Seq(V) /\ b \in Seq(V) /\ Len(a) = 1 /\ Len(b) = f.size
        /\ a[1] = <<1, 1>> /\ \A k \in 1..f.size : b[k] = <<v, k>>
    <3>1. a \in Seq({1} \X Nat) /\ Len(a) = 1 /\ a[1] = <<1, 1>>
      BY DEF Bytes
    <3>2. /\ b \in Seq({v} \X Nat) /\ Len(b) = f.size
          /\ \A k \in 1..f.size : b[k] = <<v, k>>
      BY <2>1, BytesAre
    <3>3. {1} \X Nat \subseteq V /\ {v} \X Nat \subseteq V
      OBVIOUS
    <3> HIDE DEF a, b, V
    <3> QED BY <3>1, <3>2, <3>3, SeqMonotonic
  <2>3. /\ Len(e) = 1 + f.size /\ e[1] = <<1, 1>>
        /\ \A k \in 1..f.size : e[1 + k] = <<v, k>>
    <3> HIDE DEF e, a, b, V
    <3>0. e = a \o b /\ a \in Seq(V) /\ b \in Seq(V)
      BY <2>1, <2>2
    <3>1. /\ Len(e) = Len(a) + Len(b) /\ \A k \in 1..Len(a) : e[k] = a[k]
          /\ \A k \in 1..Len(b) : e[Len(a) + k] = b[k]
      BY <3>0, Behind
    <3>2. 1 \in 1..Len(a)
      BY <2>2
    <3> QED BY <2>2, <3>1, <3>2
  <2>4. /\ at + 1 <= Len(data) /\ data[at + 1] = <<1, 1>>
        /\ (at + 1) + f.size <= Len(data)
        /\ \A k \in 1..f.size : data[(at + 1) + k] = <<v, k>>
    <3>1. at + (1 + f.size) <= Len(data) /\ \A k \in 1..(1 + f.size) : data[at + k] = e[k]
      BY <2>3 DEF Placed
    <3>2. Len(data) \in Nat
      BY LenProperties
    <3>3. \A k \in 1..f.size : 1 + k \in 1..(1 + f.size) /\ at + (1 + k) = (at + 1) + k
      BY <2>1
    <3> HIDE DEF e
    <3>4. ASSUME NEW k \in 1..f.size PROVE data[(at + 1) + k] = <<v, k>>
      <4>1. data[at + (1 + k)] = e[1 + k]
        BY <3>1, <3>3
      <4> QED BY <2>3, <3>3, <4>1
    <3>5. data[at + 1] = <<1, 1>>
      BY <2>1, <2>3, <3>1
    <3>6. at + 1 <= Len(data) /\ (at + 1) + f.size <= Len(data)
      BY <2>1, <3>1, <3>2
    <3> QED BY <3>4, <3>5, <3>6
  <2>5. ValueAt(data, at, 1) = 1 /\ ValueAt(data, at + 1, f.size) = v
    <3> HIDE DEF e, a, b, V
    <3>2. ValueAt(data, at, 1) = 1
      BY <2>4, ByteRead
    <3> DEFINE next == at + 1
    <3>3. ValueAt(data, next, f.size) = v
      <4>1. /\ next \in Nat /\ next + f.size <= Len(data)
            /\ \A k \in 1..f.size : data[next + k] = <<v, k>>
        BY <2>4
      <4> HIDE DEF next
      <4> QED BY <2>1, <4>1, BytesRead
    <3> QED BY <3>2, <3>3
  <2> QED BY <1>4, <2>3, <2>5 DEF DecodeField, WidthAt, IsNone
<1> QED BY <1>1, <1>2, <1>3, <1>4 DEF IsField

LEMMA EncodedTyped ==
  ASSUME NEW f, IsField(f), NEW v, Fits(f, v), NEW V, v \in V, Nat \subseteq V
  PROVE  EncodeField(f, v) \in Seq(V \X Nat)
<1>1. \A w \in V, n \in Nat : Bytes(w, n) \in Seq(V \X Nat)
  <2> SUFFICES ASSUME NEW w \in V, NEW n \in Nat PROVE Bytes(w, n) \in Seq(V \X Nat)
    OBVIOUS
  <2>1. Bytes(w, n) \in Seq({w} \X Nat) /\ {w} \X Nat \subseteq V \X Nat
    BY BytesAre
  <2> QED BY <2>1, SeqMonotonic
<1>2. CASE f.variants # <<>>
  <2> DEFINE i == CHOOSE n \in DOMAIN f.variants : f.variants[n] = v
  <2>1. i \in DOMAIN f.variants
    BY <1>2 DEF Fits
  <2>2. DOMAIN f.variants = 1..Len(f.variants) /\ Len(f.variants) \in Nat
    BY LenProperties DEF IsField
  <2>3. i - 1 \in V
    <3> HIDE DEF i
    <3> QED BY <2>1, <2>2
  <2>4. EncodeField(f, v) = Bytes(i - 1, 1)
    BY <1>2 DEF EncodeField
  <2> HIDE DEF i
  <2> QED BY <1>1, <2>3, <2>4
<1>3. CASE f.variants = <<>> /\ (~ f.optional \/ v = NoAddress)
  <2>1. \/ EncodeField(f, v) = Bytes(v, f.size)
        \/ EncodeField(f, v) = Bytes(0, 1)
    BY <1>3 DEF EncodeField
  <2> QED BY <1>1, <2>1 DEF IsField
<1>4. CASE f.variants = <<>> /\ f.optional /\ v # NoAddress
  <2> DEFINE a == Bytes(1, 1)
             b == Bytes(v, f.size)
             e == EncodeField(f, v)
             U == V \X Nat
  <2>1. a \in Seq(U) /\ b \in Seq(U) /\ e = a \o b
    BY <1>1, <1>4 DEF EncodeField, IsField
  <2> HIDE DEF a, b, e
  <2>2. e \in Seq(U)
    <3> HIDE DEF U
    <3> QED BY <2>1, Behind
  <2> QED BY <2>2 DEF e
<1> QED BY <1>2, <1>3, <1>4 DEF IsField

-----------------------------------------------------------------------------
(* A layout of fields *)

IsLayout(layout) ==
  /\ Len(layout) \in Nat \ {0} /\ DOMAIN layout = 1..Len(layout)
  /\ \A i \in 1..Len(layout) : IsField(layout[i])

Names(layout) == {layout[i].name : i \in DOMAIN layout}

FitsAll(layout, args) == \A i \in 1..Len(layout) : Fits(layout[i], args[layout[i].name])

\* at is the function that Decode counts the offsets of the fields by.
Offsets(at, layout, data) ==
  at = [i \in 1..Len(layout) |->
          IF i = 1 THEN 8 ELSE at[i - 1] + WidthAt(layout[i - 1], data, at[i - 1])]

LEMMA OffsetsAgree ==
  ASSUME NEW layout, Len(layout) \in Nat, NEW data, NEW g, NEW h,
         Offsets(g, layout, data), Offsets(h, layout, data)
  PROVE  \A i \in 1..Len(layout) : g[i] = h[i]
<1> DEFINE Wrong == {i \in 1..Len(layout) : g[i] # h[i]}
<1> SUFFICES ASSUME Wrong # {} PROVE FALSE
  OBVIOUS
<1>0. Wrong \subseteq Nat
  OBVIOUS
<1>1. PICK i \in Wrong : \A k \in Wrong : i <= k
  <2> HIDE DEF Wrong
  <2> QED BY <1>0, Least
<1>2. i \in 1..Len(layout) /\ g[i] # h[i]
  OBVIOUS
<1>3. i = 1 \/ (i - 1 \in 1..Len(layout) /\ g[i - 1] = h[i - 1])
  <2>1. i = 1 \/ i - 1 \in 1..Len(layout)
    BY <1>2
  <2>2. i - 1 \notin Wrong
    <3> HIDE DEF Wrong
    <3> QED BY <1>0, <1>1
  <2> QED BY <2>1, <2>2
<1> HIDE DEF Wrong
<1>4. i = 1 => g[i] = 8 /\ h[i] = 8
  BY <1>2 DEF Offsets
<1>5. i # 1 => /\ g[i] = g[i - 1] + WidthAt(layout[i - 1], data, g[i - 1])
               /\ h[i] = h[i - 1] + WidthAt(layout[i - 1], data, h[i - 1])
  BY <1>2 DEF Offsets
<1> QED BY <1>2, <1>3, <1>4, <1>5

\* With any offsets there are, decoding reads each field at its own.
LEMMA DecodeBy ==
  ASSUME NEW layout, IsLayout(layout), NEW data, NEW g, Offsets(g, layout, data),
         NEW args, \A i \in 1..Len(layout) :
                     DecodeField(layout[i], data, g[i]) = args[layout[i].name]
  PROVE  Decode(layout, data) = [n \in Names(layout) |-> args[n]]
<1> DEFINE at == CHOOSE h : Offsets(h, layout, data)
           Position(n) == CHOOSE i \in DOMAIN layout : layout[i].name = n
<1>1. Offsets(at, layout, data)
  OBVIOUS
<1>2. \A i \in 1..Len(layout) : at[i] = g[i]
  <2> HIDE DEF at
  <2> QED BY <1>1, OffsetsAgree DEF IsLayout
<1>3. Decode(layout, data) =
        [n \in Names(layout) |-> DecodeField(layout[Position(n)], data, at[Position(n)])]
  BY DEF Decode, Offsets, Names
<1> HIDE DEF at
<1>4. ASSUME NEW n \in Names(layout)
      PROVE  DecodeField(layout[Position(n)], data, at[Position(n)]) = args[n]
  <2>1. Position(n) \in DOMAIN layout /\ layout[Position(n)].name = n
    BY DEF Names
  <2> HIDE DEF Position
  <2>2. Position(n) \in 1..Len(layout)
    BY <2>1 DEF IsLayout
  <2> QED BY <1>2, <2>1, <2>2
<1> HIDE DEF Position
<1> QED BY <1>3, <1>4

\* The bytes of the i-th field.
Encoded(layout, args, i) == EncodeField(layout[i], args[layout[i].name])

IsDiscriminator(d) == d \in Seq(Nat) /\ Len(d) = 8

IsFronted(c, a, b, U) ==
  /\ c \in Seq(U) /\ Len(c) = 8 + Len(b) /\ Len(c) \in Nat
  /\ \A k \in 1..8 : c[k] = a[k]
  /\ \A k \in 1..Len(b) : c[8 + k] = b[k]

LEMMA Fronted ==
  ASSUME NEW U, NEW a, IsDiscriminator(a), a \in Seq(U), NEW b, b \in Seq(U),
         NEW c, c = a \o b
  PROVE  IsFronted(c, a, b, U)
<1>1. c \in Seq(U) /\ Len(c) = Len(a) + Len(b) /\ Len(c) \in Nat
  BY Behind
<1>2. \A k \in 1..Len(a) : c[k] = a[k]
  BY Behind
<1>3. \A k \in 1..Len(b) : c[Len(a) + k] = b[k]
  BY Behind
<1>4. Len(a) = 8
  BY DEF IsDiscriminator
<1> QED BY <1>1, <1>2, <1>3, <1>4 DEF IsFronted

IsEncoded(discriminator, layout, args, data, g, U) ==
  /\ data \in Seq(U) /\ Encode(discriminator, layout, args) \in Seq(U)
  /\ Len(Encode(discriminator, layout, args)) =
       g[Len(layout)] + Len(Encoded(layout, args, Len(layout)))
  /\ DOMAIN g = 1..Len(layout) /\ g[1] = 8
  /\ \A i \in 1..Len(layout) :
       /\ g[i] \in Nat
       /\ i # 1 => g[i] = g[i - 1] + Len(Encoded(layout, args, i - 1))
       /\ Placed(Encoded(layout, args, i), data, g[i])
  /\ \A k \in 1..8 : data[k] = discriminator[k]
  /\ 8 <= Len(data) /\ 8 <= Len(Encode(discriminator, layout, args))

\* The bytes of the discriminator come first, then the fields, each behind the other.
LEMMA EncodedFields ==
  ASSUME NEW layout, IsLayout(layout), NEW args, FitsAll(layout, args),
         NEW discriminator, IsDiscriminator(discriminator),
         NEW tail \in Seq(Nat \X Nat),
         NEW data, data = Encode(discriminator, layout, args) \o tail
  PROVE  \E g, U : IsEncoded(discriminator, layout, args, data, g, U)
<1> DEFINE n == Len(layout)
           s == [i \in DOMAIN layout |-> EncodeField(layout[i], args[layout[i].name])]
           V == {args[layout[i].name] : i \in 1..n} \cup Nat
           U == (V \X Nat) \cup Nat
           front == Encode(discriminator, layout, args)
<1>1. n \in Nat \ {0} /\ DOMAIN layout = 1..n
  BY DEF IsLayout
<1>2. \A i \in 1..n : s[i] = Encoded(layout, args, i)
  BY <1>1 DEF Encoded
<1>3. Len(s) = n
  BY <1>1
<1>4. ASSUME NEW i \in 1..n PROVE s[i] \in Seq(U) /\ Len(s[i]) \in Nat
  <2> DEFINE v == args[layout[i].name]
  <2>1. v \in V /\ Nat \subseteq V /\ IsField(layout[i]) /\ Fits(layout[i], v)
    BY DEF IsLayout, FitsAll
  <2> HIDE DEF V
  <2>2. EncodeField(layout[i], v) \in Seq(V \X Nat)
    <3> HIDE DEF v
    <3> QED BY <2>1, EncodedTyped
  <2>3. s[i] = EncodeField(layout[i], v)
    BY <1>2 DEF Encoded
  <2>4. V \X Nat \subseteq U
    OBVIOUS
  <2> HIDE DEF s, v, U
  <2> QED BY <2>2, <2>3, <2>4, SeqMonotonic, LenProperties
<1>5. PICK f : Flattens(f, s, n) /\ FlattenSeq(s) = f[n]
  <2> HIDE DEF s
  <2> QED BY <1>1, <1>3, FlattenIs
<1>6. front = discriminator \o f[n]
  BY <1>5 DEF Encode
<1>7. discriminator \in Seq(U) /\ tail \in Seq(U)
  <2>1. Nat \subseteq U /\ Nat \X Nat \subseteq U
    OBVIOUS
  <2> HIDE DEF U
  <2> QED BY <2>1, SeqMonotonic DEF IsDiscriminator
<1> HIDE DEF s, V, U, n
<1>8. \A i \in 1..n :
        /\ StartOf(f, i) \in Nat /\ f[n] \in Seq(U) /\ f[i] \in Seq(U)
        /\ Len(f[i]) = StartOf(f, i) + Len(s[i])
        /\ Len(f[i]) <= Len(f[n])
        /\ \A k \in 1..Len(s[i]) : f[n][StartOf(f, i) + k] = s[i][k]
  <2>1. /\ Flattens(f, s, n) /\ n \in Nat
        /\ \A j \in 1..n : s[j] \in Seq(U)
    BY <1>1, <1>4, <1>5
  <2>2. \A i \in 1..n : IsFlat(f[n], f[i], s[i], StartOf(f, i), U)
    BY <2>1, FlatPlaces
  <2> QED BY <2>2 DEF IsFlat
<1> DEFINE flat == f[n]
<1>9. flat \in Seq(U) /\ Len(flat) \in Nat
  <2>1. flat \in Seq(U)
    <3>1. n \in 1..n
      BY <1>1
    <3> QED BY <1>8, <3>1
  <2> HIDE DEF flat
  <2> QED BY <2>1, LenProperties
<1>10. /\ front \in Seq(U) /\ Len(front) = 8 + Len(flat) /\ Len(front) \in Nat
       /\ \A k \in 1..8 : front[k] = discriminator[k]
       /\ \A k \in 1..Len(flat) : front[8 + k] = flat[k]
  <2>1. front = discriminator \o flat
    BY <1>6
  <2> HIDE DEF flat, front
  <2>2. IsFronted(front, discriminator, flat, U)
    BY <1>7, <1>9, <2>1, Fronted
  <2> QED BY <2>2 DEF IsFronted
<1> HIDE DEF front
<1>11. /\ data \in Seq(U) /\ Len(front) <= Len(data) /\ Len(data) \in Nat
       /\ \A k \in 1..Len(front) : data[k] = front[k]
  <2>1. data = front \o tail
    BY DEF front
  <2> QED BY <1>7, <1>10, <2>1, Behind
<1> HIDE DEF flat
<1>12. ASSUME NEW k \in 1..8 PROVE data[k] = discriminator[k]
  <2>1. k \in 1..Len(front)
    BY <1>9, <1>10
  <2> QED BY <1>10, <1>11, <2>1
<1>13. ASSUME NEW k \in 1..Len(flat) PROVE data[8 + k] = flat[k]
  <2>1. 8 + k \in 1..Len(front)
    BY <1>9, <1>10
  <2> QED BY <1>10, <1>11, <2>1
<1> DEFINE g == [i \in 1..n |-> 8 + StartOf(f, i)]
<1>14. \A i \in 1..n : g[i] = 8 + StartOf(f, i) /\ g[i] \in Nat
  BY <1>8
<1>15. ASSUME NEW i \in 1..n
       PROVE  /\ i # 1 => g[i] = g[i - 1] + Len(s[i - 1])
              /\ Placed(s[i], data, g[i])
  <2>1. i # 1 => i - 1 \in 1..n
    BY <1>1
  <2>2. i # 1 => StartOf(f, i) = StartOf(f, i - 1) + Len(s[i - 1])
    <3>1. i # 1 => StartOf(f, i) = Len(f[i - 1])
      BY DEF StartOf
    <3> QED BY <1>8, <2>1, <3>1
  <2>3. i # 1 => g[i] = g[i - 1] + Len(s[i - 1])
    <3> HIDE DEF g
    <3>1. i # 1 => Len(s[i - 1]) \in Nat /\ StartOf(f, i - 1) \in Nat
      BY <1>4, <1>8, <2>1
    <3>2. i # 1 => g[i - 1] = 8 + StartOf(f, i - 1)
      BY <1>14, <2>1
    <3>3. g[i] = 8 + StartOf(f, i)
      BY <1>14
    <3> DEFINE here == g[i]
               there == g[i - 1]
               from == StartOf(f, i - 1)
               w == Len(s[i - 1])
    <3>4. i # 1 => /\ here = 8 + StartOf(f, i) /\ there = 8 + from
                   /\ StartOf(f, i) = from + w /\ w \in Nat /\ from \in Nat
      BY <2>2, <3>1, <3>2, <3>3
    <3>5. i # 1 => here = there + w
      <4> HIDE DEF here, there, from, w
      <4> QED BY <3>4
    <3> QED BY <3>5
  <2> DEFINE start == StartOf(f, i)
             e == s[i]
  <2>4. /\ start \in Nat /\ Len(e) \in Nat /\ g[i] = 8 + start
        /\ start + Len(e) <= Len(flat)
        /\ \A k \in 1..Len(e) : flat[start + k] = e[k]
    BY <1>4, <1>8 DEF flat
  <2> HIDE DEF start, e, g
  <2>5. g[i] + Len(e) <= Len(data)
    BY <1>9, <1>10, <1>11, <2>4
  <2>6. ASSUME NEW k \in 1..Len(e) PROVE data[g[i] + k] = e[k]
    <3>1. start + k \in 1..Len(flat) /\ g[i] + k = 8 + (start + k)
      <4>1. start \in Nat /\ Len(e) \in Nat /\ start + Len(e) <= Len(flat) /\ g[i] = 8 + start
        BY <2>4
      <4> QED BY <1>9, <4>1
    <3> QED BY <1>13, <2>4, <3>1
  <2> QED BY <2>3, <2>5, <2>6 DEF Placed, e
<1>16. g[1] = 8 /\ DOMAIN g = 1..n
  BY <1>1 DEF StartOf
<1>17. Len(front) = g[n] + Len(s[n])
  <2>1. n \in 1..n
    BY <1>1
  <2>2. Len(flat) = StartOf(f, n) + Len(s[n]) /\ g[n] = 8 + StartOf(f, n)
    BY <1>8, <2>1 DEF flat
  <2> DEFINE whole == Len(front)
             last == g[n]
             there == Len(flat)
             start == StartOf(f, n)
             w == Len(s[n])
  <2>3. start \in Nat /\ w \in Nat
    BY <1>4, <1>8, <2>1
  <2>4. whole = 8 + there /\ there = start + w /\ last = 8 + start
    BY <1>10, <2>2
  <2>5. whole = last + w
    <3> HIDE DEF whole, last, there, start, w
    <3> QED BY <2>3, <2>4
  <2> QED BY <2>5
<1>18. 8 <= Len(data) /\ 8 <= Len(front)
  BY <1>9, <1>10, <1>11
<1> HIDE DEF g
<1>19. ASSUME NEW i \in 1..n
       PROVE  /\ g[i] \in Nat
              /\ i # 1 => g[i] = g[i - 1] + Len(Encoded(layout, args, i - 1))
              /\ Placed(Encoded(layout, args, i), data, g[i])
  <2>1. i # 1 => i - 1 \in 1..n
    BY <1>1
  <2> QED BY <1>2, <1>14, <1>15, <2>1
<1>20. Len(front) = g[n] + Len(Encoded(layout, args, n))
  BY <1>1, <1>2, <1>17
<1> QED BY <1>10, <1>11, <1>12, <1>16, <1>18, <1>19, <1>20 DEF n, front, IsEncoded

LEMMA FirstBytes ==
  ASSUME NEW U, NEW data \in Seq(U), NEW n \in Nat, n <= Len(data),
         NEW V, NEW d \in Seq(V), Len(d) = n, \A k \in 1..n : data[k] = d[k]
  PROVE  SubSeq(data, 1, n) = d
<1> DEFINE part == SubSeq(data, 1, n)
<1>1. \A k \in 1..n : data[k] \in U
  <2>1. Len(data) \in Nat /\ \A k \in 1..Len(data) : data[k] \in U
    BY LenProperties
  <2> QED BY <2>1
<1>2. part \in Seq(U) /\ Len(part) = n
  BY <1>1, SubSeqProperties
<1>3. \A k \in 1..n : part[k] = data[1 + k - 1]
  <2>1. n - 1 + 1 = n
    OBVIOUS
  <2> QED BY <1>1, <2>1, SubSeqProperties
<1>4. \A k \in 1..n : part[k] = d[k]
  <2>1. \A k \in 1..n : 1 + k - 1 = k
    OBVIOUS
  <2> QED BY <1>3, <2>1
<1> HIDE DEF part
<1>5. part = [k \in 1..n |-> part[k]] /\ d = [k \in 1..n |-> d[k]]
  BY <1>2, LenProperties
<1> QED BY <1>4, <1>5 DEF part

IsRead(discriminator, layout, args, data) ==
  /\ Decode(layout, data) = [n \in Names(layout) |-> args[n]]
  /\ SubSeq(data, 1, 8) = discriminator

\* What a decoder gives back, of bytes that may have others behind them.
LEMMA ReadEncoded ==
  ASSUME NEW layout, IsLayout(layout), NEW args, FitsAll(layout, args),
         NEW discriminator, IsDiscriminator(discriminator),
         NEW data, NEW g, NEW U, IsEncoded(discriminator, layout, args, data, g, U)
  PROVE  IsRead(discriminator, layout, args, data)
<1> DEFINE n == Len(layout)
<1>1. n \in Nat \ {0} /\ \A i \in 1..n : IsField(layout[i])
  BY DEF IsLayout
<1>2. /\ data \in Seq(U)
      /\ DOMAIN g = 1..n /\ g[1] = 8
      /\ \A i \in 1..n :
           /\ g[i] \in Nat
           /\ i # 1 => g[i] = g[i - 1] + Len(Encoded(layout, args, i - 1))
           /\ Placed(Encoded(layout, args, i), data, g[i])
      /\ \A k \in 1..8 : data[k] = discriminator[k]
      /\ 8 <= Len(data)
  BY DEF IsEncoded
<1> HIDE DEF n
<1>3. ASSUME NEW i \in 1..n
      PROVE  /\ DecodeField(layout[i], data, g[i]) = args[layout[i].name]
             /\ WidthAt(layout[i], data, g[i]) = Len(Encoded(layout, args, i))
  <2> DEFINE f == layout[i]
             v == args[f.name]
             at == g[i]
  <2>1. IsField(f) /\ Fits(f, v) /\ at \in Nat /\ data \in Seq(U)
    BY <1>1, <1>2 DEF FitsAll, n
  <2>2. Placed(EncodeField(f, v), data, at)
    BY <1>2 DEF Encoded
  <2>3. Encoded(layout, args, i) = EncodeField(f, v)
    BY DEF Encoded
  <2> HIDE DEF f, v, at
  <2>4. DecodeField(f, data, at) = v
    BY <2>1, <2>2, FieldRead
  <2>5. WidthAt(f, data, at) = Len(EncodeField(f, v))
    BY <2>1, <2>2, FieldRead
  <2> QED BY <2>3, <2>4, <2>5 DEF f, v, at
<1> DEFINE h == [i \in 1..n |-> g[i]]
<1>4. \A i \in 1..n : h[i] = IF i = 1 THEN 8 ELSE h[i - 1] + WidthAt(layout[i - 1], data, h[i - 1])
  <2> SUFFICES ASSUME NEW i \in 1..n
               PROVE  h[i] = IF i = 1 THEN 8
                             ELSE h[i - 1] + WidthAt(layout[i - 1], data, h[i - 1])
    OBVIOUS
  <2>1. i # 1 => i - 1 \in 1..n
    BY <1>1
  <2>2. h[i] = g[i] /\ (i # 1 => h[i - 1] = g[i - 1])
    BY <2>1
  <2> HIDE DEF h
  <2>3. i = 1 => h[i] = 8
    BY <1>2, <2>2
  <2>4. i # 1 => h[i] = h[i - 1] + WidthAt(layout[i - 1], data, h[i - 1])
    BY <1>2, <1>3, <2>1, <2>2
  <2> QED BY <2>3, <2>4
<1>5. Offsets(h, layout, data)
  <2>1. h = [i \in 1..n |-> h[i]]
    OBVIOUS
  <2> HIDE DEF h
  <2> QED BY <1>4, <2>1 DEF Offsets, n
<1>6. \A i \in 1..n : DecodeField(layout[i], data, h[i]) = args[layout[i].name]
  BY <1>3
<1> HIDE DEF h
<1>7. Decode(layout, data) = [m \in Names(layout) |-> args[m]]
  BY <1>5, <1>6, DecodeBy DEF n
<1>8. SubSeq(data, 1, 8) = discriminator
  <2> DEFINE m == 8
  <2>1. data \in Seq(U) /\ m \in Nat /\ m <= Len(data) /\ discriminator \in Seq(Nat)
    BY <1>2 DEF IsDiscriminator
  <2>2. Len(discriminator) = m /\ \A k \in 1..m : data[k] = discriminator[k]
    BY <1>2 DEF IsDiscriminator
  <2>3. SubSeq(data, 1, m) = discriminator
    <3> HIDE DEF m
    <3> QED BY <2>1, <2>2, FirstBytes
  <2> QED BY <2>3
<1> QED BY <1>7, <1>8 DEF IsRead

LEMMA ReadBehind ==
  ASSUME NEW layout, IsLayout(layout), NEW args, FitsAll(layout, args),
         NEW discriminator, IsDiscriminator(discriminator),
         NEW tail \in Seq(Nat \X Nat)
  PROVE  IsRead(discriminator, layout, args, Encode(discriminator, layout, args) \o tail)
<1> DEFINE data == Encode(discriminator, layout, args) \o tail
<1>1. \E g, U : IsEncoded(discriminator, layout, args, data, g, U)
  BY EncodedFields
<1> HIDE DEF data
<1>2. IsRead(discriminator, layout, args, data)
  BY <1>1, ReadEncoded
<1> QED BY <1>2 DEF data

LEMMA ReadBack ==
  ASSUME NEW layout, IsLayout(layout), NEW args, FitsAll(layout, args),
         NEW discriminator, IsDiscriminator(discriminator)
  PROVE  IsRead(discriminator, layout, args, Encode(discriminator, layout, args))
<1> DEFINE e == Encode(discriminator, layout, args)
           tail == <<>>
           data == e \o tail
<1>1. tail \in Seq(Nat \X Nat)
  OBVIOUS
<1>2. data = e
  <2>1. PICK U : e \in Seq(U)
    <3>1. \E g, U : IsEncoded(discriminator, layout, args, data, g, U)
      <4> HIDE DEF tail
      <4> QED BY <1>1, EncodedFields
    <3> QED BY <3>1 DEF IsEncoded
  <2> HIDE DEF e
  <2> QED BY <2>1
<1>3. IsRead(discriminator, layout, args, data)
  <2> HIDE DEF tail
  <2> QED BY <1>1, ReadBehind
<1> HIDE DEF data
<1> QED BY <1>2, <1>3

-----------------------------------------------------------------------------
(* The seven instructions *)

LEMMA IsFieldOf ==
  /\ \A name : \A size \in Nat \ {0} : IsField(Fixed(name, size)) /\ IsField(OptionOf(name, size))
  /\ \A name : IsField(Enum(name, JobType)) /\ IsField(Enum(name, JobStatus))
                /\ IsField(Enum(name, EscrowState))
<1>1. \A name : \A size \in Nat \ {0} : IsField(Fixed(name, size)) /\ IsField(OptionOf(name, size))
  BY DEF IsField, Fixed, OptionOf
<1>2. ASSUME NEW name, NEW variants, Len(variants) \in Nat, DOMAIN variants = 1..Len(variants)
      PROVE  IsField(Enum(name, variants))
  BY DEF IsField, Enum
<1>3. Len(JobType) \in Nat /\ DOMAIN JobType = 1..Len(JobType)
  BY DEF JobType
<1>4. Len(JobStatus) \in Nat /\ DOMAIN JobStatus = 1..Len(JobStatus)
  BY DEF JobStatus
<1>5. Len(EscrowState) \in Nat /\ DOMAIN EscrowState = 1..Len(EscrowState)
  BY DEF EscrowState
<1> QED BY <1>1, <1>2, <1>3, <1>4, <1>5

EncoderOf(name) ==
  CASE name = "createEscrow"   -> CreateEscrowEncoder
    [] name = "initialize"     -> InitializeEncoder
    [] name = "markDisputed"   -> MarkDisputedEncoder
    [] name = "resolveDispute" -> ResolveDisputeEncoder
    [] name = "setPaused"      -> SetPausedEncoder
    [] name = "settleEscrow"   -> SettleEscrowEncoder
    [] name = "updateEscrow"   -> UpdateEscrowEncoder

AccountsOf(name) ==
  CASE name = "createEscrow"   -> CreateEscrowAccounts
    [] name = "initialize"     -> InitializeAccounts
    [] name = "markDisputed"   -> MarkDisputedAccounts
    [] name = "resolveDispute" -> ResolveDisputeAccounts
    [] name = "setPaused"      -> SetPausedAccounts
    [] name = "settleEscrow"   -> SettleEscrowAccounts
    [] name = "updateEscrow"   -> UpdateEscrowAccounts

DecoderOf(name) ==
  CASE name = "createEscrow"   -> CreateEscrowDecoder
    [] name = "initialize"     -> InitializeDecoder
    [] name = "markDisputed"   -> MarkDisputedDecoder
    [] name = "resolveDispute" -> ResolveDisputeDecoder
    [] name = "setPaused"      -> SetPausedDecoder
    [] name = "settleEscrow"   -> SettleEscrowDecoder
    [] name = "updateEscrow"   -> UpdateEscrowDecoder

ParsedOf(name) ==
  CASE name = "createEscrow"   -> CreateEscrowParsed
    [] name = "initialize"     -> InitializeParsed
    [] name = "markDisputed"   -> MarkDisputedParsed
    [] name = "resolveDispute" -> ResolveDisputeParsed
    [] name = "setPaused"      -> SetPausedParsed
    [] name = "settleEscrow"   -> SettleEscrowParsed
    [] name = "updateEscrow"   -> UpdateEscrowParsed

LeastOf(name) ==
  CASE name = "createEscrow"   -> 8
    [] name = "initialize"     -> 3
    [] name = "markDisputed"   -> 3
    [] name = "resolveDispute" -> 8
    [] name = "setPaused"      -> 2
    [] name = "settleEscrow"   -> 8
    [] name = "updateEscrow"   -> 4

InstructionNames ==
  {"createEscrow", "initialize", "markDisputed", "resolveDispute", "setPaused",
   "settleEscrow", "updateEscrow"}

LEMMA NamesAre == DOMAIN Discriminator = InstructionNames
  BY DEF Discriminator, InstructionNames

\* What an instruction is identified by is what its encoder puts in front.
LEMMA IdentifiedByAgrees == IdentifiedBy = Discriminator
  BY DEF IdentifiedBy, Discriminator

LEMMA JobIdEncoder ==
  /\ IsLayout(SettleEscrowEncoder) /\ IsLayout(MarkDisputedEncoder)
  /\ IsLayout(ResolveDisputeEncoder) /\ IsLayout(SetPausedEncoder)
<1>1. IsField(Fixed("jobId", 16)) /\ IsField(Fixed("paused", 1))
  BY IsFieldOf
<1>2. \A f : IsField(f) => IsLayout(<<f>>)
  BY DEF IsLayout
<1> QED
  BY <1>1, <1>2 DEF SettleEscrowEncoder, MarkDisputedEncoder, ResolveDisputeEncoder, SetPausedEncoder

LEMMA CreateEscrowEncoderIs == IsLayout(CreateEscrowEncoder)
<1> DEFINE a == Fixed("jobId", 16)
           b == Enum("jobType", JobType)
           c == Fixed("amount", 8)
           d == Fixed("expiry", 8)
<1>1. IsField(a) /\ IsField(b) /\ IsField(c) /\ IsField(d)
  BY IsFieldOf
<1>2. CreateEscrowEncoder = <<a, b, c, d>>
  BY DEF CreateEscrowEncoder
<1> HIDE DEF a, b, c, d
<1> QED BY <1>1, <1>2 DEF IsLayout

LEMMA UpdateEscrowEncoderIs == IsLayout(UpdateEscrowEncoder)
<1> DEFINE a == Fixed("jobId", 16)
           b == Fixed("fulfilled", 1)
           c == OptionOf("agentOwner", 32)
<1>1. IsField(a) /\ IsField(b) /\ IsField(c)
  BY IsFieldOf
<1>2. UpdateEscrowEncoder = <<a, b, c>>
  BY DEF UpdateEscrowEncoder
<1> HIDE DEF a, b, c
<1> QED BY <1>1, <1>2 DEF IsLayout

LEMMA InitializeEncoderIs == IsLayout(InitializeEncoder)
<1> DEFINE a == Fixed("platformFeeBps", 2)
           b == Fixed("emergencyAdmin", 32)
           c == Fixed("treasury", 32)
           d == Fixed("tokenMint", 32)
<1>1. IsField(a) /\ IsField(b) /\ IsField(c) /\ IsField(d)
  BY IsFieldOf
<1>2. InitializeEncoder = <<a, b, c, d>>
  BY DEF InitializeEncoder
<1> HIDE DEF a, b, c, d
<1> QED BY <1>1, <1>2 DEF IsLayout

LEMMA EncodersAre == \A name \in InstructionNames : IsLayout(EncoderOf(name))
  BY JobIdEncoder, CreateEscrowEncoderIs, UpdateEscrowEncoderIs, InitializeEncoderIs
  DEF EncoderOf, InstructionNames

\* The eight bytes that tell the instructions apart.
LEMMA DiscriminatorsTyped ==
  \A name \in InstructionNames : IsDiscriminator(Discriminator[name])
<1>1. IsDiscriminator(Discriminator["createEscrow"])
  <2>1. IsDiscriminator(<<253, 215, 165, 116, 36, 108, 68, 80>>)
    BY DEF IsDiscriminator
  <2> QED BY <2>1 DEF Discriminator
<1>2. IsDiscriminator(Discriminator["initialize"])
  <2>1. IsDiscriminator(<<175, 175, 109, 31, 13, 152, 155, 237>>)
    BY DEF IsDiscriminator
  <2> QED BY <2>1 DEF Discriminator
<1>3. IsDiscriminator(Discriminator["markDisputed"])
  <2>1. IsDiscriminator(<<136, 86, 152, 120, 3, 21, 223, 251>>)
    BY DEF IsDiscriminator
  <2> QED BY <2>1 DEF Discriminator
<1>4. IsDiscriminator(Discriminator["resolveDispute"])
  <2>1. IsDiscriminator(<<231, 6, 202, 6, 96, 103, 12, 230>>)
    BY DEF IsDiscriminator
  <2> QED BY <2>1 DEF Discriminator
<1>5. IsDiscriminator(Discriminator["setPaused"])
  <2>1. IsDiscriminator(<<91, 60, 125, 192, 176, 225, 166, 218>>)
    BY DEF IsDiscriminator
  <2> QED BY <2>1 DEF Discriminator
<1>6. IsDiscriminator(Discriminator["settleEscrow"])
  <2>1. IsDiscriminator(<<22, 135, 160, 194, 23, 186, 124, 110>>)
    BY DEF IsDiscriminator
  <2> QED BY <2>1 DEF Discriminator
<1>7. IsDiscriminator(Discriminator["updateEscrow"])
  <2>1. IsDiscriminator(<<252, 228, 127, 1, 60, 43, 54, 28>>)
    BY DEF IsDiscriminator
  <2> QED BY <2>1 DEF Discriminator
<1> QED BY <1>1, <1>2, <1>3, <1>4, <1>5, <1>6, <1>7 DEF InstructionNames

LEMMA DiscriminatorsDiffer ==
  \A m, n \in InstructionNames : Discriminator[m] = Discriminator[n] => m = n
<1> DEFINE first(n) == Discriminator[n][1]
<1>1. /\ first("createEscrow") = 253 /\ first("initialize") = 175
      /\ first("markDisputed") = 136 /\ first("resolveDispute") = 231
      /\ first("setPaused") = 91 /\ first("settleEscrow") = 22
      /\ first("updateEscrow") = 252
  BY DEF Discriminator
<1>2. \A m, n : Discriminator[m] = Discriminator[n] => first(m) = first(n)
  OBVIOUS
<1> HIDE DEF first
<1> QED BY <1>1, <1>2 DEF InstructionNames

LEMMA Identified ==
  ASSUME NEW name \in InstructionNames, NEW data, SubSeq(data, 1, 8) = Discriminator[name]
  PROVE  IdentifyArcadiumEscrowInstruction(data) = name
<1> DEFINE found == IdentifyArcadiumEscrowInstruction(data)
<1>1. found \in InstructionNames /\ SubSeq(data, 1, 8) = Discriminator[found]
  BY NamesAre, IdentifiedByAgrees DEF IdentifyArcadiumEscrowInstruction
<1> HIDE DEF found
<1>2. found = name
  BY <1>1, DiscriminatorsDiffer
<1> QED BY <1>2 DEF found

LEMMA AccountsAre ==
  \A name \in InstructionNames :
    /\ Len(AccountsOf(name)) \in Nat
    /\ DOMAIN AccountsOf(name) = 1..Len(AccountsOf(name))
<1> DEFINE Proper(s) == Len(s) \in Nat /\ DOMAIN s = 1..Len(s)
<1>1. Proper(CreateEscrowAccounts)
  BY DEF CreateEscrowAccounts
<1>2. Proper(InitializeAccounts)
  BY DEF InitializeAccounts
<1>3. Proper(MarkDisputedAccounts)
  BY DEF MarkDisputedAccounts
<1>4. Proper(ResolveDisputeAccounts)
  BY DEF ResolveDisputeAccounts
<1>5. Proper(SetPausedAccounts)
  BY DEF SetPausedAccounts
<1>6. Proper(SettleEscrowAccounts)
  BY DEF SettleEscrowAccounts
<1>7. Proper(UpdateEscrowAccounts)
  BY DEF UpdateEscrowAccounts
<1> HIDE DEF Proper
<1>8. \A name \in InstructionNames : Proper(AccountsOf(name))
  BY <1>1, <1>2, <1>3, <1>4, <1>5, <1>6, <1>7 DEF AccountsOf, InstructionNames
<1> QED BY <1>8 DEF Proper

\* The fields the decoder lists are those of the encoder, in its order.
LEMMA DecodersAgree == \A name \in InstructionNames : DecoderOf(name) = EncoderOf(name)
<1>1. CreateEscrowDecoder = CreateEscrowEncoder
  BY DEF CreateEscrowDecoder, CreateEscrowEncoder
<1>2. InitializeDecoder = InitializeEncoder
  BY DEF InitializeDecoder, InitializeEncoder
<1>3. MarkDisputedDecoder = MarkDisputedEncoder
  BY DEF MarkDisputedDecoder, MarkDisputedEncoder
<1>4. ResolveDisputeDecoder = ResolveDisputeEncoder
  BY DEF ResolveDisputeDecoder, ResolveDisputeEncoder
<1>5. SetPausedDecoder = SetPausedEncoder
  BY DEF SetPausedDecoder, SetPausedEncoder
<1>6. SettleEscrowDecoder = SettleEscrowEncoder
  BY DEF SettleEscrowDecoder, SettleEscrowEncoder
<1>7. UpdateEscrowDecoder = UpdateEscrowEncoder
  BY DEF UpdateEscrowDecoder, UpdateEscrowEncoder
<1> QED BY <1>1, <1>2, <1>3, <1>4, <1>5, <1>6, <1>7 DEF DecoderOf, EncoderOf, InstructionNames

\* The names are those of the accounts, in their order, and as many.
Agree(least, names, accounts) ==
  /\ least = Len(accounts) /\ DOMAIN names = DOMAIN accounts
  /\ \A i \in DOMAIN accounts : names[i] = accounts[i].name

\* The accounts the parser takes are those the builder lists, in its order.
LEMMA ParsersAgree ==
  \A name \in InstructionNames : Agree(LeastOf(name), ParsedOf(name), AccountsOf(name))
<1>1. Agree(8, CreateEscrowParsed, CreateEscrowAccounts)
  BY DEF Agree, CreateEscrowParsed, CreateEscrowAccounts, SignerW, Writable, Readonly
<1>2. Agree(3, InitializeParsed, InitializeAccounts)
  BY DEF Agree, InitializeParsed, InitializeAccounts, SignerW, Writable, Readonly
<1>3. Agree(3, MarkDisputedParsed, MarkDisputedAccounts)
  BY DEF Agree, MarkDisputedParsed, MarkDisputedAccounts, SignerW, Writable, Readonly
<1>4. Agree(8, ResolveDisputeParsed, ResolveDisputeAccounts)
  BY DEF Agree, ResolveDisputeParsed, ResolveDisputeAccounts, SignerW, Writable, Readonly
<1>5. Agree(2, SetPausedParsed, SetPausedAccounts)
  BY DEF Agree, SetPausedParsed, SetPausedAccounts, SignerW, Writable, Readonly
<1>6. Agree(8, SettleEscrowParsed, SettleEscrowAccounts)
  BY DEF Agree, SettleEscrowParsed, SettleEscrowAccounts, SignerW, Writable, Readonly
<1>7. Agree(4, UpdateEscrowParsed, UpdateEscrowAccounts)
  BY DEF Agree, UpdateEscrowParsed, UpdateEscrowAccounts, SignerW, Writable, Readonly
<1> QED
  BY <1>1, <1>2, <1>3, <1>4, <1>5, <1>6, <1>7
  DEF LeastOf, ParsedOf, AccountsOf, InstructionNames

\* What the parser gives of the instruction `name` that was built of the input r.
Reading(name, r) ==
  [instructionType |-> name,
   accounts |-> [n \in Names(AccountsOf(name)) |-> r[n]],
   data |-> [n \in Names(EncoderOf(name)) |-> r[n]]]

LEMMA ParsedIs ==
  ASSUME NEW name, NEW accounts, Len(accounts) \in Nat, DOMAIN accounts = 1..Len(accounts),
         NEW least, NEW names, Agree(least, names, accounts),
         NEW encoder, IsLayout(encoder), NEW decoder, decoder = encoder,
         NEW r, FitsAll(encoder, r), IsDiscriminator(Discriminator[name])
  PROVE  /\ Parsed(name, least, names, decoder, Instruction(name, accounts, encoder, r)) =
              [instructionType |-> name,
               accounts |-> [n \in Names(accounts) |-> r[n]],
               data |-> [n \in Names(encoder) |-> r[n]]]
         /\ SubSeq(Instruction(name, accounts, encoder, r).data, 1, 8) = Discriminator[name]
<1> DEFINE ix == Instruction(name, accounts, encoder, r)
           Position(n) == CHOOSE i \in DOMAIN names : names[i] = n
           Listed == {names[i] : i \in DOMAIN names}
           metas == [i \in DOMAIN accounts |->
                       [address  |-> r[accounts[i].name],
                        signer   |-> accounts[i].signer,
                        writable |-> accounts[i].writable]]
<1>1. ix.accounts = metas /\ ix.data = Encode(Discriminator[name], encoder, r)
  BY DEF Instruction
<1>2. Len(metas) = Len(accounts)
  OBVIOUS
<1>3. IsRead(Discriminator[name], encoder, r, ix.data)
  BY <1>1, ReadBack
<1>4. Listed = Names(accounts)
  BY DEF Agree, Names
<1>5. ASSUME NEW n \in Listed PROVE ix.accounts[Position(n)].address = r[n]
  <2>1. Position(n) \in DOMAIN names /\ names[Position(n)] = n
    OBVIOUS
  <2> HIDE DEF Position, ix
  <2>2. Position(n) \in DOMAIN accounts /\ accounts[Position(n)].name = n
    BY <2>1 DEF Agree
  <2> QED BY <1>1, <2>2
<1> DEFINE parsed == [n \in Listed |-> ix.accounts[Position(n)].address]
<1>6. parsed = [n \in Listed |-> r[n]]
  <2> HIDE DEF ix, Position, Listed
  <2> QED BY <1>5
<1>7. Parsed(name, least, names, decoder, ix) =
        [instructionType |-> name, accounts |-> parsed, data |-> Decode(encoder, ix.data)]
  <2>1. ~ (Len(ix.accounts) < least)
    <3> HIDE DEF ix, metas
    <3> QED BY <1>1, <1>2 DEF Agree
  <2> HIDE DEF ix
  <2> QED BY <2>1 DEF Parsed
<1> HIDE DEF ix, parsed, Listed
<1> QED BY <1>3, <1>4, <1>6, <1>7 DEF IsRead, ix

\* Whichever instruction it is, of whatever input, is identified, by the
\* discriminators listed for that, and read back, by the parser's own lists of
\* accounts and fields.
THEOREM InstructionReadsBack ==
  ASSUME NEW name \in InstructionNames, NEW r, FitsAll(EncoderOf(name), r)
  PROVE  ParseArcadiumEscrowInstruction(Instruction(name, AccountsOf(name), EncoderOf(name), r)) =
           Reading(name, r)
<1> DEFINE ix == Instruction(name, AccountsOf(name), EncoderOf(name), r)
<1>1. /\ Parsed(name, LeastOf(name), ParsedOf(name), DecoderOf(name), ix) = Reading(name, r)
      /\ SubSeq(ix.data, 1, 8) = Discriminator[name]
  BY AccountsAre, EncodersAre, DecodersAgree, ParsersAgree, DiscriminatorsTyped, ParsedIs
  DEF Reading
<1> HIDE DEF ix
<1>2. IdentifyArcadiumEscrowInstruction(ix.data) = name
  BY <1>1, Identified
<1>3. ParseArcadiumEscrowInstruction(ix) =
        Parsed(name, LeastOf(name), ParsedOf(name), DecoderOf(name), ix)
  BY <1>2 DEF ParseArcadiumEscrowInstruction, ParseCreateEscrowInstruction,
    ParseInitializeInstruction, ParseMarkDisputedInstruction, ParseResolveDisputeInstruction,
    ParseSetPausedInstruction, ParseSettleEscrowInstruction, ParseUpdateEscrowInstruction,
    LeastOf, ParsedOf, DecoderOf, InstructionNames
<1> QED BY <1>1, <1>3 DEF ix

\* r has what the caller gave in `in`; and `value` where the caller left `name` out.
Keeps(r, in) == DOMAIN in \subseteq DOMAIN r /\ \A n \in DOMAIN in : r[n] = in[n]
Given(r, in, name, value) == name \notin DOMAIN in => r[name] = value

LEMMA Defaulted ==
  ASSUME NEW in, NEW name, NEW value, NEW r, r = Default(in, name, value)
  PROVE  /\ DOMAIN r = DOMAIN in \cup {name} /\ Keeps(r, in)
         /\ Given(r, in, name, value)
  BY DEF Default, Keeps, Given

LEMMA KeptOn ==
  ASSUME NEW a, NEW b, NEW c, Keeps(b, a), Keeps(c, b)
  PROVE  Keeps(c, a)
  BY DEF Keeps

LEMMA CreateEscrowBuilt ==
  ASSUME NEW in, {"client", "jobId", "tokenMint"} \subseteq DOMAIN in
  PROVE  \E r :
           /\ GetInstructionAsync("createEscrow", in) =
                Instruction("createEscrow", CreateEscrowAccounts, CreateEscrowEncoder, r)
           /\ Keeps(r, in)
           /\ Given(r, in, "config", ConfigPda)
           /\ Given(r, in, "escrowVaultState", EscrowVaultStatePda(r.client, r.jobId))
           /\ Given(r, in, "escrowVault", EscrowVaultPda(r.escrowVaultState))
           /\ Given(r, in, "clientTokenAccount", AssociatedTokenPda(r.client, r.tokenMint))
           /\ Given(r, in, "tokenProgram", TokenProgram)
           /\ Given(r, in, "systemProgram", SystemProgram)
<1> DEFINE r1 == Default(in, "config", ConfigPda)
           r2 == Default(r1, "escrowVaultState", EscrowVaultStatePda(r1.client, r1.jobId))
           r3 == Default(r2, "escrowVault", EscrowVaultPda(r2.escrowVaultState))
           r4 == Default(r3, "clientTokenAccount", AssociatedTokenPda(r3.client, r3.tokenMint))
           r5 == Default(r4, "tokenProgram", TokenProgram)
           r6 == Default(r5, "systemProgram", SystemProgram)
<1>1. GetInstructionAsync("createEscrow", in) =
        Instruction("createEscrow", CreateEscrowAccounts, CreateEscrowEncoder, r6)
  BY DEF GetInstructionAsync, GetCreateEscrowInstructionAsync, GetCreateEscrowInstruction
<1>2. /\ DOMAIN r1 = DOMAIN in \cup {"config"} /\ Keeps(r1, in)
      /\ Given(r1, in, "config", ConfigPda)
  BY Defaulted
<1>3. /\ DOMAIN r2 = DOMAIN r1 \cup {"escrowVaultState"} /\ Keeps(r2, r1)
      /\ Given(r2, r1, "escrowVaultState", EscrowVaultStatePda(r1.client, r1.jobId))
  <2> HIDE DEF r1
  <2> QED BY Defaulted
<1>4. /\ DOMAIN r3 = DOMAIN r2 \cup {"escrowVault"} /\ Keeps(r3, r2)
      /\ Given(r3, r2, "escrowVault", EscrowVaultPda(r2.escrowVaultState))
  <2> HIDE DEF r1, r2
  <2> QED BY Defaulted
<1>5. /\ DOMAIN r4 = DOMAIN r3 \cup {"clientTokenAccount"} /\ Keeps(r4, r3)
      /\ Given(r4, r3, "clientTokenAccount", AssociatedTokenPda(r3.client, r3.tokenMint))
  <2> HIDE DEF r1, r2, r3
  <2> QED BY Defaulted
<1>6. /\ DOMAIN r5 = DOMAIN r4 \cup {"tokenProgram"} /\ Keeps(r5, r4)
      /\ Given(r5, r4, "tokenProgram", TokenProgram)
  <2> HIDE DEF r1, r2, r3, r4
  <2> QED BY Defaulted
<1>7. /\ DOMAIN r6 = DOMAIN r5 \cup {"systemProgram"} /\ Keeps(r6, r5)
      /\ Given(r6, r5, "systemProgram", SystemProgram)
  <2> HIDE DEF r1, r2, r3, r4, r5
  <2> QED BY Defaulted
<1> HIDE DEF r1, r2, r3, r4, r5, r6
<1>8. /\ Keeps(r6, in)
      /\ Keeps(r6, r1)
      /\ Keeps(r6, r2)
      /\ Keeps(r6, r3)
      /\ Keeps(r6, r4)
      /\ Keeps(r6, r5)
  <2>1. Keeps(r6, r4)
    BY <1>2, <1>3, <1>4, <1>5, <1>6, <1>7, KeptOn
  <2>2. Keeps(r6, r3)
    BY <1>2, <1>3, <1>4, <1>5, <1>6, <1>7, <2>1, KeptOn
  <2>3. Keeps(r6, r2)
    BY <1>2, <1>3, <1>4, <1>5, <1>6, <1>7, <2>2, KeptOn
  <2>4. Keeps(r6, r1)
    BY <1>2, <1>3, <1>4, <1>5, <1>6, <1>7, <2>3, KeptOn
  <2>5. Keeps(r6, in)
    BY <1>2, <1>3, <1>4, <1>5, <1>6, <1>7, <2>4, KeptOn
  <2> QED BY <1>7, <2>1, <2>2, <2>3, <2>4, <2>5
<1>9. Given(r6, in, "config", ConfigPda)
  BY <1>2, <1>3, <1>4, <1>5, <1>6, <1>7, <1>8 DEF Keeps, Given
<1>10. Given(r6, in, "escrowVaultState", EscrowVaultStatePda(r6.client, r6.jobId))
  BY <1>2, <1>3, <1>4, <1>5, <1>6, <1>7, <1>8 DEF Keeps, Given
<1>11. Given(r6, in, "escrowVault", EscrowVaultPda(r6.escrowVaultState))
  BY <1>2, <1>3, <1>4, <1>5, <1>6, <1>7, <1>8 DEF Keeps, Given
<1>12. Given(r6, in, "clientTokenAccount", AssociatedTokenPda(r6.client, r6.tokenMint))
  BY <1>2, <1>3, <1>4, <1>5, <1>6, <1>7, <1>8 DEF Keeps, Given
<1>13. Given(r6, in, "tokenProgram", TokenProgram)
  BY <1>2, <1>3, <1>4, <1>5, <1>6, <1>7, <1>8 DEF Keeps, Given
<1>14. Given(r6, in, "systemProgram", SystemProgram)
  BY <1>2, <1>3, <1>4, <1>5, <1>6, <1>7, <1>8 DEF Keeps, Given
<1> QED BY <1>1, <1>8, <1>9, <1>10, <1>11, <1>12, <1>13, <1>14

LEMMA SettleEscrowBuilt ==
  ASSUME NEW in, {"client", "jobId"} \subseteq DOMAIN in
  PROVE  \E r :
           /\ GetInstructionAsync("settleEscrow", in) =
                Instruction("settleEscrow", SettleEscrowAccounts, SettleEscrowEncoder, r)
           /\ Keeps(r, in)
           /\ Given(r, in, "config", ConfigPda)
           /\ Given(r, in, "escrowVaultState", EscrowVaultStatePda(r.client, r.jobId))
           /\ Given(r, in, "escrowVault", EscrowVaultPda(r.escrowVaultState))
           /\ Given(r, in, "tokenProgram", TokenProgram)
<1> DEFINE r1 == Default(in, "config", ConfigPda)
           r2 == Default(r1, "escrowVaultState", EscrowVaultStatePda(r1.client, r1.jobId))
           r3 == Default(r2, "escrowVault", EscrowVaultPda(r2.escrowVaultState))
           r4 == Default(r3, "tokenProgram", TokenProgram)
<1>1. GetInstructionAsync("settleEscrow", in) =
        Instruction("settleEscrow", SettleEscrowAccounts, SettleEscrowEncoder, r4)
  BY DEF GetInstructionAsync, GetSettleEscrowInstructionAsync, GetSettleEscrowInstruction
<1>2. /\ DOMAIN r1 = DOMAIN in \cup {"config"} /\ Keeps(r1, in)
      /\ Given(r1, in, "config", ConfigPda)
  BY Defaulted
<1>3. /\ DOMAIN r2 = DOMAIN r1 \cup {"escrowVaultState"} /\ Keeps(r2, r1)
      /\ Given(r2, r1, "escrowVaultState", EscrowVaultStatePda(r1.client, r1.jobId))
  <2> HIDE DEF r1
  <2> QED BY Defaulted
<1>4. /\ DOMAIN r3 = DOMAIN r2 \cup {"escrowVault"} /\ Keeps(r3, r2)
      /\ Given(r3, r2, "escrowVault", EscrowVaultPda(r2.escrowVaultState))
  <2> HIDE DEF r1, r2
  <2> QED BY Defaulted
<1>5. /\ DOMAIN r4 = DOMAIN r3 \cup {"tokenProgram"} /\ Keeps(r4, r3)
      /\ Given(r4, r3, "tokenProgram", TokenProgram)
  <2> HIDE DEF r1, r2, r3
  <2> QED BY Defaulted
<1> HIDE DEF r1, r2, r3, r4
<1>6. /\ Keeps(r4, in)
      /\ Keeps(r4, r1)
      /\ Keeps(r4, r2)
      /\ Keeps(r4, r3)
  <2>1. Keeps(r4, r2)
    BY <1>2, <1>3, <1>4, <1>5, KeptOn
  <2>2. Keeps(r4, r1)
    BY <1>2, <1>3, <1>4, <1>5, <2>1, KeptOn
  <2>3. Keeps(r4, in)
    BY <1>2, <1>3, <1>4, <1>5, <2>2, KeptOn
  <2> QED BY <1>5, <2>1, <2>2, <2>3
<1>7. Given(r4, in, "config", ConfigPda)
  BY <1>2, <1>3, <1>4, <1>5, <1>6 DEF Keeps, Given
<1>8. Given(r4, in, "escrowVaultState", EscrowVaultStatePda(r4.client, r4.jobId))
  BY <1>2, <1>3, <1>4, <1>5, <1>6 DEF Keeps, Given
<1>9. Given(r4, in, "escrowVault", EscrowVaultPda(r4.escrowVaultState))
  BY <1>2, <1>3, <1>4, <1>5, <1>6 DEF Keeps, Given
<1>10. Given(r4, in, "tokenProgram", TokenProgram)
  BY <1>2, <1>3, <1>4, <1>5, <1>6 DEF Keeps, Given
<1> QED BY <1>1, <1>6, <1>7, <1>8, <1>9, <1>10

LEMMA UpdateEscrowBuilt ==
  ASSUME NEW in, {"client", "jobId"} \subseteq DOMAIN in
  PROVE  \E r :
           /\ GetInstructionAsync("updateEscrow", in) =
                Instruction("updateEscrow", UpdateEscrowAccounts, UpdateEscrowEncoder, r)
           /\ Keeps(r, in)
           /\ Given(r, in, "config", ConfigPda)
           /\ Given(r, in, "escrowVaultState", EscrowVaultStatePda(r.client, r.jobId))
<1> DEFINE r1 == Default(in, "config", ConfigPda)
           r2 == Default(r1, "escrowVaultState", EscrowVaultStatePda(r1.client, r1.jobId))
<1>1. GetInstructionAsync("updateEscrow", in) =
        Instruction("updateEscrow", UpdateEscrowAccounts, UpdateEscrowEncoder, r2)
  BY DEF GetInstructionAsync, GetUpdateEscrowInstructionAsync, GetUpdateEscrowInstruction
<1>2. /\ DOMAIN r1 = DOMAIN in \cup {"config"} /\ Keeps(r1, in)
      /\ Given(r1, in, "config", ConfigPda)
  BY Defaulted
<1>3. /\ DOMAIN r2 = DOMAIN r1 \cup {"escrowVaultState"} /\ Keeps(r2, r1)
      /\ Given(r2, r1, "escrowVaultState", EscrowVaultStatePda(r1.client, r1.jobId))
  <2> HIDE DEF r1
  <2> QED BY Defaulted
<1> HIDE DEF r1, r2
<1>4. /\ Keeps(r2, in)
      /\ Keeps(r2, r1)
  <2>1. Keeps(r2, in)
    BY <1>2, <1>3, KeptOn
  <2> QED BY <1>3, <2>1
<1>5. Given(r2, in, "config", ConfigPda)
  BY <1>2, <1>3, <1>4 DEF Keeps, Given
<1>6. Given(r2, in, "escrowVaultState", EscrowVaultStatePda(r2.client, r2.jobId))
  BY <1>2, <1>3, <1>4 DEF Keeps, Given
<1> QED BY <1>1, <1>4, <1>5, <1>6

LEMMA MarkDisputedBuilt ==
  ASSUME NEW in, {"client", "jobId"} \subseteq DOMAIN in
  PROVE  \E r :
           /\ GetInstructionAsync("markDisputed", in) =
                Instruction("markDisputed", MarkDisputedAccounts, MarkDisputedEncoder, r)
           /\ Keeps(r, in)
           /\ Given(r, in, "config", ConfigPda)
           /\ Given(r, in, "escrowVaultState", EscrowVaultStatePda(r.client, r.jobId))
<1> DEFINE r1 == Default(in, "config", ConfigPda)
           r2 == Default(r1, "escrowVaultState", EscrowVaultStatePda(r1.client, r1.jobId))
<1>1. GetInstructionAsync("markDisputed", in) =
        Instruction("markDisputed", MarkDisputedAccounts, MarkDisputedEncoder, r2)
  BY DEF GetInstructionAsync, GetMarkDisputedInstructionAsync, GetMarkDisputedInstruction
<1>2. /\ DOMAIN r1 = DOMAIN in \cup {"config"} /\ Keeps(r1, in)
      /\ Given(r1, in, "config", ConfigPda)
  BY Defaulted
<1>3. /\ DOMAIN r2 = DOMAIN r1 \cup {"escrowVaultState"} /\ Keeps(r2, r1)
      /\ Given(r2, r1, "escrowVaultState", EscrowVaultStatePda(r1.client, r1.jobId))
  <2> HIDE DEF r1
  <2> QED BY Defaulted
<1> HIDE DEF r1, r2
<1>4. /\ Keeps(r2, in)
      /\ Keeps(r2, r1)
  <2>1. Keeps(r2, in)
    BY <1>2, <1>3, KeptOn
  <2> QED BY <1>3, <2>1
<1>5. Given(r2, in, "config", ConfigPda)
  BY <1>2, <1>3, <1>4 DEF Keeps, Given
<1>6. Given(r2, in, "escrowVaultState", EscrowVaultStatePda(r2.client, r2.jobId))
  BY <1>2, <1>3, <1>4 DEF Keeps, Given
<1> QED BY <1>1, <1>4, <1>5, <1>6

LEMMA ResolveDisputeBuilt ==
  ASSUME NEW in, {"client", "jobId", "tokenMint"} \subseteq DOMAIN in
  PROVE  \E r :
           /\ GetInstructionAsync("resolveDispute", in) =
                Instruction("resolveDispute", ResolveDisputeAccounts, ResolveDisputeEncoder, r)
           /\ Keeps(r, in)
           /\ Given(r, in, "config", ConfigPda)
           /\ Given(r, in, "escrowVaultState", EscrowVaultStatePda(r.client, r.jobId))
           /\ Given(r, in, "escrowVault", EscrowVaultPda(r.escrowVaultState))
           /\ Given(r, in, "clientTokenAccount", AssociatedTokenPda(r.client, r.tokenMint))
           /\ Given(r, in, "tokenProgram", TokenProgram)
<1> DEFINE r1 == Default(in, "config", ConfigPda)
           r2 == Default(r1, "escrowVaultState", EscrowVaultStatePda(r1.client, r1.jobId))
           r3 == Default(r2, "escrowVault", EscrowVaultPda(r2.escrowVaultState))
           r4 == Default(r3, "clientTokenAccount", AssociatedTokenPda(r3.client, r3.tokenMint))
           r5 == Default(r4, "tokenProgram", TokenProgram)
<1>1. GetInstructionAsync("resolveDispute", in) =
        Instruction("resolveDispute", ResolveDisputeAccounts, ResolveDisputeEncoder, r5)
  BY DEF GetInstructionAsync, GetResolveDisputeInstructionAsync, GetResolveDisputeInstruction
<1>2. /\ DOMAIN r1 = DOMAIN in \cup {"config"} /\ Keeps(r1, in)
      /\ Given(r1, in, "config", ConfigPda)
  BY Defaulted
<1>3. /\ DOMAIN r2 = DOMAIN r1 \cup {"escrowVaultState"} /\ Keeps(r2, r1)
      /\ Given(r2, r1, "escrowVaultState", EscrowVaultStatePda(r1.client, r1.jobId))
  <2> HIDE DEF r1
  <2> QED BY Defaulted
<1>4. /\ DOMAIN r3 = DOMAIN r2 \cup {"escrowVault"} /\ Keeps(r3, r2)
      /\ Given(r3, r2, "escrowVault", EscrowVaultPda(r2.escrowVaultState))
  <2> HIDE DEF r1, r2
  <2> QED BY Defaulted
<1>5. /\ DOMAIN r4 = DOMAIN r3 \cup {"clientTokenAccount"} /\ Keeps(r4, r3)
      /\ Given(r4, r3, "clientTokenAccount", AssociatedTokenPda(r3.client, r3.tokenMint))
  <2> HIDE DEF r1, r2, r3
  <2> QED BY Defaulted
<1>6. /\ DOMAIN r5 = DOMAIN r4 \cup {"tokenProgram"} /\ Keeps(r5, r4)
      /\ Given(r5, r4, "tokenProgram", TokenProgram)
  <2> HIDE DEF r1, r2, r3, r4
  <2> QED BY Defaulted
<1> HIDE DEF r1, r2, r3, r4, r5
<1>7. /\ Keeps(r5, in)
      /\ Keeps(r5, r1)
      /\ Keeps(r5, r2)
      /\ Keeps(r5, r3)
      /\ Keeps(r5, r4)
  <2>1. Keeps(r5, r3)
    BY <1>2, <1>3, <1>4, <1>5, <1>6, KeptOn
  <2>2. Keeps(r5, r2)
    BY <1>2, <1>3, <1>4, <1>5, <1>6, <2>1, KeptOn
  <2>3. Keeps(r5, r1)
    BY <1>2, <1>3, <1>4, <1>5, <1>6, <2>2, KeptOn
  <2>4. Keeps(r5, in)
    BY <1>2, <1>3, <1>4, <1>5, <1>6, <2>3, KeptOn
  <2> QED BY <1>6, <2>1, <2>2, <2>3, <2>4
<1>8. Given(r5, in, "config", ConfigPda)
  BY <1>2, <1>3, <1>4, <1>5, <1>6, <1>7 DEF Keeps, Given
<1>9. Given(r5, in, "escrowVaultState", EscrowVaultStatePda(r5.client, r5.jobId))
  BY <1>2, <1>3, <1>4, <1>5, <1>6, <1>7 DEF Keeps, Given
<1>10. Given(r5, in, "escrowVault", EscrowVaultPda(r5.escrowVaultState))
  BY <1>2, <1>3, <1>4, <1>5, <1>6, <1>7 DEF Keeps, Given
<1>11. Given(r5, in, "clientTokenAccount", AssociatedTokenPda(r5.client, r5.tokenMint))
  BY <1>2, <1>3, <1>4, <1>5, <1>6, <1>7 DEF Keeps, Given
<1>12. Given(r5, in, "tokenProgram", TokenProgram)
  BY <1>2, <1>3, <1>4, <1>5, <1>6, <1>7 DEF Keeps, Given
<1> QED BY <1>1, <1>7, <1>8, <1>9, <1>10, <1>11, <1>12

LEMMA InitializeBuilt ==
  ASSUME NEW in
  PROVE  \E r :
           /\ GetInstructionAsync("initialize", in) =
                Instruction("initialize", InitializeAccounts, InitializeEncoder, r)
           /\ Keeps(r, in)
           /\ Given(r, in, "config", ConfigPda)
           /\ Given(r, in, "systemProgram", SystemProgram)
<1> DEFINE r1 == Default(in, "config", ConfigPda)
           r2 == Default(r1, "systemProgram", SystemProgram)
<1>1. GetInstructionAsync("initialize", in) =
        Instruction("initialize", InitializeAccounts, InitializeEncoder, r2)
  BY DEF GetInstructionAsync, GetInitializeInstructionAsync, GetInitializeInstruction
<1>2. /\ DOMAIN r1 = DOMAIN in \cup {"config"} /\ Keeps(r1, in)
      /\ Given(r1, in, "config", ConfigPda)
  BY Defaulted
<1>3. /\ DOMAIN r2 = DOMAIN r1 \cup {"systemProgram"} /\ Keeps(r2, r1)
      /\ Given(r2, r1, "systemProgram", SystemProgram)
  <2> HIDE DEF r1
  <2> QED BY Defaulted
<1> HIDE DEF r1, r2
<1>4. /\ Keeps(r2, in)
      /\ Keeps(r2, r1)
  <2>1. Keeps(r2, in)
    BY <1>2, <1>3, KeptOn
  <2> QED BY <1>3, <2>1
<1>5. Given(r2, in, "config", ConfigPda)
  BY <1>2, <1>3, <1>4 DEF Keeps, Given
<1>6. Given(r2, in, "systemProgram", SystemProgram)
  BY <1>2, <1>3, <1>4 DEF Keeps, Given
<1> QED BY <1>1, <1>4, <1>5, <1>6

LEMMA SetPausedBuilt ==
  ASSUME NEW in
  PROVE  \E r :
           /\ GetInstructionAsync("setPaused", in) =
                Instruction("setPaused", SetPausedAccounts, SetPausedEncoder, r)
           /\ Keeps(r, in)
           /\ Given(r, in, "config", ConfigPda)
<1> DEFINE r1 == Default(in, "config", ConfigPda)
<1>1. GetInstructionAsync("setPaused", in) =
        Instruction("setPaused", SetPausedAccounts, SetPausedEncoder, r1)
  BY DEF GetInstructionAsync, GetSetPausedInstructionAsync, GetSetPausedInstruction
<1>2. /\ DOMAIN r1 = DOMAIN in \cup {"config"} /\ Keeps(r1, in)
      /\ Given(r1, in, "config", ConfigPda)
  BY Defaulted
<1> HIDE DEF r1
<1>3. Given(r1, in, "config", ConfigPda)
  BY <1>2, <1>2 DEF Keeps, Given
<1> QED BY <1>1, <1>2, <1>3

-----------------------------------------------------------------------------
(* The two accounts *)

LEMMA TwelveFields ==
  ASSUME NEW f1, NEW f2, NEW f3, NEW f4, NEW f5, NEW f6, NEW f7, NEW f8, NEW f9, NEW f10,
         NEW f11, NEW f12, NEW s, s = <<f1, f2, f3, f4, f5, f6, f7, f8, f9, f10, f11, f12>>
  PROVE  /\ Len(s) = 12 /\ DOMAIN s = 1..12
         /\ \A i \in 1..12 :
              s[i] \in {f1, f2, f3, f4, f5, f6, f7, f8, f9, f10, f11, f12}
<1>1. Len(s) = 12 /\ DOMAIN s = 1..12
  OBVIOUS
<1>2. s[1] = f1 /\ s[2] = f2 /\ s[3] = f3 /\ s[4] = f4 /\ s[5] = f5 /\ s[6] = f6
  OBVIOUS
<1>3. s[7] = f7 /\ s[8] = f8 /\ s[9] = f9 /\ s[10] = f10 /\ s[11] = f11 /\ s[12] = f12
  OBVIOUS
<1>4. \A i \in 1..12 : \/ i = 1 \/ i = 2 \/ i = 3 \/ i = 4 \/ i = 5 \/ i = 6
                       \/ i = 7 \/ i = 8 \/ i = 9 \/ i = 10 \/ i = 11 \/ i = 12
  OBVIOUS
<1> QED BY <1>1, <1>2, <1>3, <1>4

\* The fields of the vault, in a set.
VaultFields ==
  {Fixed("jobId", 16), Enum("jobType", JobType), Enum("jobStatus", JobStatus),
   Fixed("client", 32), Fixed("agentOwner", 32), Fixed("amount", 8),
   Enum("state", EscrowState), Fixed("createdAt", 8), Fixed("expiry", 8),
   OptionOf("fulfilledAt", 8), Fixed("platformFeeBps", 2), Fixed("bump", 1)}

LEMMA VaultFieldsAre ==
  /\ Len(EscrowVaultEncoder) = 12 /\ DOMAIN EscrowVaultEncoder = 1..12
  /\ \A i \in 1..12 : EscrowVaultEncoder[i] \in VaultFields
<1> DEFINE f1 == Fixed("jobId", 16)
           f2 == Enum("jobType", JobType)
           f3 == Enum("jobStatus", JobStatus)
           f4 == Fixed("client", 32)
           f5 == Fixed("agentOwner", 32)
           f6 == Fixed("amount", 8)
           f7 == Enum("state", EscrowState)
           f8 == Fixed("createdAt", 8)
           f9 == Fixed("expiry", 8)
           f10 == OptionOf("fulfilledAt", 8)
           f11 == Fixed("platformFeeBps", 2)
           f12 == Fixed("bump", 1)
           s == EscrowVaultEncoder
<1>1. s = <<f1, f2, f3, f4, f5, f6, f7, f8, f9, f10, f11, f12>>
  BY DEF EscrowVaultEncoder
<1>2. VaultFields = {f1, f2, f3, f4, f5, f6, f7, f8, f9, f10, f11, f12}
  BY DEF VaultFields
<1> HIDE DEF f1, f2, f3, f4, f5, f6, f7, f8, f9, f10, f11, f12, s
<1>3. /\ Len(s) = 12 /\ DOMAIN s = 1..12
      /\ \A i \in 1..12 : s[i] \in {f1, f2, f3, f4, f5, f6, f7, f8, f9, f10, f11, f12}
  BY <1>1, TwelveFields
<1> QED BY <1>2, <1>3 DEF s

LEMMA EscrowVaultEncoderIs == IsLayout(EscrowVaultEncoder)
<1>1. /\ \A name : \A size \in Nat \ {0} : IsField(Fixed(name, size))
      /\ IsField(OptionOf("fulfilledAt", 8)) /\ IsField(Enum("jobType", JobType))
      /\ IsField(Enum("jobStatus", JobStatus)) /\ IsField(Enum("state", EscrowState))
  BY IsFieldOf
<1>2. /\ IsField(Fixed("jobId", 16)) /\ IsField(Fixed("client", 32))
      /\ IsField(Fixed("agentOwner", 32)) /\ IsField(Fixed("amount", 8))
      /\ IsField(Fixed("createdAt", 8)) /\ IsField(Fixed("expiry", 8))
      /\ IsField(Fixed("platformFeeBps", 2)) /\ IsField(Fixed("bump", 1))
  BY <1>1
<1>3. \A f \in VaultFields : IsField(f)
  BY <1>1, <1>2 DEF VaultFields
<1> QED BY <1>3, VaultFieldsAre DEF IsLayout

LEMMA ArcadiumConfigEncoderIs == IsLayout(ArcadiumConfigEncoder)
<1>1. ASSUME NEW a, NEW b, NEW c, NEW d, NEW e, NEW f, NEW g, IsField(a), IsField(b),
             IsField(c), IsField(d), IsField(e), IsField(f), IsField(g)
      PROVE  IsLayout(<<a, b, c, d, e, f, g>>)
  BY <1>1 DEF IsLayout
<1>2. \A name : \A size \in Nat \ {0} : IsField(Fixed(name, size))
  BY IsFieldOf
<1>3. /\ IsField(Fixed("platformFeeBps", 2)) /\ IsField(Fixed("authority", 32))
      /\ IsField(Fixed("emergencyAdmin", 32)) /\ IsField(Fixed("treasury", 32))
      /\ IsField(Fixed("tokenMint", 32)) /\ IsField(Fixed("paused", 1))
      /\ IsField(Fixed("bump", 1))
  BY <1>2
<1> QED BY <1>1, <1>3 DEF ArcadiumConfigEncoder

\* The decoders of the two accounts list what their encoders list.
LEMMA AccountDecodersAgree ==
  /\ EscrowVaultDecoder = EscrowVaultEncoder /\ ArcadiumConfigDecoder = ArcadiumConfigEncoder
  /\ AccountIdentifiedBy = AccountDiscriminator
<1>1. EscrowVaultDecoder = EscrowVaultEncoder
  BY DEF EscrowVaultDecoder, EscrowVaultEncoder
<1>2. ArcadiumConfigDecoder = ArcadiumConfigEncoder
  BY DEF ArcadiumConfigDecoder, ArcadiumConfigEncoder
<1>3. AccountIdentifiedBy = AccountDiscriminator
  BY DEF AccountIdentifiedBy, AccountDiscriminator
<1> QED BY <1>1, <1>2, <1>3

LEMMA AccountDiscriminators ==
  /\ IsDiscriminator(AccountDiscriminator.escrowVault)
  /\ IsDiscriminator(AccountDiscriminator.arcadiumConfig)
  /\ \A data :
       /\ SubSeq(data, 1, 8) = AccountDiscriminator.escrowVault =>
            IdentifyArcadiumEscrowAccount(data) = "escrowVault"
       /\ SubSeq(data, 1, 8) = AccountDiscriminator.arcadiumConfig =>
            IdentifyArcadiumEscrowAccount(data) = "arcadiumConfig"
<1> DEFINE V == AccountDiscriminator["escrowVault"]
           C == AccountDiscriminator["arcadiumConfig"]
<1>1. IsDiscriminator(V)
  <2>1. IsDiscriminator(<<54, 84, 41, 149, 160, 181, 85, 114>>)
    BY DEF IsDiscriminator
  <2> QED BY <2>1 DEF AccountDiscriminator
<1>2. IsDiscriminator(C)
  <2>1. IsDiscriminator(<<196, 82, 18, 151, 31, 45, 161, 254>>)
    BY DEF IsDiscriminator
  <2> QED BY <2>1 DEF AccountDiscriminator
<1>3. V # C
  <2>1. V[1] = 54 /\ C[1] = 196
    BY DEF AccountDiscriminator
  <2> HIDE DEF V, C
  <2> QED BY <2>1
<1>4. DOMAIN AccountDiscriminator = {"arcadiumConfig", "escrowVault"}
  BY DEF AccountDiscriminator
<1>5. ASSUME NEW data, NEW name \in DOMAIN AccountDiscriminator,
             SubSeq(data, 1, 8) = AccountDiscriminator[name]
      PROVE  IdentifyArcadiumEscrowAccount(data) = name
  <2> DEFINE found == IdentifyArcadiumEscrowAccount(data)
  <2>1. found \in DOMAIN AccountDiscriminator /\ SubSeq(data, 1, 8) = AccountDiscriminator[found]
    BY <1>4, <1>5, AccountDecodersAgree DEF IdentifyArcadiumEscrowAccount
  <2> HIDE DEF found
  <2>2. found = name
    BY <1>3, <1>4, <1>5, <2>1
  <2> QED BY <2>2 DEF found
<1> QED BY <1>1, <1>2, <1>4, <1>5

\* The bytes of a vault, with others behind them.
VaultBytes(v, tail) == Encode(AccountDiscriminator["escrowVault"], EscrowVaultEncoder, v) \o tail

HasVariants(v) ==
  /\ v.jobType \in {"Gig", "Bounty"}
  /\ v.jobStatus \in {"Active", "Fulfilled", "UnFulfilled"}
  /\ v.state \in {"Funded", "Released", "Refunded", "Disputed"}

LEMMA VaultIsRead ==
  ASSUME NEW v, HasVariants(v), NEW tail \in Seq(Nat \X Nat), NEW data, data = VaultBytes(v, tail)
  PROVE  IsRead(AccountDiscriminator["escrowVault"], EscrowVaultEncoder, v, data)
<1> DEFINE d == AccountDiscriminator["escrowVault"]
<1>1. FitsAll(EscrowVaultEncoder, v)
  <2>1. \A name, size : Fits(Fixed(name, size), v[name]) /\ Fits(OptionOf(name, size), v[name])
    BY DEF Fits, Fixed, OptionOf
  <2>2. Fits(Enum("jobType", JobType), v["jobType"])
    BY DEF HasVariants, Fits, Enum, JobType
  <2>3. Fits(Enum("jobStatus", JobStatus), v["jobStatus"])
    BY DEF HasVariants, Fits, Enum, JobStatus
  <2>4. Fits(Enum("state", EscrowState), v["state"])
    BY DEF HasVariants, Fits, Enum, EscrowState
  <2>5. \A name, size, s : /\ Fixed(name, size).name = name /\ OptionOf(name, size).name = name
                           /\ Enum(name, s).name = name
    BY DEF Fixed, OptionOf, Enum
  <2>6. \A f \in VaultFields : Fits(f, v[f.name])
    BY <2>1, <2>2, <2>3, <2>4, <2>5 DEF VaultFields
  <2> QED BY <2>6, VaultFieldsAre DEF FitsAll
<1>2. IsDiscriminator(d)
  BY AccountDiscriminators
<1>3. data = Encode(d, EscrowVaultEncoder, v) \o tail
  BY DEF VaultBytes
<1>4. IsRead(d, EscrowVaultEncoder, v, data)
  <2> HIDE DEF d
  <2> QED BY <1>1, <1>2, <1>3, EscrowVaultEncoderIs, ReadBehind
<1> QED BY <1>4

\* What the encoder of an EscrowVault writes, its decoder, which has a list of the
\* fields of its own, reads back, whatever is in the space behind the last field.
THEOREM EscrowVaultReadsBack ==
  ASSUME NEW v, HasVariants(v), NEW tail \in Seq(Nat \X Nat)
  PROVE  /\ Decode(EscrowVaultDecoder, VaultBytes(v, tail)) =
              [n \in Names(EscrowVaultEncoder) |-> v[n]]
         /\ IdentifyArcadiumEscrowAccount(VaultBytes(v, tail)) = "escrowVault"
<1> DEFINE data == VaultBytes(v, tail)
<1> HIDE DEF data
<1>1. IsRead(AccountDiscriminator["escrowVault"], EscrowVaultEncoder, v, data)
  BY VaultIsRead DEF data
<1> QED BY <1>1, AccountDiscriminators, AccountDecodersAgree DEF IsRead, data

\* The config account, which is of a fixed size, is read back by its decoder's own
\* list of the fields, and is of that size.
THEOREM ArcadiumConfigReadsBack ==
  ASSUME NEW c, NEW data,
         data = Encode(AccountDiscriminator.arcadiumConfig, ArcadiumConfigEncoder, c)
  PROVE  /\ Decode(ArcadiumConfigDecoder, data) = [n \in Names(ArcadiumConfigEncoder) |-> c[n]]
         /\ IdentifyArcadiumEscrowAccount(data) = "arcadiumConfig"
         /\ Len(data) = ArcadiumConfigSize
<1> DEFINE d == AccountDiscriminator["arcadiumConfig"]
           layout == ArcadiumConfigEncoder
<1>1. FitsAll(layout, c)
  <2>1. \A name, size : Fits(Fixed(name, size), c[name]) /\ Fixed(name, size).name = name
    BY DEF Fits, Fixed
  <2> QED BY <2>1 DEF FitsAll, ArcadiumConfigEncoder
<1>2. IsDiscriminator(d) /\ data = Encode(d, layout, c) /\ IsLayout(layout)
  BY AccountDiscriminators, ArcadiumConfigEncoderIs
<1>3. IsRead(d, layout, c, data)
  <2> HIDE DEF d, layout
  <2> QED BY <1>1, <1>2, ReadBack
<1>4. Len(data) = 140
  <2> DEFINE e(i) == Len(Encoded(layout, c, i))
  <2>1. ASSUME NEW name, NEW size \in Nat, NEW i, layout[i] = Fixed(name, size)
        PROVE  e(i) = size
    <3> DEFINE v == c[name]
    <3>1. Encoded(layout, c, i) = EncodeField(Fixed(name, size), v)
      <4>1. Fixed(name, size).name = name
        BY DEF Fixed
      <4> HIDE DEF layout
      <4> QED BY <2>1, <4>1 DEF Encoded
    <3> HIDE DEF v
    <3>2. EncodeField(Fixed(name, size), v) = Bytes(v, size)
      BY DEF EncodeField, Fixed
    <3>3. Len(Bytes(v, size)) = size
      BY BytesAre
    <3> QED BY <3>1, <3>2, <3>3
  <2>2. /\ layout[1] = Fixed("platformFeeBps", 2) /\ layout[2] = Fixed("authority", 32)
        /\ layout[3] = Fixed("emergencyAdmin", 32) /\ layout[4] = Fixed("treasury", 32)
        /\ layout[5] = Fixed("tokenMint", 32) /\ layout[6] = Fixed("paused", 1)
        /\ layout[7] = Fixed("bump", 1)
    BY DEF ArcadiumConfigEncoder
  <2>3. /\ e(1) = 2 /\ e(2) = 32 /\ e(3) = 32 /\ e(4) = 32 /\ e(5) = 32 /\ e(6) = 1
        /\ e(7) = 1
    <3> HIDE DEF e, layout
    <3> QED BY <2>1, <2>2
  <2>4. Len(layout) = 7
    BY DEF ArcadiumConfigEncoder
  <2> HIDE DEF e, layout, d
  <2> DEFINE tail == <<>>
             padded == data \o tail
  <2>5. tail \in Seq(Nat \X Nat)
    OBVIOUS
  <2>6. \E g, U : IsEncoded(d, layout, c, padded, g, U)
    <3> HIDE DEF tail
    <3> QED BY <1>1, <1>2, <2>5, EncodedFields
  <2>7. PICK g : /\ g[1] = 8 /\ Len(data) = g[7] + e(7)
                 /\ \A i \in 1..7 : g[i] \in Nat /\ (i # 1 => g[i] = g[i - 1] + e(i - 1))
    BY <1>2, <2>4, <2>6 DEF IsEncoded, e
  <2>8. g[2] = g[1] + e(1) /\ g[3] = g[2] + e(2) /\ g[4] = g[3] + e(3)
    BY <2>7
  <2>9. g[5] = g[4] + e(4) /\ g[6] = g[5] + e(5) /\ g[7] = g[6] + e(6)
    BY <2>7
  <2> QED BY <2>3, <2>7, <2>8, <2>9
<1>5. SubSeq(data, 1, 8) = AccountDiscriminator.arcadiumConfig
  BY <1>3 DEF IsRead
<1> QED
  BY <1>3, <1>4, <1>5, AccountDiscriminators, AccountDecodersAgree
  DEF IsRead, ArcadiumConfigSize

-----------------------------------------------------------------------------
(* What each instruction reads back as, field by field *)

\* p reads the named fields of r.
Reads(p, name, accounts, data, r) ==
  /\ p.instructionType = name
  /\ accounts \subseteq DOMAIN p.accounts /\ \A n \in accounts : p.accounts[n] = r[n]
  /\ data \subseteq DOMAIN p.data /\ \A n \in data : p.data[n] = r[n]

LEMMA ReadingReads ==
  ASSUME NEW name, NEW r, NEW accounts, accounts \subseteq Names(AccountsOf(name)),
         NEW data, data \subseteq Names(EncoderOf(name)), NEW p, p = Reading(name, r)
  PROVE  Reads(p, name, accounts, data, r)
  BY DEF Reading, Reads

CreateEscrowReads(p, r) ==
  Reads(p, "createEscrow",
        {"client", "config", "escrowVaultState", "escrowVault", "tokenMint",
         "clientTokenAccount", "tokenProgram", "systemProgram"},
        {"jobId", "jobType", "amount", "expiry"}, r)

LEMMA CreateEscrowIsRead ==
  ASSUME NEW r, r.jobType \in {"Gig", "Bounty"},
         NEW ix, ix = Instruction("createEscrow", CreateEscrowAccounts, CreateEscrowEncoder, r)
  PROVE  CreateEscrowReads(ParseArcadiumEscrowInstruction(ix), r)
<1> DEFINE accounts == {"client", "config", "escrowVaultState", "escrowVault", "tokenMint",
                        "clientTokenAccount", "tokenProgram", "systemProgram"}
           data == {"jobId", "jobType", "amount", "expiry"}
<1>1. AccountsOf("createEscrow") = CreateEscrowAccounts /\ EncoderOf("createEscrow") = CreateEscrowEncoder
  BY DEF AccountsOf, EncoderOf
<1>2. ASSUME NEW n \in accounts PROVE n \in Names(CreateEscrowAccounts)
  <2> DEFINE s == CreateEscrowAccounts
  <2>1. DOMAIN s = 1..8
    BY DEF CreateEscrowAccounts
  <2>2. s[1].name = "client" /\ s[2].name = "config" /\ s[3].name = "escrowVaultState"
    BY DEF CreateEscrowAccounts, SignerW, Writable, Readonly
  <2>3. s[4].name = "escrowVault" /\ s[5].name = "tokenMint" /\ s[6].name = "clientTokenAccount"
    BY DEF CreateEscrowAccounts, SignerW, Writable, Readonly
  <2>4. s[7].name = "tokenProgram" /\ s[8].name = "systemProgram"
    BY DEF CreateEscrowAccounts, SignerW, Writable, Readonly
  <2> HIDE DEF s
  <2> QED BY <2>1, <2>2, <2>3, <2>4 DEF Names, s
<1>3. ASSUME NEW n \in data PROVE n \in Names(CreateEscrowEncoder)
  <2> DEFINE s == CreateEscrowEncoder
  <2>1. DOMAIN s = 1..4
    BY DEF CreateEscrowEncoder
  <2>2. s[1].name = "jobId" /\ s[2].name = "jobType" /\ s[3].name = "amount" /\ s[4].name = "expiry"
    BY DEF CreateEscrowEncoder, Fixed, Enum, OptionOf
  <2> HIDE DEF s
  <2> QED BY <2>1, <2>2 DEF Names, s
<1>4. FitsAll(CreateEscrowEncoder, r)
  <2>1. \A size, m : Fits(Fixed(m, size), r[m]) /\ Fixed(m, size).name = m
    BY DEF Fits, Fixed
  <2>2. Fits(Enum("jobType", JobType), r["jobType"]) /\ Enum("jobType", JobType).name = "jobType"
    BY DEF Fits, Enum, JobType
  <2> QED BY <2>1, <2>2 DEF FitsAll, CreateEscrowEncoder
<1>5. "createEscrow" \in InstructionNames
  BY DEF InstructionNames
<1>6. ParseArcadiumEscrowInstruction(ix) = Reading("createEscrow", r)
  BY <1>1, <1>4, <1>5, InstructionReadsBack
<1> HIDE DEF accounts, data
<1>7. Reads(ParseArcadiumEscrowInstruction(ix), "createEscrow", accounts, data, r)
  BY <1>1, <1>2, <1>3, <1>6, ReadingReads
<1> QED BY <1>7 DEF CreateEscrowReads, accounts, data

SettleEscrowReads(p, r) ==
  Reads(p, "settleEscrow",
        {"client", "config", "escrowVaultState", "escrowVault", "recipientTokenAccount",
         "treasuryTokenAccount", "tokenMint", "tokenProgram"},
        {"jobId"}, r)

LEMMA SettleEscrowIsRead ==
  ASSUME NEW r,
         NEW ix, ix = Instruction("settleEscrow", SettleEscrowAccounts, SettleEscrowEncoder, r)
  PROVE  SettleEscrowReads(ParseArcadiumEscrowInstruction(ix), r)
<1> DEFINE accounts == {"client", "config", "escrowVaultState", "escrowVault",
                        "recipientTokenAccount", "treasuryTokenAccount", "tokenMint",
                        "tokenProgram"}
           data == {"jobId"}
<1>1. AccountsOf("settleEscrow") = SettleEscrowAccounts /\ EncoderOf("settleEscrow") = SettleEscrowEncoder
  BY DEF AccountsOf, EncoderOf
<1>2. ASSUME NEW n \in accounts PROVE n \in Names(SettleEscrowAccounts)
  <2> DEFINE s == SettleEscrowAccounts
  <2>1. DOMAIN s = 1..8
    BY DEF SettleEscrowAccounts
  <2>2. s[1].name = "client" /\ s[2].name = "config" /\ s[3].name = "escrowVaultState"
    BY DEF SettleEscrowAccounts, SignerW, Writable, Readonly
  <2>3. s[4].name = "escrowVault" /\ s[5].name = "recipientTokenAccount" /\ s[6].name = "treasuryTokenAccount"
    BY DEF SettleEscrowAccounts, SignerW, Writable, Readonly
  <2>4. s[7].name = "tokenMint" /\ s[8].name = "tokenProgram"
    BY DEF SettleEscrowAccounts, SignerW, Writable, Readonly
  <2> HIDE DEF s
  <2> QED BY <2>1, <2>2, <2>3, <2>4 DEF Names, s
<1>3. ASSUME NEW n \in data PROVE n \in Names(SettleEscrowEncoder)
  <2> DEFINE s == SettleEscrowEncoder
  <2>1. DOMAIN s = 1..1
    BY DEF SettleEscrowEncoder
  <2>2. s[1].name = "jobId"
    BY DEF SettleEscrowEncoder, Fixed, Enum, OptionOf
  <2> HIDE DEF s
  <2> QED BY <2>1, <2>2 DEF Names, s
<1>4. FitsAll(SettleEscrowEncoder, r)
  <2>1. \A size, m : /\ Fits(Fixed(m, size), r[m]) /\ Fixed(m, size).name = m
                     /\ Fits(OptionOf(m, size), r[m]) /\ OptionOf(m, size).name = m
    BY DEF Fits, Fixed, OptionOf
  <2> QED BY <2>1 DEF FitsAll, SettleEscrowEncoder
<1>5. "settleEscrow" \in InstructionNames
  BY DEF InstructionNames
<1>6. ParseArcadiumEscrowInstruction(ix) = Reading("settleEscrow", r)
  BY <1>1, <1>4, <1>5, InstructionReadsBack
<1> HIDE DEF accounts, data
<1>7. Reads(ParseArcadiumEscrowInstruction(ix), "settleEscrow", accounts, data, r)
  BY <1>1, <1>2, <1>3, <1>6, ReadingReads
<1> QED BY <1>7 DEF SettleEscrowReads, accounts, data

UpdateEscrowReads(p, r) ==
  Reads(p, "updateEscrow",
        {"authority", "client", "config", "escrowVaultState"},
        {"jobId", "fulfilled", "agentOwner"}, r)

LEMMA UpdateEscrowIsRead ==
  ASSUME NEW r,
         NEW ix, ix = Instruction("updateEscrow", UpdateEscrowAccounts, UpdateEscrowEncoder, r)
  PROVE  UpdateEscrowReads(ParseArcadiumEscrowInstruction(ix), r)
<1> DEFINE accounts == {"authority", "client", "config", "escrowVaultState"}
           data == {"jobId", "fulfilled", "agentOwner"}
<1>1. AccountsOf("updateEscrow") = UpdateEscrowAccounts /\ EncoderOf("updateEscrow") = UpdateEscrowEncoder
  BY DEF AccountsOf, EncoderOf
<1>2. ASSUME NEW n \in accounts PROVE n \in Names(UpdateEscrowAccounts)
  <2> DEFINE s == UpdateEscrowAccounts
  <2>1. DOMAIN s = 1..4
    BY DEF UpdateEscrowAccounts
  <2>2. s[1].name = "authority" /\ s[2].name = "client" /\ s[3].name = "config"
    BY DEF UpdateEscrowAccounts, SignerW, Writable, Readonly
  <2>3. s[4].name = "escrowVaultState"
    BY DEF UpdateEscrowAccounts, SignerW, Writable, Readonly
  <2> HIDE DEF s
  <2> QED BY <2>1, <2>2, <2>3 DEF Names, s
<1>3. ASSUME NEW n \in data PROVE n \in Names(UpdateEscrowEncoder)
  <2> DEFINE s == UpdateEscrowEncoder
  <2>1. DOMAIN s = 1..3
    BY DEF UpdateEscrowEncoder
  <2>2. s[1].name = "jobId" /\ s[2].name = "fulfilled" /\ s[3].name = "agentOwner"
    BY DEF UpdateEscrowEncoder, Fixed, Enum, OptionOf
  <2> HIDE DEF s
  <2> QED BY <2>1, <2>2 DEF Names, s
<1>4. FitsAll(UpdateEscrowEncoder, r)
  <2>1. \A size, m : /\ Fits(Fixed(m, size), r[m]) /\ Fixed(m, size).name = m
                     /\ Fits(OptionOf(m, size), r[m]) /\ OptionOf(m, size).name = m
    BY DEF Fits, Fixed, OptionOf
  <2> QED BY <2>1 DEF FitsAll, UpdateEscrowEncoder
<1>5. "updateEscrow" \in InstructionNames
  BY DEF InstructionNames
<1>6. ParseArcadiumEscrowInstruction(ix) = Reading("updateEscrow", r)
  BY <1>1, <1>4, <1>5, InstructionReadsBack
<1> HIDE DEF accounts, data
<1>7. Reads(ParseArcadiumEscrowInstruction(ix), "updateEscrow", accounts, data, r)
  BY <1>1, <1>2, <1>3, <1>6, ReadingReads
<1> QED BY <1>7 DEF UpdateEscrowReads, accounts, data

MarkDisputedReads(p, r) ==
  Reads(p, "markDisputed",
        {"client", "config", "escrowVaultState"},
        {"jobId"}, r)

LEMMA MarkDisputedIsRead ==
  ASSUME NEW r,
         NEW ix, ix = Instruction("markDisputed", MarkDisputedAccounts, MarkDisputedEncoder, r)
  PROVE  MarkDisputedReads(ParseArcadiumEscrowInstruction(ix), r)
<1> DEFINE accounts == {"client", "config", "escrowVaultState"}
           data == {"jobId"}
<1>1. AccountsOf("markDisputed") = MarkDisputedAccounts /\ EncoderOf("markDisputed") = MarkDisputedEncoder
  BY DEF AccountsOf, EncoderOf
<1>2. ASSUME NEW n \in accounts PROVE n \in Names(MarkDisputedAccounts)
  <2> DEFINE s == MarkDisputedAccounts
  <2>1. DOMAIN s = 1..3
    BY DEF MarkDisputedAccounts
  <2>2. s[1].name = "client" /\ s[2].name = "config" /\ s[3].name = "escrowVaultState"
    BY DEF MarkDisputedAccounts, SignerW, Writable, Readonly
  <2> HIDE DEF s
  <2> QED BY <2>1, <2>2 DEF Names, s
<1>3. ASSUME NEW n \in data PROVE n \in Names(MarkDisputedEncoder)
  <2> DEFINE s == MarkDisputedEncoder
  <2>1. DOMAIN s = 1..1
    BY DEF MarkDisputedEncoder
  <2>2. s[1].name = "jobId"
    BY DEF MarkDisputedEncoder, Fixed, Enum, OptionOf
  <2> HIDE DEF s
  <2> QED BY <2>1, <2>2 DEF Names, s
<1>4. FitsAll(MarkDisputedEncoder, r)
  <2>1. \A size, m : /\ Fits(Fixed(m, size), r[m]) /\ Fixed(m, size).name = m
                     /\ Fits(OptionOf(m, size), r[m]) /\ OptionOf(m, size).name = m
    BY DEF Fits, Fixed, OptionOf
  <2> QED BY <2>1 DEF FitsAll, MarkDisputedEncoder
<1>5. "markDisputed" \in InstructionNames
  BY DEF InstructionNames
<1>6. ParseArcadiumEscrowInstruction(ix) = Reading("markDisputed", r)
  BY <1>1, <1>4, <1>5, InstructionReadsBack
<1> HIDE DEF accounts, data
<1>7. Reads(ParseArcadiumEscrowInstruction(ix), "markDisputed", accounts, data, r)
  BY <1>1, <1>2, <1>3, <1>6, ReadingReads
<1> QED BY <1>7 DEF MarkDisputedReads, accounts, data

ResolveDisputeReads(p, r) ==
  Reads(p, "resolveDispute",
        {"authority", "config", "escrowVaultState", "escrowVault", "tokenMint",
         "clientTokenAccount", "client", "tokenProgram"},
        {"jobId"}, r)

LEMMA ResolveDisputeIsRead ==
  ASSUME NEW r,
         NEW ix, ix = Instruction("resolveDispute", ResolveDisputeAccounts, ResolveDisputeEncoder, r)
  PROVE  ResolveDisputeReads(ParseArcadiumEscrowInstruction(ix), r)
<1> DEFINE accounts == {"authority", "config", "escrowVaultState", "escrowVault",
                        "tokenMint", "clientTokenAccount", "client", "tokenProgram"}
           data == {"jobId"}
<1>1. AccountsOf("resolveDispute") = ResolveDisputeAccounts /\ EncoderOf("resolveDispute") = ResolveDisputeEncoder
  BY DEF AccountsOf, EncoderOf
<1>2. ASSUME NEW n \in accounts PROVE n \in Names(ResolveDisputeAccounts)
  <2> DEFINE s == ResolveDisputeAccounts
  <2>1. DOMAIN s = 1..8
    BY DEF ResolveDisputeAccounts
  <2>2. s[1].name = "authority" /\ s[2].name = "config" /\ s[3].name = "escrowVaultState"
    BY DEF ResolveDisputeAccounts, SignerW, Writable, Readonly
  <2>3. s[4].name = "escrowVault" /\ s[5].name = "tokenMint" /\ s[6].name = "clientTokenAccount"
    BY DEF ResolveDisputeAccounts, SignerW, Writable, Readonly
  <2>4. s[7].name = "client" /\ s[8].name = "tokenProgram"
    BY DEF ResolveDisputeAccounts, SignerW, Writable, Readonly
  <2> HIDE DEF s
  <2> QED BY <2>1, <2>2, <2>3, <2>4 DEF Names, s
<1>3. ASSUME NEW n \in data PROVE n \in Names(ResolveDisputeEncoder)
  <2> DEFINE s == ResolveDisputeEncoder
  <2>1. DOMAIN s = 1..1
    BY DEF ResolveDisputeEncoder
  <2>2. s[1].name = "jobId"
    BY DEF ResolveDisputeEncoder, Fixed, Enum, OptionOf
  <2> HIDE DEF s
  <2> QED BY <2>1, <2>2 DEF Names, s
<1>4. FitsAll(ResolveDisputeEncoder, r)
  <2>1. \A size, m : /\ Fits(Fixed(m, size), r[m]) /\ Fixed(m, size).name = m
                     /\ Fits(OptionOf(m, size), r[m]) /\ OptionOf(m, size).name = m
    BY DEF Fits, Fixed, OptionOf
  <2> QED BY <2>1 DEF FitsAll, ResolveDisputeEncoder
<1>5. "resolveDispute" \in InstructionNames
  BY DEF InstructionNames
<1>6. ParseArcadiumEscrowInstruction(ix) = Reading("resolveDispute", r)
  BY <1>1, <1>4, <1>5, InstructionReadsBack
<1> HIDE DEF accounts, data
<1>7. Reads(ParseArcadiumEscrowInstruction(ix), "resolveDispute", accounts, data, r)
  BY <1>1, <1>2, <1>3, <1>6, ReadingReads
<1> QED BY <1>7 DEF ResolveDisputeReads, accounts, data

InitializeReads(p, r) ==
  Reads(p, "initialize",
        {"authority", "config", "systemProgram"},
        {"platformFeeBps", "emergencyAdmin", "treasury", "tokenMint"}, r)

LEMMA InitializeIsRead ==
  ASSUME NEW r,
         NEW ix, ix = Instruction("initialize", InitializeAccounts, InitializeEncoder, r)
  PROVE  InitializeReads(ParseArcadiumEscrowInstruction(ix), r)
<1> DEFINE accounts == {"authority", "config", "systemProgram"}
           data == {"platformFeeBps", "emergencyAdmin", "treasury", "tokenMint"}
<1>1. AccountsOf("initialize") = InitializeAccounts /\ EncoderOf("initialize") = InitializeEncoder
  BY DEF AccountsOf, EncoderOf
<1>2. ASSUME NEW n \in accounts PROVE n \in Names(InitializeAccounts)
  <2> DEFINE s == InitializeAccounts
  <2>1. DOMAIN s = 1..3
    BY DEF InitializeAccounts
  <2>2. s[1].name = "authority" /\ s[2].name = "config" /\ s[3].name = "systemProgram"
    BY DEF InitializeAccounts, SignerW, Writable, Readonly
  <2> HIDE DEF s
  <2> QED BY <2>1, <2>2 DEF Names, s
<1>3. ASSUME NEW n \in data PROVE n \in Names(InitializeEncoder)
  <2> DEFINE s == InitializeEncoder
  <2>1. DOMAIN s = 1..4
    BY DEF InitializeEncoder
  <2>2. s[1].name = "platformFeeBps" /\ s[2].name = "emergencyAdmin" /\ s[3].name = "treasury" /\ s[4].name = "tokenMint"
    BY DEF InitializeEncoder, Fixed, Enum, OptionOf
  <2> HIDE DEF s
  <2> QED BY <2>1, <2>2 DEF Names, s
<1>4. FitsAll(InitializeEncoder, r)
  <2>1. \A size, m : /\ Fits(Fixed(m, size), r[m]) /\ Fixed(m, size).name = m
                     /\ Fits(OptionOf(m, size), r[m]) /\ OptionOf(m, size).name = m
    BY DEF Fits, Fixed, OptionOf
  <2> QED BY <2>1 DEF FitsAll, InitializeEncoder
<1>5. "initialize" \in InstructionNames
  BY DEF InstructionNames
<1>6. ParseArcadiumEscrowInstruction(ix) = Reading("initialize", r)
  BY <1>1, <1>4, <1>5, InstructionReadsBack
<1> HIDE DEF accounts, data
<1>7. Reads(ParseArcadiumEscrowInstruction(ix), "initialize", accounts, data, r)
  BY <1>1, <1>2, <1>3, <1>6, ReadingReads
<1> QED BY <1>7 DEF InitializeReads, accounts, data

SetPausedReads(p, r) ==
  Reads(p, "setPaused",
        {"emergencyAdmin", "config"},
        {"paused"}, r)

LEMMA SetPausedIsRead ==
  ASSUME NEW r,
         NEW ix, ix = Instruction("setPaused", SetPausedAccounts, SetPausedEncoder, r)
  PROVE  SetPausedReads(ParseArcadiumEscrowInstruction(ix), r)
<1> DEFINE accounts == {"emergencyAdmin", "config"}
           data == {"paused"}
<1>1. AccountsOf("setPaused") = SetPausedAccounts /\ EncoderOf("setPaused") = SetPausedEncoder
  BY DEF AccountsOf, EncoderOf
<1>2. ASSUME NEW n \in accounts PROVE n \in Names(SetPausedAccounts)
  <2> DEFINE s == SetPausedAccounts
  <2>1. DOMAIN s = 1..2
    BY DEF SetPausedAccounts
  <2>2. s[1].name = "emergencyAdmin" /\ s[2].name = "config"
    BY DEF SetPausedAccounts, SignerW, Writable, Readonly
  <2> HIDE DEF s
  <2> QED BY <2>1, <2>2 DEF Names, s
<1>3. ASSUME NEW n \in data PROVE n \in Names(SetPausedEncoder)
  <2> DEFINE s == SetPausedEncoder
  <2>1. DOMAIN s = 1..1
    BY DEF SetPausedEncoder
  <2>2. s[1].name = "paused"
    BY DEF SetPausedEncoder, Fixed, Enum, OptionOf
  <2> HIDE DEF s
  <2> QED BY <2>1, <2>2 DEF Names, s
<1>4. FitsAll(SetPausedEncoder, r)
  <2>1. \A size, m : /\ Fits(Fixed(m, size), r[m]) /\ Fixed(m, size).name = m
                     /\ Fits(OptionOf(m, size), r[m]) /\ OptionOf(m, size).name = m
    BY DEF Fits, Fixed, OptionOf
  <2> QED BY <2>1 DEF FitsAll, SetPausedEncoder
<1>5. "setPaused" \in InstructionNames
  BY DEF InstructionNames
<1>6. ParseArcadiumEscrowInstruction(ix) = Reading("setPaused", r)
  BY <1>1, <1>4, <1>5, InstructionReadsBack
<1> HIDE DEF accounts, data
<1>7. Reads(ParseArcadiumEscrowInstruction(ix), "setPaused", accounts, data, r)
  BY <1>1, <1>2, <1>3, <1>6, ReadingReads
<1> QED BY <1>7 DEF SetPausedReads, accounts, data

-----------------------------------------------------------------------------
(* What is read out of the raw bytes: the job id behind the discriminator *)

LEMMA ValueOfBytes ==
  ASSUME NEW a, NEW b, NEW n \in Nat \ {0}, Bytes(a, n) = Bytes(b, n)
  PROVE  a = b
<1>1. Bytes(a, n)[1] = <<a, 1>> /\ Bytes(b, n)[1] = <<b, 1>>
  BY DEF Bytes
<1> QED BY <1>1

LEMMA BytesCut ==
  ASSUME NEW U, NEW data \in Seq(U), NEW at \in Nat, NEW n \in Nat, NEW v,
         Placed(Bytes(v, n), data, at)
  PROVE  SubSeq(data, at + 1, at + n) = Bytes(v, n)
<1> DEFINE part == SubSeq(data, at + 1, at + n)
<1>1. at + n <= Len(data) /\ \A k \in 1..n : data[at + k] = <<v, k>>
  BY BytesAre DEF Placed
<1>2. \A i \in (at + 1)..(at + n) : data[i] \in U
  <2>1. Len(data) \in Nat /\ \A i \in 1..Len(data) : data[i] \in U
    BY LenProperties
  <2> QED BY <1>1, <2>1
<1>3. /\ part \in Seq(U) /\ Len(part) = n
      /\ \A i \in 1..n : part[i] = data[at + 1 + i - 1]
  <2> DEFINE m == at + 1
             l == at + n
  <2>1. m \in Int /\ l \in Int /\ l - m + 1 = n /\ (m <= l => l - m + 1 = n)
        /\ (~ (m <= l) => n = 0)
    OBVIOUS
  <2>2. \A i \in m..l : data[i] \in U
    BY <1>2
  <2> HIDE DEF m, l
  <2>3. /\ SubSeq(data, m, l) \in Seq(U)
        /\ Len(SubSeq(data, m, l)) = IF m <= l THEN l - m + 1 ELSE 0
        /\ \A i \in 1..(l - m + 1) : SubSeq(data, m, l)[i] = data[m + i - 1]
    BY <2>1, <2>2, SubSeqProperties
  <2> QED BY <2>1, <2>3 DEF m, l
<1>4. \A i \in 1..n : part[i] = <<v, i>>
  <2>1. \A i \in 1..n : at + 1 + i - 1 = at + i
    OBVIOUS
  <2> QED BY <1>1, <1>3, <2>1
<1>5. part = [i \in 1..n |-> part[i]]
  <2> HIDE DEF part
  <2> QED BY <1>3, LenProperties
<1> HIDE DEF part
<1> QED BY <1>4, <1>5 DEF Bytes, part

\* An instruction whose first argument is a job id has it right behind the discriminator.
\* The data of an instruction that names a job: its discriminator, then the job.
Starts(data, d, j) ==
  /\ SubSeq(data, 9, 24) = Bytes(j, 16)
  /\ SubSeq(data, 1, 8) = d /\ Len(data) >= 8

LEMMA JobIdBehind ==
  ASSUME NEW layout, IsLayout(layout), layout[1] = Fixed("jobId", 16),
         NEW r, FitsAll(layout, r), NEW d, IsDiscriminator(d),
         NEW data, data = Encode(d, layout, r)
  PROVE  Starts(data, d, r["jobId"])
<1> DEFINE tail == <<>>
           padded == data \o tail
<1>1. tail \in Seq(Nat \X Nat)
  OBVIOUS
<1>2. PICK g, U : IsEncoded(d, layout, r, padded, g, U)
  <2> HIDE DEF tail
  <2> QED BY <1>1, EncodedFields
<1>3. data \in Seq(U)
  BY <1>2 DEF IsEncoded
<1>4. padded = data
  <2> SUFFICES ASSUME NEW s, s = data PROVE s \o <<>> = s
    OBVIOUS
  <2>1. s \in Seq(U)
    BY <1>3
  <2> QED BY <2>1
<1>5. /\ g[1] = 8 /\ Placed(Encoded(layout, r, 1), padded, g[1]) /\ Len(data) >= 8
  <2>1. 1 \in 1..Len(layout)
    BY DEF IsLayout
  <2> HIDE DEF padded
  <2>2. 8 <= Len(Encode(d, layout, r)) /\ Len(data) \in Nat
    BY <1>2, <1>3, LenProperties DEF IsEncoded
  <2> QED BY <1>2, <2>1, <2>2 DEF IsEncoded
<1>6. Encoded(layout, r, 1) = Bytes(r["jobId"], 16)
  <2>1. Fixed("jobId", 16).name = "jobId"
    BY DEF Fixed
  <2>2. EncodeField(Fixed("jobId", 16), r["jobId"]) = Bytes(r["jobId"], 16)
    BY DEF EncodeField, Fixed
  <2> QED BY <2>1, <2>2 DEF Encoded
<1>7. Placed(Bytes(r["jobId"], 16), data, 8)
  <2> HIDE DEF padded
  <2> QED BY <1>4, <1>5, <1>6
<1>8. SubSeq(data, 9, 24) = Bytes(r["jobId"], 16)
  <2> DEFINE at == 8
             n == 16
             v == r["jobId"]
             bytes == data
  <2>1. at \in Nat /\ n \in Nat /\ at + 1 = 9 /\ at + n = 24 /\ bytes \in Seq(U)
    BY <1>3
  <2>2. Placed(Bytes(v, n), bytes, at)
    BY <1>7
  <2> HIDE DEF at, n, v, bytes
  <2>3. SubSeq(bytes, at + 1, at + n) = Bytes(v, n)
    BY <2>1, <2>2, BytesCut
  <2>4. SubSeq(bytes, 9, 24) = Bytes(v, n)
    BY <2>1, <2>3
  <2> QED BY <2>4 DEF n, v, bytes
<1>9. IsRead(d, layout, r, data)
  BY ReadBack
<1> HIDE DEF padded
<1> QED BY <1>5, <1>8, <1>9 DEF IsRead, Starts
=============================================================================
