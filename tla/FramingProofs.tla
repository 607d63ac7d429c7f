---------------------------- MODULE FramingProofs ----------------------------
(***************************************************************************)
(* Messages arrive whole and in order wherever the socket is cut, and a    *)
(* session follows its protocol, for any contents, limits and number of    *)
(* messages.                                                               *)
(***************************************************************************)
EXTENDS Messages, SequenceTheorems, TLAPS

USE ZenonT(20), SMTT(20)

-----------------------------------------------------------------------------
(* CONTENT_SIZE.                                                           *)

\* A number is its last byte and what the shift keeps.
LEMMA LastByte ==
  ASSUME NEW n \in Nat
  PROVE  /\ n % Base \in 0 .. Base - 1 /\ Shift(n) \in Nat
         /\ n = (n % Base) + Base * Shift(n)
BY FramingAssumption, SMT DEF Shift

\* A shift divides a bound by Base.
LEMMA ShiftBound ==
  ASSUME NEW n \in Nat, NEW m \in Nat, n < Base * m
  PROVE  Shift(n) < m
<1>1. /\ n % Base \in 0 .. Base - 1 /\ Shift(n) \in Nat
      /\ n = (n % Base) + Base * Shift(n) /\ Base \in Nat \ {0}
  BY LastByte, FramingAssumption
<1>2. Base * Shift(n) < Base * m
  BY <1>1, SMT
<1> QED BY <1>1, <1>2, SMT

\* The four bytes that PutUint32 writes are the number that Uint32 reads, below
\* the limit of four bytes.
LEMMA SizeRoundTrip ==
  ASSUME NEW n \in Nat, n < Base * (Base * (Base * Base)),
         NEW b, \A i \in 1 .. 4 : b[i] = PutUint32(n)[i]
  PROVE  Uint32(b) = n
<1> DEFINE n1 == Shift(n)
           n2 == Shift(n1)
           n3 == Shift(n2)
<1>0. Base \in Nat /\ Base * Base \in Nat /\ Base * (Base * Base) \in Nat
  BY FramingAssumption, SMT
<1>1. n1 \in Nat /\ n = (n % Base) + Base * n1 /\ n1 < Base * (Base * Base)
  BY <1>0, LastByte, ShiftBound
<1>2. n2 \in Nat /\ n1 = (n1 % Base) + Base * n2 /\ n2 < Base * Base
  BY <1>0, <1>1, LastByte, ShiftBound
<1>3. n3 \in Nat /\ n2 = (n2 % Base) + Base * n3 /\ n3 < Base
  BY <1>0, <1>2, LastByte, ShiftBound
<1>4. n3 % Base = n3
  BY <1>0, <1>3, SMT
<1>5. b[1] = n % Base /\ b[2] = n1 % Base /\ b[3] = n2 % Base /\ b[4] = n3 % Base
  BY SMTT(40) DEF PutUint32
<1> HIDE DEF n1, n2, n3
<1>6. b[3] + Base * b[4] = n2
  BY <1>3, <1>4, <1>5
<1>7. b[2] + Base * (b[3] + Base * b[4]) = n1
  BY <1>2, <1>5, <1>6
<1>8. b[1] + Base * (b[2] + Base * (b[3] + Base * b[4])) = n
  BY <1>1, <1>5, <1>7
<1> QED BY <1>8 DEF Uint32

\* Where the size, the content and the newline are in a frame.
LEMMA FrameIs ==
  ASSUME NEW c \in Content
  PROVE  /\ Frame(c) \in Seq(Int) /\ Len(Frame(c)) = Len(c) + 5
         /\ Len(c) \in Nat
         /\ \A i \in 1 .. 4 : Frame(c)[i] = PutUint32(Len(c) + 1)[i]
         /\ \A i \in 1 .. Len(c) : Frame(c)[4 + i] = c[i]
         /\ Frame(c)[Len(c) + 5] = Newline
<1> DEFINE p == PutUint32(Len(c) + 1)
           q == p \o c
           r == <<Newline>>
<1>1. c \in Seq(Int) /\ Len(c) \in Nat
  <2>1. c \in Seq(0 .. Base - 1)
    BY FramingAssumption
  <2> QED BY <2>1, FramingAssumption, SMT
<1>2. p \in Seq(Int) /\ Len(p) = 4
  BY <1>1, FramingAssumption, SMT DEF PutUint32, Shift
<1>3. r \in Seq(Int) /\ Len(r) = 1 /\ r[1] = Newline
  BY FramingAssumption, SMT
<1> HIDE DEF p, r
<1>4. /\ q \in Seq(Int) /\ Len(q) = 4 + Len(c)
      /\ \A i \in 1 .. 4 + Len(c) : q[i] = IF i <= 4 THEN p[i] ELSE c[i - 4]
  <2>1. /\ q \in Seq(Int) /\ Len(q) = Len(p) + Len(c)
        /\ \A i \in 1 .. Len(p) + Len(c) :
             q[i] = IF i <= Len(p) THEN p[i] ELSE c[i - Len(p)]
    BY <1>1, <1>2, ConcatProperties
  <2> HIDE DEF q
  <2> QED BY <1>2, <2>1
<1> HIDE DEF q
<1>5. /\ q \o r \in Seq(Int) /\ Len(q \o r) = Len(c) + 5
      /\ \A i \in 1 .. Len(c) + 5 :
           (q \o r)[i] = IF i <= 4 + Len(c) THEN q[i] ELSE r[i - (4 + Len(c))]
  <2>1. /\ q \o r \in Seq(Int) /\ Len(q \o r) = Len(q) + Len(r)
        /\ \A i \in 1 .. Len(q) + Len(r) :
             (q \o r)[i] = IF i <= Len(q) THEN q[i] ELSE r[i - Len(q)]
    BY <1>3, <1>4, ConcatProperties
  <2>2. Len(q) + Len(r) = Len(c) + 5
    BY <1>1, <1>3, <1>4, SMT
  <2> QED BY <1>4, <2>1, <2>2
<1>6. Frame(c) = q \o r
  BY DEF Frame, p, q, r
<1>7. ASSUME NEW i \in 1 .. 4
      PROVE  (q \o r)[i] = p[i]
  <2>1. i \in 1 .. Len(c) + 5 /\ i <= 4 + Len(c) /\ i <= 4 /\ i \in 1 .. 4 + Len(c)
    BY <1>1, SMT
  <2> QED BY <1>4, <1>5, <2>1, SMTT(40)
<1>8. ASSUME NEW i \in 1 .. Len(c)
      PROVE  (q \o r)[4 + i] = c[i]
  <2>1. /\ 4 + i \in 1 .. Len(c) + 5 /\ 4 + i <= 4 + Len(c) /\ ~(4 + i <= 4)
        /\ 4 + i \in 1 .. 4 + Len(c) /\ (4 + i) - 4 = i
    BY <1>1, SMT
  <2> QED BY <1>4, <1>5, <2>1
<1>9. (q \o r)[Len(c) + 5] = Newline
  <2>1. /\ Len(c) + 5 \in 1 .. Len(c) + 5 /\ ~(Len(c) + 5 <= 4 + Len(c))
        /\ Len(c) + 5 - (4 + Len(c)) = 1
    BY <1>1, SMT
  <2> QED BY <1>3, <1>5, <2>1, SMTT(40)
<1> QED BY <1>1, <1>5, <1>6, <1>7, <1>8, <1>9 DEF p

-----------------------------------------------------------------------------
(* The bytes of the stream.                                                *)

FrameSize(c) == Len(c) + 5

\* The first m bytes of t are those of the first n contents of s, from the k-th
\* on, as far as they go: the frame of s[i] starts after byte b[i], which may be
\* before the first one.
Laid(b, k, s, n, t, m) ==
  /\ \A i \in k .. n : b[i + 1] = b[i] + FrameSize(s[i])
  /\ \A i \in k .. n + 1 : b[i] <= b[n + 1]
  /\ m <= b[n + 1]
  /\ \A i \in k .. n : \A j \in 1 .. FrameSize(s[i]) :
       b[i] + j \in 1 .. m => t[b[i] + j] = Frame(s[i])[j]

Offsets == [Nat -> Int]

\* An index into the second of two parts.
LEMMA SecondPart ==
  ASSUME NEW a \in Nat, NEW m \in Nat, NEW j \in 1 .. m
  PROVE  /\ a + j \in 1 .. a + m /\ ~(a + j <= a) /\ (a + j) - a = j
BY SMT

\* The elements of a concatenation, part by part.
LEMMA ConcatAt ==
  ASSUME NEW t \in Seq(Int), NEW f \in Seq(Int)
  PROVE  /\ t \o f \in Seq(Int) /\ Len(t \o f) = Len(t) + Len(f)
         /\ \A i \in 1 .. Len(t) : (t \o f)[i] = t[i]
         /\ \A j \in 1 .. Len(f) : (t \o f)[Len(t) + j] = f[j]
<1>1. /\ t \o f \in Seq(Int) /\ Len(t \o f) = Len(t) + Len(f)
      /\ \A i \in 1 .. Len(t) + Len(f) :
           (t \o f)[i] = IF i <= Len(t) THEN t[i] ELSE f[i - Len(t)]
  BY ConcatProperties
<1>2. Len(t) \in Nat /\ Len(f) \in Nat
  BY LenProperties
<1>3. ASSUME NEW i \in 1 .. Len(t)
      PROVE  (t \o f)[i] = t[i]
  <2>1. i \in 1 .. Len(t) + Len(f) /\ i <= Len(t)
    BY <1>2, SMT
  <2> QED BY <1>1, <2>1, Zenon
<1>4. ASSUME NEW j \in 1 .. Len(f)
      PROVE  (t \o f)[Len(t) + j] = f[j]
  <2>1. /\ Len(t) + j \in 1 .. Len(t) + Len(f) /\ ~(Len(t) + j <= Len(t))
        /\ (Len(t) + j) - Len(t) = j
    BY <1>2, SecondPart
  <2> QED BY <1>1, <2>1, Zenon
<1> QED BY <1>1, <1>3, <1>4

\* s2 and t2 are s and t with the content c and its frame behind.
Grown(s, n, t, m, s2, t2, c) ==
  /\ \A i \in 1 .. n : FrameSize(s[i]) \in Nat /\ s2[i] = s[i]
  /\ FrameSize(c) \in Nat /\ s2[n + 1] = c
  /\ \A i \in 1 .. m : t2[i] = t[i]
  /\ \A j \in 1 .. FrameSize(c) : t2[m + j] = Frame(c)[j]

\* sendMessage writes its frame behind the others.
LEMMA LaidAppend ==
  ASSUME NEW n \in Nat, NEW m \in Nat, NEW k \in 1 .. n + 1, NEW b \in Offsets,
         NEW s, NEW t, NEW s2, NEW t2, NEW c, Grown(s, n, t, m, s2, t2, c),
         Laid(b, k, s, n, t, m), m = b[n + 1]
  PROVE  \E b2 \in Offsets :
           /\ Laid(b2, k, s2, n + 1, t2, m + FrameSize(c))
           /\ b2[k] = b[k] /\ m + FrameSize(c) = b2[n + 2]
<1>0. /\ \A i \in 1 .. n : FrameSize(s[i]) \in Nat /\ s2[i] = s[i]
      /\ FrameSize(c) \in Nat /\ s2[n + 1] = c
      /\ \A i \in 1 .. m : t2[i] = t[i]
      /\ \A j \in 1 .. FrameSize(c) : t2[m + j] = Frame(c)[j]
  BY DEF Grown
<1> DEFINE b2 == [b EXCEPT ![n + 2] = m + FrameSize(c)]
           m2 == m + FrameSize(c)
<1>1. /\ b2 \in Offsets /\ b2[n + 2] = m2
      /\ \A i \in 1 .. n + 1 : b2[i] = b[i] /\ b[i] \in Int
  BY <1>0, SMTT(40) DEF Offsets
<1>2. m2 \in Nat /\ m <= m2 /\ n + 1 \in 1 .. n + 1 /\ n + 1 + 1 = n + 2
  BY <1>0, SMT
<1> HIDE DEF b2
<1>3. ASSUME NEW i \in k .. n + 1
      PROVE  b2[i + 1] = b2[i] + FrameSize(s2[i])
  <2>1. CASE i = n + 1
    BY <1>0, <1>1, <1>2, <2>1
  <2>2. CASE i # n + 1
    <3>1. i \in k .. n /\ i \in 1 .. n /\ i \in 1 .. n + 1 /\ i + 1 \in 1 .. n + 1
      BY <2>2, SMT
    <3> QED BY <1>0, <1>1, <3>1 DEF Laid
  <2> QED BY <2>1, <2>2
<1>4. ASSUME NEW i \in k .. n + 2
      PROVE  b2[i] <= b2[n + 2]
  <2>1. CASE i = n + 2
    BY <1>1, <1>2, <2>1, SMTT(40)
  <2>2. CASE i # n + 2
    <3>1. i \in k .. n + 1 /\ i \in 1 .. n + 1
      BY <2>2, SMT
    <3>2. b[i] <= m /\ b2[i] = b[i] /\ b[i] \in Int
      BY <1>1, <3>1 DEF Laid
    <3> QED BY <1>1, <1>2, <3>2, SMTT(40)
  <2> QED BY <2>1, <2>2
<1>5. ASSUME NEW i \in k .. n + 1, NEW j \in 1 .. FrameSize(s2[i]),
             b2[i] + j \in 1 .. m2
      PROVE  t2[b2[i] + j] = Frame(s2[i])[j]
  <2>1. CASE i = n + 1
    <3>1. s2[i] = c /\ b2[i] = m
      BY <1>0, <1>1, <1>2, <2>1
    <3> QED BY <1>0, <3>1
  <2>2. CASE i # n + 1
    <3>1. i \in k .. n /\ i \in 1 .. n /\ i \in 1 .. n + 1 /\ i + 1 \in k .. n + 1
      BY <2>2, SMT
    <3>2. s2[i] = s[i] /\ b2[i] = b[i] /\ b[i] \in Int /\ FrameSize(s[i]) \in Nat
      BY <1>0, <1>1, <3>1
    <3>3. b[i + 1] = b[i] + FrameSize(s[i]) /\ b[i + 1] <= m
      BY <3>1 DEF Laid
    <3>4. b[i] + j >= 1 /\ j \in 1 .. FrameSize(s[i])
      BY <1>2, <1>5, <3>2
    <3>5. b[i] + j \in 1 .. m
      BY <3>2, <3>3, <3>4, SMT
    <3>6. t[b[i] + j] = Frame(s[i])[j]
      BY <3>1, <3>4, <3>5 DEF Laid
    <3> QED BY <1>0, <3>2, <3>5, <3>6
  <2> QED BY <2>1, <2>2
<1>6. Laid(b2, k, s2, n + 1, t2, m2)
  BY <1>1, <1>2, <1>3, <1>4, <1>5, SMTT(40) DEF Laid
<1>7. b2[k] = b[k]
  BY <1>1
<1> QED BY <1>1, <1>6, <1>7

\* A cut loses bytes at the end.
LEMMA LaidCut ==
  ASSUME NEW n \in Nat, NEW m \in Nat, NEW k \in 1 .. n + 1, NEW b \in Offsets,
         NEW s, NEW t, NEW t2, NEW m2 \in 0 .. m,
         Laid(b, k, s, n, t, m), \A i \in 1 .. m2 : t2[i] = t[i]
  PROVE  Laid(b, k, s, n, t2, m2)
<1>1. b[n + 1] \in Int /\ m2 <= m /\ m <= b[n + 1] /\ m2 \in Int
  BY SMTT(40) DEF Laid, Offsets
<1>2. m2 <= b[n + 1]
  BY <1>1, SMT
<1>3. \A x \in 1 .. m2 : x \in 1 .. m
  BY SMT
<1> QED BY <1>2, <1>3 DEF Laid

Sized(s, n) == \A i \in 1 .. n : FrameSize(s[i]) \in Nat

\* t2 is what is left of t without its first d bytes.
Left(t, m, t2, d) == \A i \in 1 .. m - d : t2[i] = t[i + d]

\* io.ReadFull takes bytes at the front.
LEMMA LaidTake ==
  ASSUME NEW n \in Nat, NEW m \in Nat, NEW k \in 1 .. n + 1, NEW b \in Offsets,
         NEW s, NEW t, NEW t2, NEW d \in 0 .. m, Sized(s, n), Left(t, m, t2, d),
         Laid(b, k, s, n, t, m)
  PROVE  \E b2 \in Offsets :
           /\ Laid(b2, k, s, n, t2, m - d)
           /\ \A i \in 1 .. n + 1 : b2[i] = b[i] - d
<1> DEFINE b2 == [i \in Nat |-> b[i] - d]
<1>1. b2 \in Offsets /\ \A i \in 1 .. n + 1 : b2[i] = b[i] - d /\ b[i] \in Int
  BY SMTT(40) DEF Offsets
<1> HIDE DEF b2
<1>2. \A i \in k .. n : i \in 1 .. n /\ i \in 1 .. n + 1 /\ i + 1 \in 1 .. n + 1
  BY SMT
<1>3. ASSUME NEW i \in k .. n
      PROVE  b2[i + 1] = b2[i] + FrameSize(s[i])
  <2>1. b[i + 1] = b[i] + FrameSize(s[i])
    BY DEF Laid
  <2> QED BY <1>1, <1>2, <2>1 DEF Sized
<1>4. \A i \in k .. n + 1 : b2[i] <= b2[n + 1]
  BY <1>1, SMTT(40) DEF Laid
<1>5. m - d <= b2[n + 1]
  BY <1>1, SMTT(40) DEF Laid
<1>6. ASSUME NEW i \in k .. n, NEW j \in 1 .. FrameSize(s[i]),
             b2[i] + j \in 1 .. m - d
      PROVE  t2[b2[i] + j] = Frame(s[i])[j]
  <2>1. b2[i] = b[i] - d /\ b[i] \in Int /\ FrameSize(s[i]) \in Nat
    BY <1>1, <1>2 DEF Sized
  <2>2. b[i] + j \in 1 .. m /\ (b2[i] + j) + d = b[i] + j
    BY <1>6, <2>1
  <2>3. t[b[i] + j] = Frame(s[i])[j]
    BY <2>2 DEF Laid
  <2> QED BY <1>6, <2>2, <2>3 DEF Left
<1>7. Laid(b2, k, s, n, t2, m - d)
  BY <1>3, <1>4, <1>5, <1>6 DEF Laid
<1> QED BY <1>1, <1>7

\* The reader is done with a message.
LEMMA LaidNext ==
  ASSUME NEW n \in Nat, NEW k \in 1 .. n, NEW b, NEW s, NEW t, NEW m,
         Laid(b, k, s, n, t, m)
  PROVE  Laid(b, k + 1, s, n, t, m)
<1>1. /\ \A i \in k + 1 .. n : i \in k .. n
      /\ \A i \in k + 1 .. n + 1 : i \in k .. n + 1
  BY SMT
<1> QED BY <1>1 DEF Laid

\* The four bytes at the front of the stream are the size of the next content.
LEMMA SizeIsNext ==
  ASSUME NEW n \in Nat, NEW m \in Nat, NEW k \in 1 .. n, NEW b, NEW s, NEW t,
         Laid(b, k, s, n, t, m), b[k] = 0, m >= 4,
         s[k] \in Content
  PROVE  Uint32(t) = Len(s[k]) + 1
<1> DEFINE c == s[k]
           z == Len(c) + 1
<1>1. /\ Len(c) \in Nat
      /\ \A i \in 1 .. 4 : Frame(c)[i] = PutUint32(z)[i]
  BY FrameIs
<1>2. z \in Nat /\ z < Base * (Base * (Base * Base))
  BY <1>1, FramingAssumption
<1>3. ASSUME NEW i \in 1 .. 4
      PROVE  t[i] = PutUint32(z)[i]
  <2>1. i \in 1 .. FrameSize(c) /\ 0 + i = i /\ i \in 1 .. m /\ k \in k .. n
    BY <1>1, SMT DEF FrameSize
  <2>2. t[i] = Frame(c)[i]
    BY <2>1 DEF Laid
  <2> QED BY <1>1, <2>2
<1> HIDE DEF z
<1>4. Uint32(t) = z
  BY <1>2, <1>3, SizeRoundTrip
<1> QED BY <1>4 DEF z

\* A part of the stream at its front.
LEMMA FrontOf ==
  ASSUME NEW t \in Seq(Int), NEW d \in 0 .. Len(t)
  PROVE  /\ SubSeq(t, 1, d) \in Seq(Int) /\ Len(SubSeq(t, 1, d)) = d
         /\ \A i \in 1 .. d : SubSeq(t, 1, d)[i] = t[i]
<1>1. Len(t) \in Nat
  BY LenProperties
<1> QED BY <1>1, SMTT(40)

\* The bytes behind its size are the content and a newline.
LEMMA ContentIsNext ==
  ASSUME NEW n \in Nat, NEW k \in 1 .. n, NEW b, NEW s, NEW t \in Seq(Int),
         Laid(b, k, s, n, t, Len(t)), b[k] = -4, s[k] \in Content,
         Len(t) >= Len(s[k]) + 1
  PROVE  Unmarshalled(SubSeq(t, 1, Len(s[k]) + 1)) = s[k]
<1> DEFINE c == s[k]
           z == Len(c) + 1
           u == SubSeq(t, 1, z)
<1>1. /\ Len(c) \in Nat /\ Len(t) \in Nat
      /\ \A i \in 1 .. Len(c) : Frame(c)[4 + i] = c[i]
      /\ Frame(c)[Len(c) + 5] = Newline
  BY FrameIs, LenProperties
<1>2. c \in Seq(Int)
  <2>1. c \in Seq(0 .. Base - 1)
    BY FramingAssumption
  <2> QED BY <2>1, FramingAssumption, SMT
<1>3. u \in Seq(Int) /\ Len(u) = z /\ \A i \in 1 .. z : u[i] = t[i]
  <2>1. z \in 0 .. Len(t)
    BY <1>1, SMT
  <2> QED BY <2>1, FrontOf, Zenon
<1>4. ASSUME NEW i \in 1 .. z
      PROVE  t[i] = Frame(c)[4 + i]
  <2>1. /\ 4 + i \in 1 .. FrameSize(c) /\ (-4) + (4 + i) = i /\ i \in 1 .. Len(t)
        /\ k \in k .. n
    BY <1>1, SMT DEF FrameSize
  <2> QED BY <2>1 DEF Laid
<1>5. u[z] = Newline
  <2>1. 4 + z = Len(c) + 5 /\ z \in 1 .. z
    BY <1>1, SMT
  <2> QED BY <1>1, <1>3, <1>4, <2>1
<1>6. \A i \in 1 .. Len(c) : u[i] = c[i]
  <2>1. \A i \in 1 .. Len(c) : i \in 1 .. z
    BY <1>1, SMT
  <2> QED BY <1>1, <1>3, <1>4, <2>1
<1> HIDE DEF u, c
<1>7. u # <<>> /\ Len(u) - 1 = Len(c)
  <2>1. Len(u) # 0 /\ Len(u) - 1 = Len(c)
    BY <1>1, <1>3, SMT
  <2> QED BY <2>1, EmptySeq
<1>8. SubSeq(u, 1, Len(c)) = c
  <2> DEFINE v == SubSeq(u, 1, Len(c))
  <2>1. v \in Seq(Int) /\ Len(v) = Len(c) /\ \A i \in 1 .. Len(c) : v[i] = u[i]
    <3>1. Len(c) \in 0 .. Len(u)
      BY <1>1, <1>3, SMT
    <3> QED BY <1>3, <3>1, FrontOf, Zenon
  <2> HIDE DEF v
  <2>2. v = c
    BY <1>2, <1>6, <2>1, SeqEqual
  <2> QED BY <2>2 DEF v
<1> QED BY <1>3, <1>5, <1>7, <1>8 DEF Unmarshalled, u, c

-----------------------------------------------------------------------------
(* The inductive invariant of the reader.                                  *)

FramingTypeOK ==
  /\ sent \in Seq(Content) /\ incoming \in Seq(Json) /\ stream \in Seq(Int)
  /\ closed \in BOOLEAN
  /\ reader \in [pc : {"size", "content", "stopped"}, size : Nat]
  /\ err \in {"nil", "too big", "not JSON", "read error"}

\* A reader that has not stopped stands at a frame of the next content, or
\* behind its size, and nothing is missing before a cut.
Position == IF reader.pc = "content" THEN -4 ELSE 0
InStep ==
  \E b \in Offsets :
    /\ Laid(b, Len(incoming) + 1, sent, Len(sent), stream, Len(stream))
    /\ b[Len(incoming) + 1] = Position
    /\ ~closed => Len(stream) = b[Len(sent) + 1]

\* The size that was read is that of the next content, and is allowed.
SizeIsRead ==
  reader.pc = "content" =>
    /\ Len(incoming) < Len(sent)
    /\ reader.size = Len(sent[Len(incoming) + 1]) + 1
    /\ reader.size <= Maximum

\* The contents that were read were allowed.
DeliveredFits ==
  \A i \in DOMAIN incoming :
    Len(incoming[i]) + 1 <= IF i = 1 THEN FirstLimit ELSE Limit

\* Why the reader has stopped.
StopReason ==
  /\ err = "nil" <=> reader.pc # "stopped"
  /\ err = "too big" => /\ Len(incoming) < Len(sent)
                        /\ Len(sent[Len(incoming) + 1]) + 1 > Maximum
                        /\ Fits(sent[Len(incoming) + 1]) => incoming = <<>>
  /\ err = "not JSON" => /\ Len(incoming) < Len(sent)
                         /\ sent[Len(incoming) + 1] \notin Json
  /\ err = "read error" => closed

FramingInv ==
  /\ FramingTypeOK /\ DeliveredInOrder /\ SizeIsRead /\ StopReason
  /\ DeliveredFits
  /\ reader.pc # "stopped" => InStep

\* Facts of the lengths that every step needs.
LEMMA Lengths ==
  ASSUME FramingTypeOK
  PROVE  /\ Len(sent) \in Nat /\ Len(incoming) \in Nat /\ Len(stream) \in Nat
         /\ DOMAIN incoming = 1 .. Len(incoming)
         /\ \A i \in 1 .. Len(sent) :
              sent[i] \in Content /\ Len(sent[i]) \in Nat
              /\ FrameSize(sent[i]) \in Nat
<1>1. /\ sent \in Seq(Content) /\ incoming \in Seq(Json) /\ stream \in Seq(Int)
  BY DEF FramingTypeOK
<1>2. /\ Len(sent) \in Nat /\ Len(incoming) \in Nat /\ Len(stream) \in Nat
      /\ DOMAIN incoming = 1 .. Len(incoming)
  BY <1>1, LenProperties
<1>3. ASSUME NEW i \in 1 .. Len(sent)
      PROVE  sent[i] \in Content /\ Len(sent[i]) \in Nat
             /\ FrameSize(sent[i]) \in Nat
  <2>1. sent[i] \in Content
    BY <1>1, ElementOfSeq
  <2>2. Len(sent[i]) \in Nat
    BY <2>1, FrameIs
  <2> QED BY <2>1, <2>2 DEF FrameSize
<1> QED BY <1>2, <1>3

\* Nothing has been written and the reader waits for a size.
LEMMA InitFraming ==
  ASSUME FramingInit
  PROVE  FramingInv
<1>1. Len(sent) = 0 /\ Len(incoming) = 0 /\ Len(stream) = 0
      /\ DOMAIN incoming = {} /\ reader.pc = "size"
  BY SMT DEF FramingInit
<1>2. FramingTypeOK
  <2>1. /\ sent \in Seq(Content) /\ incoming \in Seq(Json) /\ stream \in Seq(Int)
    BY EmptySeq DEF FramingInit
  <2> QED BY <2>1 DEF FramingInit, FramingTypeOK
<1>3. DeliveredInOrder /\ SizeIsRead /\ StopReason /\ DeliveredFits
  BY <1>1 DEF FramingInit, DeliveredInOrder, SizeIsRead, StopReason, DeliveredFits
<1>4. InStep
  <2> DEFINE b == [i \in Nat |-> 0]
  <2>1. b \in Offsets /\ b[1] = 0
    BY DEF Offsets
  <2> HIDE DEF b
  <2>2. Laid(b, 1, sent, 0, stream, 0)
    <3>1. 1 .. 0 = {} /\ 1 .. 0 + 1 = {1} /\ 0 + 1 = 1
      BY SMT
    <3> QED BY <2>1, <3>1 DEF Laid
  <2>3. Position = 0 /\ Len(incoming) + 1 = 1 /\ Len(sent) + 1 = 1
    BY <1>1 DEF Position
  <2> QED BY <1>1, <2>1, <2>2, <2>3 DEF InStep
<1> QED BY <1>2, <1>3, <1>4 DEF FramingInv

\* What is delivered, read or refused stays so when more is sent or the socket
\* is cut.
LEMMA ReaderWaits ==
  ASSUME FramingTypeOK, DeliveredInOrder, SizeIsRead, StopReason, DeliveredFits,
         UNCHANGED <<reader, incoming, err>>, closed => closed',
         Len(sent') \in Nat, Len(sent) <= Len(sent'),
         \A i \in 1 .. Len(sent) : sent'[i] = sent[i]
  PROVE  DeliveredInOrder' /\ SizeIsRead' /\ StopReason' /\ DeliveredFits'
<1>1. /\ Len(sent) \in Nat /\ Len(incoming) \in Nat
      /\ DOMAIN incoming = 1 .. Len(incoming)
  BY Lengths
<1>2. Len(incoming) <= Len(sent) /\ Len(incoming) <= Len(sent')
  BY <1>1 DEF DeliveredInOrder
<1>3. \A i \in 1 .. Len(incoming) : i \in 1 .. Len(sent)
  BY <1>1, <1>2, SMT
<1>4. DeliveredInOrder'
  BY <1>1, <1>2, <1>3 DEF DeliveredInOrder
<1>5. ASSUME Len(incoming) < Len(sent)
      PROVE  /\ Len(incoming) < Len(sent')
             /\ sent'[Len(incoming) + 1] = sent[Len(incoming) + 1]
  <2>1. Len(incoming) + 1 \in 1 .. Len(sent) /\ Len(incoming) < Len(sent')
    BY <1>1, <1>5, SMT
  <2> QED BY <2>1
<1>6. SizeIsRead'
  BY <1>5 DEF SizeIsRead, Maximum
<1>7. StopReason'
  BY <1>5 DEF StopReason, Maximum, Fits
<1>8. DeliveredFits'
  BY DEF DeliveredFits
<1> QED BY <1>4, <1>6, <1>7, <1>8

\* sendMessage and SendBytes.
LEMMA SendFraming ==
  ASSUME FramingInv, NEW c \in Content, NEW checkSize, Send(c, checkSize)
  PROVE  FramingInv'
<1> DEFINE n == Len(sent)
           m == Len(stream)
           f == Frame(c)
<1>0. FramingTypeOK /\ DeliveredInOrder /\ SizeIsRead /\ StopReason
      /\ DeliveredFits
  BY DEF FramingInv
<1>1. /\ n \in Nat /\ Len(incoming) \in Nat /\ m \in Nat
      /\ \A i \in 1 .. n : FrameSize(sent[i]) \in Nat
  BY <1>0, Lengths
<1>2. /\ sent' = Append(sent, c) /\ stream' = stream \o f /\ ~closed
      /\ UNCHANGED <<closed, reader, incoming, err>>
  BY DEF Send
<1>3. /\ f \in Seq(Int) /\ Len(f) = FrameSize(c) /\ FrameSize(c) \in Nat
  BY FrameIs, SMTT(40) DEF FrameSize
<1>4. /\ sent' \in Seq(Content) /\ Len(sent') = n + 1 /\ sent'[n + 1] = c
      /\ \A i \in 1 .. n : sent'[i] = sent[i]
  <2>1. sent \in Seq(Content)
    BY <1>0 DEF FramingTypeOK
  <2>2. /\ Append(sent, c) \in Seq(Content) /\ Len(Append(sent, c)) = n + 1
        /\ Append(sent, c)[n + 1] = c
        /\ \A i \in 1 .. n : Append(sent, c)[i] = sent[i]
    BY <2>1, AppendProperties, SMTT(40)
  <2> QED BY <1>2, <2>2
<1> HIDE DEF f
<1>5. /\ stream' \in Seq(Int) /\ Len(stream') = m + FrameSize(c)
      /\ \A i \in 1 .. m : stream'[i] = stream[i]
      /\ \A j \in 1 .. FrameSize(c) : stream'[m + j] = Frame(c)[j]
  <2>1. stream \in Seq(Int)
    BY <1>0 DEF FramingTypeOK
  <2>2. /\ stream \o f \in Seq(Int) /\ Len(stream \o f) = m + Len(f)
        /\ \A i \in 1 .. m : (stream \o f)[i] = stream[i]
        /\ \A j \in 1 .. Len(f) : (stream \o f)[m + j] = f[j]
    BY <1>3, <2>1, ConcatAt
  <2> QED BY <1>2, <1>3, <2>2 DEF f
<1>6. FramingTypeOK'
  BY <1>0, <1>2, <1>4, <1>5 DEF FramingTypeOK
<1>7. DeliveredInOrder' /\ SizeIsRead' /\ StopReason' /\ DeliveredFits'
  <2>1. Len(sent') \in Nat /\ n <= Len(sent')
    BY <1>1, <1>4, SMT
  <2> QED BY <1>0, <1>2, <1>4, <2>1, ReaderWaits
<1>8. ASSUME reader.pc # "stopped"
      PROVE  InStep'
  <2> DEFINE k == Len(incoming) + 1
  <2>1. PICK b \in Offsets : /\ Laid(b, k, sent, n, stream, m)
                             /\ b[k] = Position /\ m = b[n + 1]
    BY <1>2, <1>8 DEF FramingInv, InStep
  <2>2. k \in 1 .. n + 1
    <3>1. Len(incoming) <= n
      BY <1>0 DEF DeliveredInOrder
    <3> QED BY <1>1, <3>1, SMT
  <2> HIDE DEF k
  <2>3. PICK b2 \in Offsets :
          /\ Laid(b2, k, sent', n + 1, stream', m + FrameSize(c))
          /\ b2[k] = b[k] /\ m + FrameSize(c) = b2[n + 2]
    <3>1. Grown(sent, n, stream, m, sent', stream', c)
      BY <1>1, <1>3, <1>4, <1>5 DEF Grown
    <3> QED BY <1>1, <2>1, <2>2, <3>1, LaidAppend, SMTT(40)
  <2>4. Position' = Position /\ (n + 1) + 1 = n + 2
    BY <1>1, <1>2 DEF Position
  <2>5. /\ Laid(b2, k, sent', Len(sent'), stream', Len(stream'))
        /\ b2[k] = Position' /\ Len(stream') = b2[Len(sent') + 1]
    BY <1>4, <1>5, <2>1, <2>3, <2>4
  <2> QED BY <1>2, <2>5 DEF InStep, k
<1> QED BY <1>2, <1>6, <1>7, <1>8 DEF FramingInv

\* The socket is closed or breaks.
LEMMA CutFraming ==
  ASSUME FramingInv, Cut
  PROVE  FramingInv'
<1> DEFINE n == Len(sent)
           m == Len(stream)
           k == Len(incoming) + 1
<1>0. FramingTypeOK /\ DeliveredInOrder /\ SizeIsRead /\ StopReason
      /\ DeliveredFits
  BY DEF FramingInv
<1>1. n \in Nat /\ Len(incoming) \in Nat /\ m \in Nat
  BY <1>0, Lengths
<1>2. closed' = TRUE /\ UNCHANGED <<sent, reader, incoming, err>>
  BY DEF Cut
<1>3. PICK m2 \in 0 .. m : stream' = SubSeq(stream, 1, m2)
  BY DEF Cut
<1>4. /\ stream' \in Seq(Int) /\ Len(stream') = m2
      /\ \A i \in 1 .. m2 : stream'[i] = stream[i]
  <2>1. stream \in Seq(Int)
    BY <1>0 DEF FramingTypeOK
  <2> QED BY <1>3, <2>1, FrontOf, Zenon
<1>5. FramingTypeOK'
  BY <1>0, <1>2, <1>4 DEF FramingTypeOK
<1>6. DeliveredInOrder' /\ SizeIsRead' /\ StopReason' /\ DeliveredFits'
  <2>1. n <= Len(sent') /\ Len(sent') \in Nat
    BY <1>1, <1>2
  <2> QED BY <1>0, <1>2, <2>1, ReaderWaits
<1>7. ASSUME reader.pc # "stopped"
      PROVE  InStep'
  <2>1. PICK b \in Offsets : Laid(b, k, sent, n, stream, m) /\ b[k] = Position
    BY <1>7 DEF FramingInv, InStep
  <2>2. k \in 1 .. n + 1
    <3>1. Len(incoming) <= n
      BY <1>0 DEF DeliveredInOrder
    <3> QED BY <1>1, <3>1, SMT
  <2> HIDE DEF k
  <2>3. Laid(b, k, sent, n, stream', m2)
    BY <1>1, <1>4, <2>1, <2>2, LaidCut
  <2>4. Position' = Position
    BY <1>2 DEF Position
  <2> QED BY <1>2, <1>4, <2>1, <2>3, <2>4 DEF InStep, k
<1> QED BY <1>2, <1>5, <1>6, <1>7 DEF FramingInv

\* What io.ReadFull leaves.
LEMMA TakeLeaves ==
  ASSUME NEW t \in Seq(Int), NEW d \in 0 .. Len(t)
  PROVE  /\ SubSeq(t, d + 1, Len(t)) \in Seq(Int)
         /\ Len(SubSeq(t, d + 1, Len(t))) = Len(t) - d
         /\ \A i \in 1 .. Len(t) - d : SubSeq(t, d + 1, Len(t))[i] = t[i + d]
<1>1. Len(t) \in Nat
  BY LenProperties
<1> QED BY <1>1, SMT

\* The reader gets d bytes: the layout of those that are left.
LEMMA TakeInStep ==
  ASSUME FramingTypeOK, DeliveredInOrder, InStep, NEW d \in 0 .. Len(stream),
         Take(d), UNCHANGED <<sent, closed>>
  PROVE  /\ stream' \in Seq(Int)
         /\ \E b \in Offsets :
              /\ Laid(b, Len(incoming) + 1, sent', Len(sent'), stream', Len(stream'))
              /\ b[Len(incoming) + 1] = Position - d
              /\ ~closed' => Len(stream') = b[Len(sent') + 1]
<1> DEFINE n == Len(sent)
           m == Len(stream)
           k == Len(incoming) + 1
<1>1. /\ n \in Nat /\ Len(incoming) \in Nat /\ m \in Nat
      /\ \A i \in 1 .. n : FrameSize(sent[i]) \in Nat
  BY Lengths
<1>2. /\ stream' \in Seq(Int) /\ Len(stream') = m - d
      /\ \A i \in 1 .. m - d : stream'[i] = stream[i + d]
  <2>1. stream \in Seq(Int) /\ stream' = SubSeq(stream, d + 1, m)
    BY DEF FramingTypeOK, Take
  <2> QED BY <2>1, TakeLeaves
<1>3. PICK b \in Offsets : /\ Laid(b, k, sent, n, stream, m)
                           /\ b[k] = Position /\ (~closed => m = b[n + 1])
  BY DEF InStep
<1>4. k \in 1 .. n + 1 /\ n + 1 \in 1 .. n + 1
  <2>1. Len(incoming) <= n
    BY DEF DeliveredInOrder
  <2> QED BY <1>1, <2>1, SMT
<1> HIDE DEF k
<1>5. PICK b2 \in Offsets : /\ Laid(b2, k, sent, n, stream', m - d)
                            /\ \A i \in 1 .. n + 1 : b2[i] = b[i] - d
  <2>1. Sized(sent, n) /\ Left(stream, m, stream', d)
    BY <1>1, <1>2 DEF Sized, Left
  <2> QED BY <1>1, <1>3, <1>4, <2>1, LaidTake, SMTT(40)
<1>6. b2[k] = Position - d /\ (~closed => m - d = b2[n + 1])
  BY <1>3, <1>4, <1>5
<1> QED BY <1>2, <1>5, <1>6 DEF k

\* A reader that finds four bytes where a size should be has a content to read.
LEMMA SomethingToRead ==
  ASSUME FramingTypeOK, DeliveredInOrder, InStep, reader.pc = "size",
         Len(stream) >= 4
  PROVE  /\ Len(incoming) < Len(sent)
         /\ Uint32(stream) = Len(sent[Len(incoming) + 1]) + 1
<1> DEFINE n == Len(sent)
           m == Len(stream)
           k == Len(incoming) + 1
<1>1. /\ n \in Nat /\ Len(incoming) \in Nat /\ m \in Nat
  BY Lengths
<1>2. PICK b \in Offsets : Laid(b, k, sent, n, stream, m) /\ b[k] = 0
  BY DEF InStep, Position
<1>3. Len(incoming) <= n
  BY DEF DeliveredInOrder
<1>4. m <= b[n + 1]
  BY <1>2 DEF Laid
<1>5. Len(incoming) # n
  BY <1>1, <1>2, <1>4
<1>6. Len(incoming) < n /\ k \in 1 .. n
  BY <1>1, <1>3, <1>5, SMT
<1>7. sent[k] \in Content
  BY <1>6, Lengths
<1> HIDE DEF k
<1>8. Uint32(stream) = Len(sent[k]) + 1
  BY <1>1, <1>2, <1>6, <1>7, SizeIsNext, SMTT(40)
<1> QED BY <1>6, <1>8 DEF k

\* The reader gets the four bytes of CONTENT_SIZE.
LEMMA ReadSizeFraming ==
  ASSUME FramingInv, ReadSize
  PROVE  FramingInv'
<1> DEFINE k == Len(incoming) + 1
           z == Uint32(stream)
<1>0. FramingTypeOK /\ DeliveredInOrder /\ StopReason /\ DeliveredFits
  BY DEF FramingInv
<1>1. /\ reader.pc = "size" /\ Len(stream) >= 4 /\ Take(4)
      /\ UNCHANGED <<sent, closed>>
  BY DEF ReadSize, Available
<1>2. InStep
  BY <1>1 DEF FramingInv
<1>3. /\ Len(sent) \in Nat /\ Len(incoming) \in Nat /\ Len(stream) \in Nat
      /\ DOMAIN incoming = 1 .. Len(incoming)
  BY <1>0, Lengths
<1>4. Len(incoming) < Len(sent) /\ z = Len(sent[k]) + 1
  BY <1>0, <1>1, <1>2, SomethingToRead
<1>5. k \in 1 .. Len(sent)
  BY <1>3, <1>4, SMT
<1>6. Len(sent[k]) \in Nat
  BY <1>0, <1>5, Lengths
<1>7. /\ stream' \in Seq(Int)
      /\ \E b \in Offsets :
           /\ Laid(b, k, sent', Len(sent'), stream', Len(stream'))
           /\ b[k] = Position - 4
           /\ ~closed' => Len(stream') = b[Len(sent') + 1]
  <2>1. 4 \in 0 .. Len(stream)
    BY <1>1, <1>3, SMT
  <2> QED BY <1>0, <1>1, <1>2, <2>1, TakeInStep
<1>8. z \in Nat
  BY <1>4, <1>6, SMT
<1> HIDE DEF z
<1>9. CASE z > Maximum
  <2>1. /\ reader' = [reader EXCEPT !.pc = "stopped"] /\ err' = "too big"
        /\ UNCHANGED incoming
    BY <1>9 DEF ReadSize, Stop, z
  <2>2. /\ reader'.pc = "stopped"
        /\ reader' \in [pc : {"size", "content", "stopped"}, size : Nat]
    BY <1>0, <2>1 DEF FramingTypeOK
  <2>3. Fits(sent[k]) => incoming = <<>>
    <3>1. CASE incoming # <<>>
      <4>1. Maximum = Limit /\ Limit \in Nat
        BY <3>1, FramingAssumption DEF Maximum
      <4>2. ~(Len(sent[k]) < Limit)
        BY <1>4, <1>6, <1>9, <4>1, SMT
      <4> QED BY <4>2 DEF Fits
    <3> QED BY <3>1
  <2>4. Len(sent[k]) + 1 > Maximum
    BY <1>4, <1>9
  <2>5. Maximum' = Maximum /\ (Fits(sent[k]) <=> Fits(sent[k])')
    BY <1>1, <2>1 DEF Maximum, Fits
  <2>6. FramingTypeOK'
    BY <1>0, <1>1, <1>7, <2>1, <2>2 DEF FramingTypeOK
  <2>7. DeliveredInOrder' /\ DeliveredFits'
    BY <1>0, <1>1, <2>1 DEF DeliveredInOrder, DeliveredFits
  <2>8. SizeIsRead' /\ StopReason'
    BY <1>1, <1>4, <2>1, <2>2, <2>3, <2>4, <2>5 DEF SizeIsRead, StopReason, Fits
  <2> QED BY <2>2, <2>6, <2>7, <2>8 DEF FramingInv
<1>10. CASE ~(z > Maximum)
  <2>1. reader' = [pc |-> "content", size |-> z] /\ UNCHANGED <<incoming, err>>
    BY <1>10 DEF ReadSize, z
  <2>2. reader'.pc = "content" /\ reader'.size = z
        /\ reader' \in [pc : {"size", "content", "stopped"}, size : Nat]
    BY <1>8, <2>1
  <2>3. FramingTypeOK'
    BY <1>0, <1>1, <1>7, <2>1, <2>2 DEF FramingTypeOK
  <2>4. DeliveredInOrder' /\ DeliveredFits'
    BY <1>0, <1>1, <2>1 DEF DeliveredInOrder, DeliveredFits
  <2>5. SizeIsRead'
    <3>1. z <= Maximum /\ Maximum' = Maximum
      <4>1. Maximum \in Nat
        BY FramingAssumption DEF Maximum
      <4> QED BY <1>8, <1>10, <2>1, <4>1 DEF Maximum
    <3> QED BY <1>1, <1>4, <2>1, <2>2, <3>1 DEF SizeIsRead
  <2>6. StopReason'
    BY <1>0, <1>1, <2>1, <2>2 DEF StopReason
  <2>7. Position - 4 = Position'
    BY <1>1, <2>2, SMTT(40) DEF Position
  <2>8. InStep'
    BY <1>7, <2>1, <2>7 DEF InStep
  <2> QED BY <2>3, <2>4, <2>5, <2>6, <2>8 DEF FramingInv
<1> QED BY <1>9, <1>10

\* The reader gets the content, in one piece.
LEMMA ReadContentFraming ==
  ASSUME FramingInv, ReadContent
  PROVE  FramingInv'
<1> DEFINE n == Len(sent)
           k == Len(incoming) + 1
           z == reader.size
           u == Unmarshalled(SubSeq(stream, 1, z))
<1>0. FramingTypeOK /\ DeliveredInOrder /\ SizeIsRead /\ StopReason
      /\ DeliveredFits
  BY DEF FramingInv
<1>1. /\ reader.pc = "content" /\ Len(stream) >= z /\ Take(z)
      /\ UNCHANGED <<sent, closed>>
  BY DEF ReadContent, Available
<1>2. InStep
  BY <1>1 DEF FramingInv
<1>3. /\ n \in Nat /\ Len(incoming) \in Nat /\ Len(stream) \in Nat
      /\ DOMAIN incoming = 1 .. Len(incoming)
      /\ incoming \in Seq(Json) /\ stream \in Seq(Int)
  BY <1>0, Lengths DEF FramingTypeOK
<1>4. Len(incoming) < n /\ z = Len(sent[k]) + 1 /\ z <= Maximum
  BY <1>0, <1>1 DEF SizeIsRead
<1>5. k \in 1 .. n
  BY <1>3, <1>4, SMT
<1>6. Len(sent[k]) \in Nat /\ sent[k] \in Content
  BY <1>0, <1>5, Lengths
<1>7. PICK b0 \in Offsets :
        Laid(b0, k, sent, n, stream, Len(stream)) /\ b0[k] = -4
  BY <1>1, <1>2 DEF InStep, Position
<1>8. u = sent[k]
  <2>1. Len(stream) >= Len(sent[k]) + 1
    BY <1>1, <1>4
  <2>2. Unmarshalled(SubSeq(stream, 1, Len(sent[k]) + 1)) = sent[k]
    <3> HIDE DEF k
    <3>1. stream \in Seq(Int) /\ n \in Nat
      BY <1>3
    <3> QED BY <1>5, <1>6, <1>7, <2>1, <3>1, ContentIsNext, ZenonT(40)
  <2> QED BY <1>4, <2>2
<1>9. /\ stream' \in Seq(Int)
      /\ \E b \in Offsets :
           /\ Laid(b, k, sent', Len(sent'), stream', Len(stream'))
           /\ b[k] = Position - z
           /\ ~closed' => Len(stream') = b[Len(sent') + 1]
  <2>1. z \in 0 .. Len(stream)
    BY <1>1, <1>3, <1>4, <1>6, SMT
  <2> QED BY <1>0, <1>1, <1>2, <2>1, TakeInStep
<1> HIDE DEF u
<1>10. CASE u \notin Json
  <2>1. /\ reader' = [reader EXCEPT !.pc = "stopped"] /\ err' = "not JSON"
        /\ UNCHANGED incoming
    BY <1>10 DEF ReadContent, Stop, u
  <2>2. /\ reader'.pc = "stopped"
        /\ reader' \in [pc : {"size", "content", "stopped"}, size : Nat]
    BY <1>0, <2>1 DEF FramingTypeOK
  <2>3. FramingTypeOK'
    BY <1>0, <1>1, <1>9, <2>1, <2>2 DEF FramingTypeOK
  <2>4. DeliveredInOrder' /\ DeliveredFits'
    BY <1>0, <1>1, <2>1 DEF DeliveredInOrder, DeliveredFits
  <2>5. SizeIsRead' /\ StopReason'
    BY <1>1, <1>4, <1>8, <1>10, <2>1, <2>2 DEF SizeIsRead, StopReason
  <2> QED BY <2>2, <2>3, <2>4, <2>5 DEF FramingInv
<1>11. CASE u \in Json
  <2>1. /\ incoming' = Append(incoming, u) /\ UNCHANGED err
        /\ reader' = [pc |-> "size", size |-> 0]
    BY <1>11 DEF ReadContent, u
  <2>2. /\ reader'.pc = "size"
        /\ reader' \in [pc : {"size", "content", "stopped"}, size : Nat]
    BY <2>1
  <2>3. /\ Append(incoming, u) \in Seq(Json) /\ Len(Append(incoming, u)) = k
        /\ Append(incoming, u)[k] = u
        /\ \A i \in 1 .. Len(incoming) : Append(incoming, u)[i] = incoming[i]
        /\ DOMAIN Append(incoming, u) = 1 .. k
    BY <1>3, <1>11, AppendProperties, LenProperties, SMTT(40)
  <2>4. FramingTypeOK'
    BY <1>0, <1>1, <1>9, <2>1, <2>2, <2>3 DEF FramingTypeOK
  <2>5. DeliveredInOrder'
    <3>1. ASSUME NEW i \in 1 .. k
          PROVE  Append(incoming, u)[i] = sent[i]
      <4>1. i = k \/ i \in 1 .. Len(incoming)
        BY <1>3, SMT
      <4> QED BY <1>0, <1>3, <1>8, <2>3, <4>1 DEF DeliveredInOrder
    <3>2. k <= n
      BY <1>5
    <3> QED BY <1>1, <2>1, <2>3, <3>1, <3>2 DEF DeliveredInOrder
  <2>6. SizeIsRead'
    BY <2>2 DEF SizeIsRead
  <2>7. StopReason'
    BY <1>0, <1>1, <2>1, <2>2 DEF StopReason
  <2>8. InStep'
    <3>1. PICK b \in Offsets :
            /\ Laid(b, k, sent, n, stream', Len(stream'))
            /\ b[k] = Position - z
            /\ ~closed' => Len(stream') = b[n + 1]
      BY <1>1, <1>9
    <3>2. Laid(b, k + 1, sent, n, stream', Len(stream'))
      <4> HIDE DEF k
      <4> QED BY <1>3, <1>5, <3>1, LaidNext
    <3>3. b[k + 1] = b[k] + FrameSize(sent[k])
      <4>1. k \in k .. n
        BY <1>5
      <4> QED BY <3>1, <4>1 DEF Laid
    <3>4. b[k + 1] = 0
      <4>1. Position = -4
        BY <1>1 DEF Position
      <4>2. b[k] = -4 - (Len(sent[k]) + 1)
        BY <1>4, <3>1, <4>1
      <4> QED BY <1>6, <3>3, <4>2 DEF FrameSize
    <3>5. Position' = 0 /\ Len(incoming') + 1 = k + 1
      BY <2>1, <2>2, <2>3 DEF Position
    <3> HIDE DEF k
    <3> QED BY <1>1, <3>1, <3>2, <3>4, <3>5 DEF InStep
  <2>9. DeliveredFits'
    <3>1. k = 1 => incoming = <<>>
      <4>1. k = 1 => Len(incoming) = 0
        BY <1>3
      <4> QED BY <1>3, <4>1, EmptySeq
    <3>2. k # 1 => incoming # <<>>
      BY <1>3, EmptySeq
    <3>3. Len(u) + 1 <= IF k = 1 THEN FirstLimit ELSE Limit
      BY <1>4, <1>8, <3>1, <3>2 DEF Maximum
    <3>4. ASSUME NEW i \in 1 .. k
          PROVE  Len(Append(incoming, u)[i]) + 1
                   <= IF i = 1 THEN FirstLimit ELSE Limit
      <4>1. i = k \/ i \in 1 .. Len(incoming)
        BY <1>3, SMT
      <4>2. CASE i = k
        BY <2>3, <3>3, <4>2
      <4>3. CASE i \in 1 .. Len(incoming)
        BY <1>0, <1>3, <2>3, <4>3 DEF DeliveredFits
      <4> QED BY <4>1, <4>2, <4>3
    <3> QED BY <2>1, <2>3, <3>4 DEF DeliveredFits
  <2> QED BY <2>4, <2>5, <2>6, <2>7, <2>8, <2>9 DEF FramingInv
<1> QED BY <1>10, <1>11

\* The socket ends before a size or a content does.
LEMMA ReadFailsFraming ==
  ASSUME FramingInv, ReadFails
  PROVE  FramingInv'
<1>0. FramingTypeOK /\ DeliveredInOrder /\ SizeIsRead /\ StopReason
      /\ DeliveredFits
  BY DEF FramingInv
<1>1. /\ reader' = [reader EXCEPT !.pc = "stopped"] /\ err' = "read error"
      /\ stream' = <<>> /\ closed /\ UNCHANGED <<sent, closed, incoming>>
  BY DEF ReadFails, Stop
<1>2. /\ reader'.pc = "stopped"
      /\ reader' \in [pc : {"size", "content", "stopped"}, size : Nat]
  BY <1>0, <1>1 DEF FramingTypeOK
<1>3. stream' \in Seq(Int)
  BY <1>1, EmptySeq
<1>4. FramingTypeOK'
  BY <1>0, <1>1, <1>2, <1>3 DEF FramingTypeOK
<1>5. DeliveredInOrder' /\ DeliveredFits'
  BY <1>0, <1>1 DEF DeliveredInOrder, DeliveredFits
<1>6. SizeIsRead' /\ StopReason'
  BY <1>1, <1>2 DEF SizeIsRead, StopReason
<1> QED BY <1>2, <1>4, <1>5, <1>6 DEF FramingInv

\* One step of the sender, the socket or the reader keeps the invariant.
LEMMA FramingStep ==
  ASSUME FramingInv, FramingNext
  PROVE  FramingInv'
BY SendFraming, CutFraming, ReadSizeFraming, ReadContentFraming,
   ReadFailsFraming DEF FramingNext

\* What was sent is not changed, and nothing that was delivered is taken back.
LEMMA FramingGrows ==
  ASSUME FramingInv, FramingNext
  PROVE  /\ Len(incoming) <= Len(incoming')
         /\ \A i \in 1 .. Len(sent) : sent'[i] = sent[i]
<1>0. FramingTypeOK
  BY DEF FramingInv
<1>1. /\ Len(sent) \in Nat /\ Len(incoming) \in Nat
      /\ sent \in Seq(Content) /\ incoming \in Seq(Json)
  BY <1>0, Lengths DEF FramingTypeOK
<1>2. \/ incoming' = incoming
      \/ \E u \in Json : incoming' = Append(incoming, u)
  BY DEF FramingNext, Send, Cut, ReadSize, ReadContent, ReadFails, Stop
<1>3. sent' = sent \/ \E c \in Content : sent' = Append(sent, c)
  BY DEF FramingNext, Send, Cut, ReadSize, ReadContent, ReadFails
<1>4. Len(incoming) <= Len(incoming')
  <2>1. ASSUME NEW u \in Json, incoming' = Append(incoming, u)
        PROVE  Len(incoming) <= Len(incoming')
    <3>1. Len(Append(incoming, u)) = Len(incoming) + 1
      BY <1>1, AppendProperties
    <3> QED BY <1>1, <2>1, <3>1
  <2> QED BY <1>1, <1>2, <2>1
<1>5. ASSUME NEW c \in Content, sent' = Append(sent, c), NEW i \in 1 .. Len(sent)
      PROVE  sent'[i] = sent[i]
  <2>1. Append(sent, c)[i] = sent[i]
    BY <1>1, AppendProperties, SMTT(40)
  <2> QED BY <1>5, <2>1
<1> QED BY <1>3, <1>4, <1>5

-----------------------------------------------------------------------------
(* The handler.                                                            *)

Expectation ==
  {"LOGIN", "TURN_ACK", "DO_INIT_ACK", "DO_TURN_ACK", "nothing"}

\* What the handler expects tells how far the session is and whose it is.
HandlerInv ==
  /\ handler \in [expects : Expectation, read : Nat, winner : Int]
  /\ handler.read <= Len(incoming)
  /\ handler.expects = "LOGIN" => handler.read = 0
  /\ handler.expects = "TURN_ACK" =>
       handler.read >= 1 /\ RoleNamed # "game logic"
  /\ handler.expects = "DO_INIT_ACK" =>
       handler.read = 1 /\ RoleNamed = "game logic"
  /\ handler.expects = "DO_TURN_ACK" =>
       handler.read >= 2 /\ RoleNamed = "game logic"
  /\ handler.expects = "nothing" => handler.read >= 1
  /\ handler.winner # -1 => handler.expects \in {"DO_TURN_ACK", "nothing"}

MessagesInv == FramingInv /\ HandlerInv /\ SessionFollowsProtocol

\* Sending, a cut and the reader leave the session as it is.
LEMMA SessionGrows ==
  ASSUME MessagesInv, FramingNext, UNCHANGED handler
  PROVE  HandlerInv' /\ SessionFollowsProtocol'
<1>1. FramingTypeOK /\ DeliveredInOrder /\ FramingInv /\ HandlerInv
  BY DEF MessagesInv, FramingInv
<1>2. /\ Len(sent) \in Nat /\ Len(incoming) \in Nat /\ Len(incoming') \in Nat
      /\ Len(incoming) <= Len(sent) /\ Len(incoming) <= Len(incoming')
      /\ handler.read \in Nat /\ handler.read <= Len(incoming)
  <2>1. FramingTypeOK'
    BY <1>1, FramingStep DEF FramingInv
  <2>2. Len(incoming') \in Nat
    BY <2>1, LenProperties DEF FramingTypeOK
  <2> QED BY <1>1, <2>2, Lengths, FramingGrows DEF DeliveredInOrder, HandlerInv
<1>3. /\ Accepted' = Accepted /\ Accepted \in Int /\ Accepted <= handler.read
  BY <1>2 DEF Accepted
<1>4. \A i \in 1 .. handler.read : sent'[i] = sent[i]
  <2>1. \A i \in 1 .. handler.read : i \in 1 .. Len(sent)
    BY <1>2, SMT
  <2> QED BY <1>1, <2>1, FramingGrows
<1>5. /\ handler.read >= 1 => RoleNamed' = RoleNamed
      /\ \A i \in 1 .. Accepted : sent'[i] = sent[i] /\ handler.read >= 1
  <2>1. /\ handler.read >= 1 => 1 \in 1 .. handler.read
        /\ \A i \in 1 .. Accepted : i \in 1 .. handler.read /\ handler.read >= 1
    BY <1>2, <1>3, SMT
  <2> QED BY <1>4, <2>1 DEF RoleNamed
<1>6. \A i \in 1 .. Accepted :
        TypeOfMessage(i)' = TypeOfMessage(i) /\ TypeInSession(i)' = TypeInSession(i)
  BY <1>5 DEF TypeOfMessage, TypeInSession
<1>7. SessionFollowsProtocol'
  BY <1>3, <1>6 DEF SessionFollowsProtocol, MessagesInv
<1>8. handler.read <= Len(incoming')
  BY <1>2, SMT
<1>9. handler.read = 1 \/ handler.read >= 2 => handler.read >= 1
  BY <1>2, SMT
<1> QED BY <1>1, <1>5, <1>7, <1>8, <1>9 DEF HandlerInv

\* Where the next message is in the session.
LEMMA NextIndex ==
  ASSUME NEW r \in Nat
  PROVE  /\ r >= 1 => r + 1 # 1 /\ r + 1 > 1 /\ r + 1 >= 1
         /\ r = 1 => r + 1 = 2 /\ r + 1 # 1 /\ r + 1 >= 2
         /\ r >= 2 => r + 1 # 1 /\ r + 1 # 2 /\ r + 1 >= 2
BY SMT

\* The handler applies a reader of messages.go to the next message.
LEMMA HandleSession ==
  ASSUME MessagesInv, HandleMessage
  PROVE  HandlerInv' /\ SessionFollowsProtocol'
<1> DEFINE r == handler.read
           c == sent[r + 1]
           data == Object[c]
<1>0. FramingTypeOK /\ DeliveredInOrder /\ HandlerInv /\ SessionFollowsProtocol
  BY DEF MessagesInv, FramingInv
<1>1. /\ Len(incoming) \in Nat /\ DOMAIN incoming = 1 .. Len(incoming)
      /\ incoming \in Seq(Json) /\ r \in Nat /\ r < Len(incoming)
      /\ handler.expects \in Expectation \ {"nothing"}
      /\ handler.winner \in Int
  BY <1>0, Lengths DEF FramingTypeOK, HandlerInv, HandleMessage
<1>2. r + 1 \in 1 .. Len(incoming)
  BY <1>1, SMT
<1>3. incoming[r + 1] = c /\ c \in Json
  <2>1. incoming[r + 1] \in Json
    BY <1>1, <1>2, ElementOfSeq
  <2> QED BY <1>0, <1>1, <1>2, <2>1 DEF DeliveredInOrder
<1>4. /\ handler' = [expects |-> IF Accepts(data) THEN Then(data) ELSE "nothing",
                     read    |-> r + 1,
                     winner  |-> IF handler.expects = "DO_TURN_ACK" /\ Accepts(data)
                                 THEN ReadInt(data, "winner_player_id")
                                 ELSE handler.winner]
      /\ UNCHANGED <<sent, incoming>>
  BY <1>3 DEF HandleMessage, framingVars
<1>5. /\ handler'.read = r + 1 /\ r + 1 \in Nat /\ r + 1 <= Len(incoming')
      /\ r + 1 >= 1
  BY <1>1, <1>4
<1>6. Accepted = r
  BY <1>1 DEF Accepted
<1>7. /\ RoleNamed' = RoleNamed
      /\ \A i : TypeOfMessage(i)' = TypeOfMessage(i)
      /\ \A i : TypeInSession(i)' = TypeInSession(i)
  BY <1>4 DEF RoleNamed, TypeOfMessage, TypeInSession
<1>8. CASE ~Accepts(data)
  <2>1. handler'.expects = "nothing" /\ handler'.winner = handler.winner
        /\ handler' \in [expects : Expectation, read : Nat, winner : Int]
    BY <1>1, <1>4, <1>5, <1>8 DEF Expectation
  <2>2. Accepted' = Accepted
    <3>1. Accepted' = (r + 1) - 1
      BY <1>5, <2>1 DEF Accepted
    <3> QED BY <1>1, <1>6, <3>1
  <2>3. SessionFollowsProtocol'
    BY <1>0, <1>4, <1>7, <2>1, <2>2 DEF SessionFollowsProtocol
  <2>4. HandlerInv'
    BY <1>0, <1>5, <2>1, <2>2 DEF HandlerInv
  <2> QED BY <2>3, <2>4
<1>9. CASE Accepts(data)
  <2>1. /\ handler'.expects = Then(data)
        /\ handler'.winner = IF handler.expects = "DO_TURN_ACK"
                             THEN ReadInt(data, "winner_player_id")
                             ELSE handler.winner
    BY <1>4, <1>9
  <2>2. Then(data) \in Expectation \ {"nothing", "LOGIN"}
    BY DEF Then, Expectation
  <2>3. Accepted' = r + 1
    BY <1>5, <2>1, <2>2 DEF Accepted
  <2>4. TypeOfMessage(r + 1) = data["message_type"].value
    BY DEF TypeOfMessage
  \* The message is of the type that the session is at, and the next one is
  \* expected.
  <2>5. /\ TypeOfMessage(r + 1) = TypeInSession(r + 1)
        /\ Then(data) = "TURN_ACK" => r + 1 >= 1 /\ RoleNamed # "game logic"
        /\ Then(data) = "DO_INIT_ACK" => r + 1 = 1 /\ RoleNamed = "game logic"
        /\ Then(data) = "DO_TURN_ACK" => r + 1 >= 2 /\ RoleNamed = "game logic"
    <3>1. CASE handler.expects = "LOGIN"
      <4>1. r = 0
        BY <1>0, <3>1 DEF HandlerInv
      <4>2. data["message_type"].value = "LOGIN"
        BY <1>9, <3>1 DEF Accepts, readLoginMessage, checkMessageType
      <4>3. RoleNamed = data["role"].value /\ r + 1 = 1
        BY <4>1 DEF RoleNamed
      <4>4. \/ Then(data) = "DO_INIT_ACK" /\ RoleNamed = "game logic"
            \/ Then(data) = "TURN_ACK" /\ RoleNamed # "game logic"
        BY <3>1, <4>3 DEF Then
      <4>5. TypeInSession(1) = "LOGIN"
        BY SMT DEF TypeInSession
      <4>6. r + 1 >= 1
        BY <1>5
      <4> QED BY <2>4, <4>2, <4>3, <4>4, <4>5, <4>6
    <3>2. CASE handler.expects = "TURN_ACK"
      <4>1. r >= 1 /\ RoleNamed # "game logic"
        BY <1>0, <3>2 DEF HandlerInv
      <4>2. data["message_type"].value = "TURN_ACK"
        BY <1>9, <3>2 DEF Accepts, readTurnAckMessage, checkMessageType
      <4>3. Then(data) = "TURN_ACK"
        BY <3>2 DEF Then
      <4>4. r + 1 # 1 /\ r + 1 > 1 /\ r + 1 >= 1
        BY <1>1, <4>1, NextIndex
      <4> QED BY <2>4, <4>1, <4>2, <4>3, <4>4 DEF TypeInSession
    <3>3. CASE handler.expects = "DO_INIT_ACK"
      <4>1. r = 1 /\ RoleNamed = "game logic"
        BY <1>0, <3>3 DEF HandlerInv
      <4>2. data["message_type"].value = "DO_INIT_ACK"
        BY <1>9, <3>3 DEF Accepts, readDoInitAckMessage, checkMessageType
      <4>3. Then(data) = "DO_TURN_ACK"
        BY <3>3 DEF Then
      <4>4. r + 1 = 2 /\ r + 1 # 1 /\ r + 1 >= 2
        BY <1>1, <4>1, NextIndex
      <4> QED BY <2>4, <4>1, <4>2, <4>3, <4>4 DEF TypeInSession
    <3>4. CASE handler.expects = "DO_TURN_ACK"
      <4>1. r >= 2 /\ RoleNamed = "game logic"
        BY <1>0, <3>4 DEF HandlerInv
      <4>2. data["message_type"].value = "DO_TURN_ACK"
        BY <1>9, <3>4 DEF Accepts, readDoTurnAckMessage, checkMessageType
      <4>3. Then(data) = "DO_TURN_ACK"
        BY <3>4 DEF Then
      <4>4. r + 1 # 1 /\ r + 1 # 2 /\ r + 1 >= 2
        BY <1>1, <4>1, NextIndex
      <4> QED BY <2>4, <4>1, <4>2, <4>3, <4>4 DEF TypeInSession
    <3> QED BY <1>1, <3>1, <3>2, <3>3, <3>4 DEF Expectation
  \* A winner is read from this message.
  <2>6. CASE handler.expects = "DO_TURN_ACK"
    <3>1. ReadInt(data, "winner_player_id") \in -1 .. nbPlayers - 1
      BY <1>9, <2>6 DEF Accepts, readDoTurnAckMessage
    <3>2. handler'.winner \in Int /\ handler'.winner \in -1 .. nbPlayers - 1
      BY <2>1, <2>6, <3>1, MessagesAssumption
    <3>3. Then(data) = "DO_TURN_ACK"
      BY <2>6 DEF Then
    <3>4. SessionFollowsProtocol'
      <4>1. ASSUME NEW i \in 1 .. r + 1
            PROVE  TypeOfMessage(i) = TypeInSession(i)
        <5>1. i \in 1 .. r \/ i = r + 1
          BY <1>1, SMT
        <5> QED BY <1>0, <1>6, <2>5, <5>1 DEF SessionFollowsProtocol
      <4> QED BY <1>7, <2>3, <3>2, <4>1 DEF SessionFollowsProtocol
    <3>5. HandlerInv'
      <4>1. handler' \in [expects : Expectation, read : Nat, winner : Int]
        BY <1>4, <1>5, <2>1, <2>2, <3>2
      <4> QED BY <1>5, <1>7, <2>1, <2>2, <2>3, <2>5, <3>3, <4>1 DEF HandlerInv
    <3> QED BY <3>4, <3>5
  <2>7. CASE handler.expects # "DO_TURN_ACK"
    <3>1. handler'.winner = -1 /\ handler.winner = -1
      BY <1>0, <1>1, <2>1, <2>7 DEF HandlerInv
    <3>2. SessionFollowsProtocol'
      <4>1. ASSUME NEW i \in 1 .. r + 1
            PROVE  TypeOfMessage(i) = TypeInSession(i)
        <5>1. i \in 1 .. r \/ i = r + 1
          BY <1>1, SMT
        <5> QED BY <1>0, <1>6, <2>5, <5>1 DEF SessionFollowsProtocol
      <4>2. handler'.winner \in -1 .. nbPlayers - 1
        BY <3>1, MessagesAssumption, SMT
      <4> QED BY <1>7, <2>3, <4>1, <4>2 DEF SessionFollowsProtocol
    <3>3. HandlerInv'
      <4>1. handler' \in [expects : Expectation, read : Nat, winner : Int]
        BY <1>1, <1>4, <1>5, <2>1, <2>2, <3>1
      <4> QED BY <1>5, <1>7, <2>1, <2>2, <2>3, <2>5, <3>1, <4>1 DEF HandlerInv
    <3> QED BY <3>2, <3>3
  <2> QED BY <2>6, <2>7
<1> QED BY <1>8, <1>9

\* Nothing happens on the connection.
LEMMA FramingStutters ==
  ASSUME FramingInv, UNCHANGED framingVars
  PROVE  FramingInv'
BY DEF FramingInv, FramingTypeOK, DeliveredInOrder, SizeIsRead, StopReason,
   DeliveredFits, Maximum, Fits, InStep, Position, framingVars

\* Every state of a connection satisfies the invariant.
THEOREM MessagesInvCorrect == MessagesSpec => []MessagesInv
<1>1. MessagesInit => MessagesInv
  <2> SUFFICES ASSUME MessagesInit PROVE MessagesInv
    OBVIOUS
  <2>1. FramingInv
    BY InitFraming DEF MessagesInit
  <2>2. handler = [expects |-> "LOGIN", read |-> 0, winner |-> -1] /\ incoming = <<>>
    BY DEF MessagesInit, FramingInit
  <2>3. Accepted = 0 /\ 1 .. 0 = {} /\ Len(incoming) = 0
    BY <2>2, SMT DEF Accepted
  <2>4. HandlerInv
    BY <2>2, <2>3 DEF HandlerInv, Expectation
  <2>5. handler.winner = -1 /\ -1 \in -1 .. nbPlayers - 1
    BY <2>2, MessagesAssumption, SMT
  <2>6. SessionFollowsProtocol
    BY <2>3, <2>5 DEF SessionFollowsProtocol
  <2> QED BY <2>1, <2>4, <2>6 DEF MessagesInv
<1>2. MessagesInv /\ [MessagesNext]_messageVars => MessagesInv'
  <2> SUFFICES ASSUME MessagesInv, [MessagesNext]_messageVars
               PROVE  MessagesInv'
    OBVIOUS
  <2>1. CASE HandleMessage
    <3>1. UNCHANGED framingVars
      BY <2>1 DEF HandleMessage
    <3>2. FramingInv'
      BY <3>1, FramingStutters DEF MessagesInv
    <3> QED BY <2>1, <3>2, HandleSession DEF MessagesInv
  <2>2. CASE FramingNext /\ UNCHANGED handler
    BY <2>2, FramingStep, SessionGrows DEF MessagesInv
  <2>3. CASE UNCHANGED messageVars
    <3>1. UNCHANGED framingVars /\ UNCHANGED handler
      BY <2>3 DEF messageVars
    <3>2. /\ Accepted' = Accepted /\ RoleNamed' = RoleNamed
          /\ \A i : TypeOfMessage(i)' = TypeOfMessage(i)
          /\ \A i : TypeInSession(i)' = TypeInSession(i)
      BY <3>1 DEF Accepted, RoleNamed, TypeOfMessage, TypeInSession, framingVars
    <3>3. HandlerInv' /\ SessionFollowsProtocol'
      BY <3>1, <3>2 DEF MessagesInv, HandlerInv, SessionFollowsProtocol,
         framingVars
    <3> QED BY <3>1, <3>3, FramingStutters DEF MessagesInv
  <2> QED BY <2>1, <2>2, <2>3 DEF MessagesNext
<1> QED BY <1>1, <1>2, PTL DEF MessagesSpec

\* readClientMessages hands over what was sent, whole and in order, wherever
\* the socket is cut.
THEOREM MessagesArriveInOrder == MessagesSpec => []DeliveredInOrder
<1>1. MessagesInv => DeliveredInOrder
  BY DEF MessagesInv, FramingInv
<1> QED BY <1>1, MessagesInvCorrect, PTL

\* The reader hands over what is within its limit and refuses the rest; what
\* passes the check of sendMessage or SendBytes is refused at its size only as
\* a first message.
THEOREM AcceptedIsReadable == MessagesSpec => []AcceptedFits
<1>1. MessagesInv => AcceptedFits
  BY DEF MessagesInv, FramingInv, StopReason, DeliveredFits, AcceptedFits
<1> QED BY <1>1, MessagesInvCorrect, PTL

\* The messages that a handler acts upon are those of its session, and the
\* winner that it keeps is a player of the game or nobody.
THEOREM SessionsFollowProtocol == MessagesSpec => []SessionFollowsProtocol
<1>1. MessagesInv => SessionFollowsProtocol
  BY DEF MessagesInv
<1> QED BY <1>1, MessagesInvCorrect, PTL
=============================================================================
