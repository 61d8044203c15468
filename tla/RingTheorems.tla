---------------------------- MODULE RingTheorems ----------------------------
(***************************************************************************)
(* Arithmetic of the kernel's circular buffers: an array of s entries,     *)
(* indexed modulo s by unsigned counters that wrap around at u, a multiple *)
(* of s (the counters of pipe.c, console.c and virtio_disk.c).             *)
(***************************************************************************)
EXTENDS Integers, Sequences, TLAPS

\* What x % m is.
LEMMA DivMod ==
  ASSUME NEW m \in Nat \ {0}, NEW x \in Nat
  PROVE  x % m \in 0 .. m - 1 /\ \E q \in Int : x = m * q + (x % m)
<1>1. x % m \in 0 .. m - 1 /\ x % m \in Int /\ x \div m \in Int
  OBVIOUS
<1>2. \A q, r \in Int : q = x \div m /\ r = x % m => x = m * q + r
  OBVIOUS
<1> QED BY ONLY <1>1, <1>2, ZenonT(30)

\* A number below the modulus is its own remainder.
LEMMA ModSmall == ASSUME NEW m \in Nat \ {0}, NEW x \in 0 .. m - 1 PROVE x % m = x
OBVIOUS

\* A multiple of the modulus makes no difference.
LEMMA ModTimes ==
  ASSUME NEW m \in Nat \ {0}, NEW x \in Nat, NEW k \in Nat, k % m = 0
  PROVE  (x + k) % m = x % m
<1> DEFINE r == x % m
<1>1. r \in 0 .. m - 1
  BY DivMod, ZenonT(30)
<1>2. PICK q \in Int : x = m * q + r
  BY DivMod, ZenonT(30)
<1>3. PICK c \in Int : k = m * c + 0
  BY DivMod, ZenonT(30)
<1> HIDE DEF r
<1>4. m * q + m * c = m * (q + c)
  OBVIOUS
<1>5. x + k = m * (q + c) + r /\ x + k \in Int /\ q + c \in Int
  BY <1>1, <1>2, <1>3, <1>4
<1>6. \A y, d \in Int : y = m * d + r => y % m = r
  BY ONLY <1>1, m \in Nat \ {0}
<1>7. (x + k) % m = r
  BY ONLY <1>5, <1>6, ZenonT(30)
<1> QED BY <1>7 DEF r

\* Entries less than the size of the array apart are different entries.
LEMMA ModApart ==
  ASSUME NEW m \in Nat \ {0}, NEW x \in Nat, NEW k \in 1 .. m - 1
  PROVE  (x + k) % m # x % m
<1> DEFINE r == x % m
<1> SUFFICES ASSUME (x + k) % m = r PROVE FALSE
  BY ZenonT(30)
<1>1. r \in 0 .. m - 1
  BY DivMod, ZenonT(30)
<1>2. PICK q \in Int : x = m * q + r
  BY DivMod, ZenonT(30)
<1>3. PICK c \in Int : x + k = m * c + r
  <2>1. x + k \in Nat
    OBVIOUS
  <2> QED BY DivMod, <2>1, ZenonT(30)
<1> HIDE DEF r
<1>4. m * c - m * q = m * (c - q)
  OBVIOUS
<1>5. k = m * (c - q)
  BY <1>1, <1>2, <1>3, <1>4
<1> QED BY ONLY <1>5, m \in Nat \ {0}, k \in 1 .. m - 1, c \in Int, q \in Int

-----------------------------------------------------------------------------
\* A counter that has wrapped around at most once.
LEMMA ModOnce ==
  ASSUME NEW u \in Nat \ {0}, NEW x \in 0 .. u + u - 1
  PROVE  (x < u => x % u = x) /\ (~ (x < u) => x % u = x - u)
<1>1. CASE x < u
  <2>1. x \in 0 .. u - 1
    BY <1>1
  <2> QED BY <1>1, <2>1, ModSmall, ZenonT(30)
<1>2. CASE ~ (x < u)
  <2>1. x - u \in 0 .. u - 1 /\ x - u \in Nat /\ x = (x - u) + u /\ u \in Nat /\ u % u = 0
    BY <1>2
  <2>2. ((x - u) + u) % u = (x - u) % u
    BY ONLY <2>1, ModTimes, u \in Nat \ {0}, ZenonT(30)
  <2>3. (x - u) % u = x - u
    BY ONLY <2>1, ModSmall, u \in Nat \ {0}, ZenonT(30)
  <2> QED BY ONLY <1>2, <2>1, <2>2, <2>3, ZenonT(30)
<1> QED BY <1>1, <1>2, ZenonT(30)

\* A counter that is incremented.
LEMMA CounterNext ==
  ASSUME NEW u \in Nat \ {0}, NEW a \in 0 .. u - 1
  PROVE  (a + 1) % u = IF a = u - 1 THEN 0 ELSE a + 1
<1>1. PICK x \in 0 .. u + u - 1 : x = a + 1
  OBVIOUS
<1>2. (x < u => x % u = x) /\ (~ (x < u) => x % u = x - u)
  BY ModOnce, ZenonT(30)
<1> QED BY <1>1, <1>2

\* How far counter b is ahead of counter a.
LEMMA CounterDistance ==
  ASSUME NEW u \in Nat \ {0}, NEW a \in 0 .. u - 1, NEW b \in 0 .. u - 1
  PROVE  (b + u - a) % u = IF a <= b THEN b - a ELSE b + u - a
<1>1. PICK x \in 0 .. u + u - 1 : x = b + u - a
  OBVIOUS
<1>2. (x < u => x % u = x) /\ (~ (x < u) => x % u = x - u)
  BY ModOnce, ZenonT(30)
<1> QED BY <1>1, <1>2

-----------------------------------------------------------------------------
\* The entry a counter points to does not change when the counter wraps around.
LEMMA RingWraps ==
  ASSUME NEW s \in Nat \ {0}, NEW u \in Nat \ {0}, u % s = 0, NEW x \in 0 .. u + u - 1
  PROVE  (x % u) % s = x % s
<1>1. CASE x < u
  BY <1>1, ModOnce, ZenonT(30)
<1>2. CASE ~ (x < u)
  <2>1. x - u \in Nat /\ x = (x - u) + u /\ u \in Nat
    BY <1>2
  <2>2. ((x - u) + u) % s = (x - u) % s
    BY ONLY <2>1, ModTimes, s \in Nat \ {0}, u % s = 0, ZenonT(30)
  <2> QED BY <1>2, <2>1, <2>2, ModOnce, ZenonT(30)
<1> QED BY <1>1, <1>2, ZenonT(30)

\* Up to s entries from a on are different entries.
LEMMA RingApart ==
  ASSUME NEW s \in Nat \ {0}, NEW a \in Nat, NEW j \in Nat, NEW k \in Nat, j < k, k < j + s
  PROVE  (a + j) % s # (a + k) % s
<1>1. a + j \in Nat /\ k - j \in 1 .. s - 1 /\ a + k = (a + j) + (k - j)
  OBVIOUS
<1>2. ((a + j) + (k - j)) % s # (a + j) % s
  BY ONLY <1>1, ModApart, s \in Nat \ {0}, ZenonT(30)
<1> QED BY ONLY <1>1, <1>2, ZenonT(30)

-----------------------------------------------------------------------------
\* Sequences with the same elements are equal.
LEMMA SameSeq ==
  ASSUME NEW S, NEW s \in Seq(S), NEW t \in Seq(S), NEW m \in Nat, Len(s) = m, Len(t) = m,
         \A k \in 1 .. m : s[k] = t[k]
  PROVE  s = t
<1>1. s \in [1 .. m -> S] /\ t \in [1 .. m -> S]
  OBVIOUS
<1> QED BY ONLY <1>1, \A k \in 1 .. m : s[k] = t[k]

\* A function on 1 .. m is a sequence.
LEMMA FunctionSeq ==
  ASSUME NEW S, NEW m \in Nat, NEW s \in [1 .. m -> S]
  PROVE  s \in Seq(S) /\ Len(s) = m
OBVIOUS

\* The elements of a sequence with one element more at the end.
LEMMA AppendIs ==
  ASSUME NEW S, NEW s \in Seq(S), NEW b \in S
  PROVE  /\ Append(s, b) \in Seq(S) /\ Len(Append(s, b)) = Len(s) + 1
         /\ \A k \in 1 .. Len(s) : Append(s, b)[k] = s[k]
         /\ Append(s, b)[Len(s) + 1] = b
OBVIOUS

\* The elements of a sequence without its first.
LEMMA TailIs ==
  ASSUME NEW S, NEW s \in Seq(S), Len(s) > 0
  PROVE  /\ Tail(s) \in Seq(S) /\ Len(Tail(s)) = Len(s) - 1
         /\ \A k \in 1 .. Len(s) - 1 : Tail(s)[k] = s[k + 1]
OBVIOUS

-----------------------------------------------------------------------------
\* c is the sequence of the n entries of the circular buffer b, of size s with
\* entries in S, from counter i on.
IsChunk(c, b, s, S, i, n) ==
  /\ s \in Nat \ {0} /\ b \in [0 .. s - 1 -> S] /\ i \in Nat /\ n \in Nat
  /\ c \in Seq(S) /\ Len(c) = n
  /\ \A k \in 1 .. n : c[k] = b[(i + k - 1) % s]

\* There is only one.
LEMMA ChunkOnly ==
  ASSUME NEW c, NEW d, NEW b, NEW s, NEW S, NEW i, NEW n, IsChunk(c, b, s, S, i, n), IsChunk(d, b, s, S, i, n)
  PROVE  c = d
<1>1. c \in Seq(S) /\ d \in Seq(S) /\ n \in Nat /\ Len(c) = n /\ Len(d) = n /\ \A k \in 1 .. n : c[k] = d[k]
  BY ZenonT(30) DEF IsChunk
<1> QED BY ONLY <1>1, SameSeq

\* The entries from i on, as a function.
LEMMA ChunkFunction ==
  ASSUME NEW b, NEW s \in Nat \ {0}, NEW S, b \in [0 .. s - 1 -> S], NEW i \in Nat, NEW n \in Nat,
         NEW c, c = [k \in 1 .. n |-> b[(i + k - 1) % s]]
  PROVE  IsChunk(c, b, s, S, i, n)
<1>1. \A k \in 1 .. n : (i + k - 1) % s \in 0 .. s - 1
  <2> SUFFICES ASSUME NEW k \in 1 .. n PROVE (i + k - 1) % s \in 0 .. s - 1
    BY ZenonT(30)
  <2>1. i + k - 1 \in Nat
    OBVIOUS
  <2> QED BY ONLY <2>1, s \in Nat \ {0}, DivMod, ZenonT(30)
<1>2. c \in [1 .. n -> S] /\ \A k \in 1 .. n : c[k] = b[(i + k - 1) % s]
  BY <1>1, ZenonT(30)
<1>3. c \in Seq(S) /\ Len(c) = n
  BY ONLY <1>2, n \in Nat, FunctionSeq, ZenonT(30)
<1> QED BY <1>2, <1>3, ZenonT(30) DEF IsChunk

\* The first k of them.
LEMMA ChunkFront ==
  ASSUME NEW c, NEW b, NEW s, NEW S, NEW i, NEW n, IsChunk(c, b, s, S, i, n), NEW k \in 0 .. n
  PROVE  IsChunk(SubSeq(c, 1, k), b, s, S, i, k)
<1> DEFINE t == SubSeq(c, 1, k)
<1>1. c \in Seq(S) /\ n \in Nat /\ Len(c) = n /\ \A m \in 1 .. n : c[m] = b[(i + m - 1) % s]
  BY ZenonT(30) DEF IsChunk
<1>2. k \in Nat /\ t \in Seq(S) /\ Len(t) = k /\ \A m \in 1 .. k : t[m] = c[m]
  BY ONLY <1>1, k \in 0 .. n
<1>3. \A m \in 1 .. k : m \in 1 .. n
  BY <1>1
<1> HIDE DEF t
<1>4. \A m \in 1 .. k : t[m] = b[(i + m - 1) % s]
  BY ONLY <1>1, <1>2, <1>3, ZenonT(30)
<1>5. IsChunk(t, b, s, S, i, k)
  BY <1>2, <1>4, ZenonT(30) DEF IsChunk
<1> QED BY <1>5, ZenonT(30) DEF t

\* All but the first k of them.
LEMMA ChunkBack ==
  ASSUME NEW c, NEW b, NEW s, NEW S, NEW i, NEW n, IsChunk(c, b, s, S, i, n), NEW k \in 0 .. n
  PROVE  IsChunk(SubSeq(c, k + 1, n), b, s, S, i + k, n - k)
<1> DEFINE t == SubSeq(c, k + 1, n)
<1>1. i \in Nat /\ c \in Seq(S) /\ n \in Nat /\ Len(c) = n /\ \A m \in 1 .. n : c[m] = b[(i + m - 1) % s]
  BY ZenonT(30) DEF IsChunk
<1>2. t \in Seq(S) /\ Len(t) = n - k /\ \A m \in 1 .. n - k : t[m] = c[k + m]
  <2>1. c \in Seq(S) /\ n \in Nat /\ Len(c) = n
    BY ONLY <1>1, ZenonT(30)
  <2>2. t \in Seq(S) /\ Len(t) = n - k
    BY ONLY <2>1, k \in 0 .. n
  <2>3. \A m \in 1 .. n - k : t[m] = c[k + m]
    BY ONLY <2>1, k \in 0 .. n
  <2> QED BY ONLY <2>2, <2>3, ZenonT(30)
<1> HIDE DEF t
<1>3. n - k \in Nat /\ i + k \in Nat
  BY <1>1
<1>4. ASSUME NEW m \in 1 .. n - k PROVE t[m] = b[((i + k) + m - 1) % s]
  <2>1. k + m \in 1 .. n /\ i + (k + m) - 1 = (i + k) + m - 1
    BY <1>1
  <2>2. c[k + m] = b[(i + (k + m) - 1) % s]
    BY ONLY <1>1, <2>1, ZenonT(30)
  <2> QED BY ONLY <1>2, <2>1, <2>2, m \in 1 .. n - k, ZenonT(30)
<1>5. IsChunk(t, b, s, S, i + k, n - k)
  BY <1>2, <1>3, <1>4, ZenonT(30) DEF IsChunk
<1> QED BY <1>5, ZenonT(30) DEF t

\* A turn of the counter makes no difference.
LEMMA ChunkTurn ==
  ASSUME NEW c, NEW b, NEW s, NEW S, NEW i \in Nat, NEW n, NEW u \in Nat, u % s = 0
  PROVE  IsChunk(c, b, s, S, i, n) <=> IsChunk(c, b, s, S, i + u, n)
<1> SUFFICES ASSUME s \in Nat \ {0}, n \in Nat
             PROVE  \A k \in 1 .. n : ((i + u) + k - 1) % s = (i + k - 1) % s
  <2>1. i + u \in Nat
    OBVIOUS
  <2> QED BY <2>1, ZenonT(30) DEF IsChunk
<1> TAKE k \in 1 .. n
<1>1. PICK x \in Nat : x = i + k - 1
  OBVIOUS
<1>2. (i + u) + k - 1 = x + u
  BY <1>1
<1>3. (x + u) % s = x % s
  BY ONLY s \in Nat \ {0}, x \in Nat, u \in Nat, u % s = 0, ModTimes, ZenonT(30)
<1> QED BY ONLY <1>1, <1>2, <1>3, ZenonT(30)

\* What is written behind at least as many entries, into a buffer with room for one
\* more, is none of them.
LEMMA ChunkKept ==
  ASSUME NEW c, NEW b, NEW d, NEW s, NEW S, NEW i, NEW n, IsChunk(c, b, s, S, i, n),
         NEW m \in Nat, n <= m, m < s, NEW x \in S, d = [b EXCEPT ![(i + m) % s] = x]
  PROVE  IsChunk(c, d, s, S, i, n)
<1>1. /\ s \in Nat \ {0} /\ b \in [0 .. s - 1 -> S] /\ i \in Nat /\ n \in Nat
      /\ c \in Seq(S) /\ Len(c) = n /\ \A k \in 1 .. n : c[k] = b[(i + k - 1) % s]
  BY ZenonT(30) DEF IsChunk
<1>2. (i + m) % s \in 0 .. s - 1
  <2>1. i + m \in Nat
    BY <1>1
  <2> QED BY ONLY <1>1, <2>1, DivMod, ZenonT(30)
<1>3. d \in [0 .. s - 1 -> S]
  BY <1>1, <1>2, ZenonT(30)
<1>4. ASSUME NEW k \in 1 .. n PROVE c[k] = d[(i + k - 1) % s]
  <2>1. PICK j \in Nat : j = k - 1
    BY <1>1
  <2>2. i + k - 1 = i + j /\ j < m /\ m < j + s /\ i + j \in Nat
    BY <1>1, <2>1
  <2>3. (i + j) % s # (i + m) % s
    BY ONLY <1>1, <2>2, j \in Nat, m \in Nat, RingApart, ZenonT(30)
  <2>4. (i + j) % s \in 0 .. s - 1
    BY ONLY <1>1, <2>2, DivMod, ZenonT(30)
  <2>5. d[(i + j) % s] = b[(i + j) % s]
    BY ONLY <1>1, <2>3, <2>4, d = [b EXCEPT ![(i + m) % s] = x], ZenonT(30)
  <2>6. c[k] = b[(i + k - 1) % s]
    BY ONLY <1>1, k \in 1 .. n, ZenonT(30)
  <2> QED BY ONLY <2>2, <2>5, <2>6, ZenonT(30)
<1> QED BY <1>1, <1>3, <1>4, ZenonT(30) DEF IsChunk

\* What is written behind the entries is appended to them.
LEMMA ChunkAppend ==
  ASSUME NEW c, NEW b, NEW d, NEW s, NEW S, NEW i, NEW n, IsChunk(c, b, s, S, i, n),
         n < s, NEW x \in S, d = [b EXCEPT ![(i + n) % s] = x]
  PROVE  IsChunk(Append(c, x), d, s, S, i, n + 1)
<1>0. n \in Nat /\ n <= n
  BY DEF IsChunk
<1>1. IsChunk(c, d, s, S, i, n)
  BY <1>0, ChunkKept, ZenonT(30)
<1>2. /\ s \in Nat \ {0} /\ b \in [0 .. s - 1 -> S] /\ i \in Nat /\ c \in Seq(S) /\ Len(c) = n
      /\ d \in [0 .. s - 1 -> S] /\ \A k \in 1 .. n : c[k] = d[(i + k - 1) % s]
  BY <1>1, ZenonT(30) DEF IsChunk
<1>3. /\ Append(c, x) \in Seq(S) /\ Len(Append(c, x)) = n + 1
      /\ \A k \in 1 .. n : Append(c, x)[k] = c[k]
      /\ Append(c, x)[n + 1] = x
  BY ONLY <1>2, x \in S
<1>4. n + 1 \in Nat /\ i + (n + 1) - 1 = i + n /\ i + n \in Nat
  BY <1>0, <1>2
<1>5. d[(i + n) % s] = x
  <2>1. (i + n) % s \in 0 .. s - 1
    BY ONLY <1>2, <1>4, DivMod, ZenonT(30)
  <2> QED BY ONLY <1>2, <2>1, d = [b EXCEPT ![(i + n) % s] = x], ZenonT(30)
<1>6. ASSUME NEW k \in 1 .. n + 1 PROVE Append(c, x)[k] = d[(i + k - 1) % s]
  <2>1. k \in 1 .. n \/ k = n + 1
    BY ONLY <1>0, k \in 1 .. n + 1
  <2> QED BY ONLY <1>2, <1>3, <1>4, <1>5, <2>1, ZenonT(30)
<1> QED BY ONLY <1>2, <1>3, <1>4, <1>6, ZenonT(30) DEF IsChunk

\* Entries that follow each other.
LEMMA ChunkJoin ==
  ASSUME NEW c, NEW d, NEW b, NEW s, NEW S, NEW i, NEW m, NEW n,
         IsChunk(c, b, s, S, i, m), IsChunk(d, b, s, S, i + m, n)
  PROVE  IsChunk(c \o d, b, s, S, i, m + n)
<1>1. /\ s \in Nat \ {0} /\ b \in [0 .. s - 1 -> S] /\ i \in Nat /\ m \in Nat
      /\ c \in Seq(S) /\ Len(c) = m /\ \A k \in 1 .. m : c[k] = b[(i + k - 1) % s]
  BY ZenonT(30) DEF IsChunk
<1>2. n \in Nat /\ d \in Seq(S) /\ Len(d) = n /\ \A k \in 1 .. n : d[k] = b[((i + m) + k - 1) % s]
  BY ZenonT(30) DEF IsChunk
<1>3. /\ m + n \in Nat /\ c \o d \in Seq(S) /\ Len(c \o d) = m + n
      /\ \A k \in 1 .. m : (c \o d)[k] = c[k]
      /\ \A k \in 1 .. n : (c \o d)[m + k] = d[k]
  <2>1. c \in Seq(S) /\ d \in Seq(S) /\ Len(c) = m /\ Len(d) = n /\ m \in Nat /\ n \in Nat
    BY <1>1, <1>2, ZenonT(30)
  <2>2. c \o d \in Seq(S) /\ Len(c \o d) = m + n
    BY ONLY <2>1
  <2>3. \A k \in 1 .. m : (c \o d)[k] = c[k]
    BY ONLY <2>1
  <2>4. \A k \in 1 .. n : (c \o d)[m + k] = d[k]
    BY ONLY <2>1
  <2> QED BY ONLY <2>1, <2>2, <2>3, <2>4
<1>4. ASSUME NEW k \in 1 .. m + n PROVE (c \o d)[k] = b[(i + k - 1) % s]
  <2>1. CASE k \in 1 .. m
    BY ONLY <1>1, <1>3, <2>1, ZenonT(30)
  <2>2. CASE k \notin 1 .. m
    <3>0. i \in Nat /\ m \in Nat /\ n \in Nat
      BY ONLY <1>1, <1>2, ZenonT(30)
    <3>1. PICK j \in 1 .. n : k = m + j
      BY ONLY <2>2, <3>0, k \in 1 .. m + n
    <3>2. (i + m) + j - 1 = i + k - 1
      BY ONLY <3>0, <3>1
    <3> QED BY ONLY <1>2, <1>3, <3>1, <3>2, ZenonT(30)
  <2> QED BY <2>1, <2>2, ZenonT(30)
<1> QED BY ONLY <1>1, <1>3, <1>4, ZenonT(30) DEF IsChunk
=============================================================================
