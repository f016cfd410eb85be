--------------------------- MODULE Framing_proofs ---------------------------
(***************************************************************************)
(* Proofs about Framing, for any messages, threads, buffers and prefixes:   *)
(* what is in the stream are the frames of the messages begun and not yet   *)
(* received, one behind the other, the first without what the reader has of *)
(* it and the last as far as its sender has got.  So each message that is   *)
(* received is the one that was begun next.                                 *)
(***************************************************************************)
EXTENDS Framing, SequenceTheorems, TLAPS

Byte == Messages \X Nat

-----------------------------------------------------------------------------
(* Streams.  at says which of the messages b was begun each byte of s is of. *)

FrameAt(at, b, k) == FrameLength(b[at[k]])

\* Each byte belongs to the frame of its message.
Placed(at, s, b) ==
  \A k \in 1..Len(s) :
    /\ at[k] \in 1..Len(b)
    /\ s[k][1] = b[at[k]]
    /\ s[k][2] \in 1..FrameAt(at, b, k)

\* As long as a frame lasts, its bytes follow one another.
Runs(at, s, b) ==
  \A k \in 1..Len(s), d \in Nat :
    k + d <= Len(s) /\ s[k][2] + d <= FrameAt(at, b, k) =>
      at[k + d] = at[k] /\ s[k + d][2] = s[k][2] + d

\* Behind its last byte the frame of the next message begins.
Turns(at, s, b) ==
  \A k \in 1..(Len(s) - 1) :
    s[k][2] = FrameAt(at, b, k) => at[k + 1] = at[k] + 1 /\ s[k + 1][2] = 1

Frames(at, s, b) == Placed(at, s, b) /\ Runs(at, s, b) /\ Turns(at, s, b)

LEMMA FrameLengths ==
  ASSUME NEW m \in Messages
  PROVE  FrameLength(m) \in Nat /\ FrameLength(m) >= PrefixBytes /\ FrameLength(m) > 0
BY FramingAssumption DEF FrameLength

LEMMA BytesAre ==
  ASSUME NEW m \in Messages, NEW i \in Nat, NEW j \in Nat, i <= j
  PROVE  /\ Bytes(m, i + 1, j) \in Seq(Byte)
         /\ Len(Bytes(m, i + 1, j)) = j - i
         /\ \A k \in 1..(j - i) : Bytes(m, i + 1, j)[k] = <<m, i + k>>
<1>1. Bytes(m, i + 1, j) = [k \in 1..(j - i) |-> <<m, i + k>>]
  BY DEF Bytes
<1>2. \A k \in 1..(j - i) : <<m, i + k>> \in Byte
  BY DEF Byte
<1> DEFINE f == [k \in 1..(j - i) |-> <<m, i + k>>]
<1>3. j - i \in Nat /\ f \in [1..(j - i) -> Byte]
  BY <1>2
<1>4. f \in Seq(Byte) /\ Len(f) = j - i
  BY <1>3
<1> QED
  BY <1>1, <1>4

Without(s, n) == SubSeq(s, n + 1, Len(s))

\* What is left of a stream when n bytes are taken from it is one.
LEMMA SuffixIsFrames ==
  ASSUME NEW s \in Seq(Byte), NEW b \in Seq(Messages), NEW n \in 0..Len(s),
         NEW at \in [1..Len(s) -> Nat], Frames(at, s, b)
  PROVE  /\ Without(s, n) \in Seq(Byte) /\ Len(Without(s, n)) = Len(s) - n
         /\ \E shifted \in [1..(Len(s) - n) -> Nat] :
              /\ \A k \in 1..(Len(s) - n) :
                   Without(s, n)[k] = s[k + n] /\ shifted[k] = at[k + n]
              /\ Frames(shifted, Without(s, n), b)
<1> DEFINE rest == Without(s, n)
           shifted == [k \in 1..Len(rest) |-> at[k + n]]
<1>1. rest \in Seq(Byte) /\ Len(rest) = Len(s) - n
  BY SubSeqProperties DEF Without
<1>2. \A k \in 1..Len(rest) : rest[k] = s[k + n]
  <2>1. \A k \in n + 1..Len(s) : s[k] \in Byte
    OBVIOUS
  <2> QED
    BY <1>1, <2>1, SubSeqProperties DEF Without
<1>3. shifted \in [1..Len(rest) -> Nat] /\ \A k \in 1..Len(rest) : shifted[k] = at[k + n]
  BY <1>1
<1> HIDE DEF rest, shifted
<1>4. Len(s) \in Nat /\ n \in Nat /\ \A k \in 1..Len(rest) : k + n \in 1..Len(s)
  BY <1>1
<1>5. Placed(shifted, rest, b)
  <2> SUFFICES ASSUME NEW k \in 1..Len(rest)
               PROVE  /\ shifted[k] \in 1..Len(b)
                      /\ rest[k][1] = b[shifted[k]]
                      /\ rest[k][2] \in 1..FrameAt(shifted, b, k)
    BY DEF Placed
  <2>1. k + n \in 1..Len(s)
    BY <1>4
  <2>2. /\ at[k + n] \in 1..Len(b)
        /\ s[k + n][1] = b[at[k + n]]
        /\ s[k + n][2] \in 1..FrameAt(at, b, k + n)
    BY <2>1 DEF Frames, Placed
  <2>3. shifted[k] = at[k + n] /\ rest[k] = s[k + n]
    BY <1>2, <1>3
  <2>4. FrameAt(shifted, b, k) = FrameAt(at, b, k + n)
    BY <2>3 DEF FrameAt
  <2> QED
    BY <2>2, <2>3, <2>4
<1>6. Runs(shifted, rest, b)
  <2> SUFFICES ASSUME NEW k \in 1..Len(rest), NEW d \in Nat, k + d <= Len(rest),
                      rest[k][2] + d <= FrameAt(shifted, b, k)
               PROVE  shifted[k + d] = shifted[k] /\ rest[k + d][2] = rest[k][2] + d
    BY DEF Runs
  <2>1. k + d \in 1..Len(rest) /\ (k + d) + n = (k + n) + d /\ (k + n) + d <= Len(s)
    BY <1>1, <1>4
  <2>2. s[k + n][2] + d <= FrameAt(at, b, k + n)
    BY <1>2, <1>3 DEF FrameAt
  <2>3. at[(k + n) + d] = at[k + n] /\ s[(k + n) + d][2] = s[k + n][2] + d
    BY <1>4, <2>1, <2>2 DEF Frames, Runs
  <2> QED
    BY <1>2, <1>3, <2>1, <2>3
<1>7. Turns(shifted, rest, b)
  <2> SUFFICES ASSUME NEW k \in 1..(Len(rest) - 1), rest[k][2] = FrameAt(shifted, b, k)
               PROVE  shifted[k + 1] = shifted[k] + 1 /\ rest[k + 1][2] = 1
    BY DEF Turns
  <2>1. /\ k \in 1..Len(rest) /\ k + 1 \in 1..Len(rest)
        /\ k + n \in 1..(Len(s) - 1) /\ (k + 1) + n = (k + n) + 1
    <3> DEFINE l == Len(s)
               m == Len(rest)
    <3>1. l \in Nat /\ n \in Nat /\ n <= l /\ m = l - n
      BY <1>1, <1>4
    <3>2. k \in 1..(m - 1)
      OBVIOUS
    <3> HIDE DEF l, m
    <3>3. k \in 1..m /\ k + 1 \in 1..m /\ k + n \in 1..(l - 1) /\ (k + 1) + n = (k + n) + 1
      BY <3>1, <3>2
    <3> QED BY <3>3 DEF l, m
  <2>2. s[k + n][2] = FrameAt(at, b, k + n)
    BY <1>2, <1>3, <2>1 DEF FrameAt
  <2>3. at[(k + n) + 1] = at[k + n] + 1 /\ s[(k + n) + 1][2] = 1
    BY <2>1, <2>2 DEF Frames, Turns
  <2> QED
    BY <1>2, <1>3, <2>1, <2>3
<1> QED
  BY <1>1, <1>2, <1>3, <1>5, <1>6, <1>7 DEF Frames, rest

\* c is b, with more messages behind it or not, and ends with m.
Follows(b, c, m) ==
  /\ Len(b) <= Len(c) /\ \A k \in 1..Len(b) : c[k] = b[k]
  /\ c # <<>> /\ m = c[Len(c)]

\* The bytes from a + 1 on of the last message of c fit behind s.
Joins(at, s, b, c, a) ==
  s # <<>> =>
    \/ at[Len(s)] = Len(c) /\ s[Len(s)][2] = a
    \/ at[Len(s)] + 1 = Len(c) /\ s[Len(s)][2] = FrameAt(at, b, Len(s)) /\ a = 0

Grown(s, m, a, n) == s \o Bytes(m, a + 1, a + n)

\* A stream to which bytes of the message begun last are added is one.
LEMMA GrownIsFrames ==
  ASSUME NEW s \in Seq(Byte), NEW b \in Seq(Messages), NEW c \in Seq(Messages),
         NEW at \in [1..Len(s) -> Nat], NEW m \in Messages,
         NEW a \in Nat, NEW n \in Nat \ {0}, a + n <= FrameLength(m),
         Frames(at, s, b), Follows(b, c, m), Joins(at, s, b, c, a)
  PROVE  /\ Grown(s, m, a, n) \in Seq(Byte) /\ Len(Grown(s, m, a, n)) = Len(s) + n
         /\ Grown(s, m, a, n)[Len(s) + n] = <<m, a + n>>
         /\ s # <<>> => Grown(s, m, a, n)[1] = s[1]
         /\ s = <<>> => Grown(s, m, a, n)[1] = <<m, a + 1>>
         /\ \E longer \in [1..(Len(s) + n) -> Nat] :
              /\ longer[Len(s) + n] = Len(c)
              /\ s # <<>> => longer[1] = at[1]
              /\ s = <<>> => longer[1] = Len(c)
              /\ Frames(longer, Grown(s, m, a, n), c)
<1> DEFINE piece == Bytes(m, a + 1, a + n)
           grown == Grown(s, m, a, n)
           longer == [k \in 1..Len(grown) |-> IF k <= Len(s) THEN at[k] ELSE Len(c)]
           e == Len(s)
<1>0. /\ e = Len(s) /\ e \in Nat /\ Len(b) \in Nat /\ Len(c) \in Nat \ {0}
      /\ (s = <<>>) = (e = 0)
      /\ FrameLength(m) \in Nat
      /\ \A k \in 1..Len(b) : b[k] \in Messages /\ FrameLength(b[k]) \in Nat
      /\ \A k \in 1..e : s[k] \in Byte /\ s[k][2] \in Nat
  BY FrameLengths, SMTT(30) DEF Byte, Follows
<1>a. Len(b) <= Len(c) /\ (\A k \in 1..Len(b) : c[k] = b[k]) /\ c[Len(c)] = m
  BY DEF Follows
<1> HIDE DEF e
<1>1. /\ piece \in Seq(Byte) /\ Len(piece) = n
      /\ \A k \in 1..n : piece[k] = <<m, a + k>>
  <2>1. a + n \in Nat /\ a <= a + n /\ (a + n) - a = n
    OBVIOUS
  <2> QED
    BY <2>1, BytesAre, ZenonT(40)
<1> HIDE DEF piece, grown
<1>2. /\ grown \in Seq(Byte) /\ Len(grown) = e + n
      /\ \A k \in 1..e : grown[k] = s[k]
      /\ \A k \in e + 1..e + n : grown[k] = <<m, a + (k - e)>>
  <2>1. /\ grown \in Seq(Byte) /\ Len(grown) = e + n
        /\ \A k \in 1..e + n : grown[k] = IF k <= e THEN s[k] ELSE piece[k - e]
    <3>1. /\ grown \in Seq(Byte) /\ Len(grown) = Len(s) + Len(piece)
          /\ \A k \in 1..Len(s) + Len(piece) :
               grown[k] = IF k <= Len(s) THEN s[k] ELSE piece[k - Len(s)]
      BY <1>1, ConcatProperties DEF piece, grown, Grown
    <3> QED
      BY <1>0, <1>1, <3>1
  <2>2. \A k \in e + 1..e + n : k - e \in 1..n /\ k \in 1..e + n /\ ~(k <= e)
    BY <1>0
  <2>3. \A k \in 1..e : k \in 1..e + n /\ k <= e
    BY <1>0
  <2> QED
    BY <1>1, <2>1, <2>2, <2>3
<1>3. /\ longer \in [1..e + n -> Nat]
      /\ \A k \in 1..e : longer[k] = at[k]
      /\ \A k \in e + 1..e + n : longer[k] = Len(c)
  BY <1>0, <1>2
<1> HIDE DEF longer
<1>4. \A k \in 1..e :
        /\ at[k] \in 1..Len(b) /\ at[k] \in 1..Len(c)
        /\ s[k][1] = b[at[k]] /\ s[k][2] \in 1..FrameAt(at, b, k)
        /\ FrameAt(longer, c, k) = FrameAt(at, b, k)
        /\ FrameAt(at, b, k) \in Nat
  BY <1>0, <1>a, <1>3 DEF Frames, Placed, FrameAt
<1>5. \A k \in e + 1..e + n :
        /\ FrameAt(longer, c, k) = FrameLength(m)
        /\ grown[k][1] = m /\ grown[k][2] = a + (k - e)
        /\ k - e \in 1..n
  <2> SUFFICES ASSUME NEW k \in e + 1..e + n
               PROVE  /\ FrameAt(longer, c, k) = FrameLength(m)
                      /\ grown[k][1] = m /\ grown[k][2] = a + (k - e)
                      /\ k - e \in 1..n
    OBVIOUS
  <2>1. longer[k] = Len(c) /\ grown[k] = <<m, a + (k - e)>>
    BY <1>2, <1>3
  <2>2. k - e \in 1..n
    BY <1>0
  <2> QED
    BY <1>a, <2>1, <2>2 DEF FrameAt
<1>6. \A k \in 1..e + n : k \in 1..e \/ k \in e + 1..e + n
  BY <1>0
<1>7. Placed(longer, grown, c)
  <2> SUFFICES ASSUME NEW k \in 1..e + n
               PROVE  /\ longer[k] \in 1..Len(c)
                      /\ grown[k][1] = c[longer[k]]
                      /\ grown[k][2] \in 1..FrameAt(longer, c, k)
    BY <1>2 DEF Placed
  <2>1. CASE k \in 1..e
    BY <1>0, <1>a, <1>2, <1>3, <1>4, <2>1, SMTT(30)
  <2>2. CASE k \in e + 1..e + n
    BY <1>0, <1>a, <1>3, <1>5, <2>2, SMTT(30)
  <2> QED
    BY <1>6, <2>1, <2>2
<1>8. Runs(longer, grown, c)
  <2> SUFFICES ASSUME NEW k \in 1..e + n, NEW d \in Nat, k + d <= e + n,
                      grown[k][2] + d <= FrameAt(longer, c, k)
               PROVE  longer[k + d] = longer[k] /\ grown[k + d][2] = grown[k][2] + d
    BY <1>2 DEF Runs
  <2>1. CASE k \in e + 1..e + n
    <3>1. k + d \in e + 1..e + n /\ a + ((k + d) - e) = (a + (k - e)) + d
      <4>1. e \in Nat /\ k \in Nat
        BY <1>0, <2>1
      <4>2. k + d \in e + 1..e + n
        BY <1>0, <2>1
      <4>3. a + ((k + d) - e) = (a + (k - e)) + d
        BY <4>1
      <4> QED
        BY <4>2, <4>3
    <3>2. longer[k + d] = Len(c) /\ longer[k] = Len(c)
      BY <1>3, <2>1, <3>1
    <3>3. grown[k + d][2] = a + ((k + d) - e) /\ grown[k][2] = a + (k - e)
      BY <1>5, <2>1, <3>1
    <3> QED
      BY <3>1, <3>2, <3>3
  <2>2. CASE k \in 1..e /\ k + d <= e
    <3>1. k + d \in 1..e
      BY <1>0, <2>2
    <3>2. s[k][2] + d <= FrameAt(at, b, k)
      BY <1>2, <1>4, <2>2
    <3>3. at[k + d] = at[k] /\ s[k + d][2] = s[k][2] + d
      BY <1>0, <2>2, <3>2 DEF Frames, Runs
    <3> QED
      BY <1>2, <1>3, <2>2, <3>1, <3>3
  <2>3. CASE k \in 1..e /\ k + d > e
    <3>1. e - k \in Nat /\ k + (e - k) = e /\ e - k < d /\ e \in 1..e /\ s # <<>>
      BY <1>0, <2>3
    <3>2. s[k][2] + d <= FrameAt(at, b, k) /\ s[k][2] \in Nat /\ FrameAt(at, b, k) \in Nat
      BY <1>0, <1>2, <1>4, <2>3
    <3>3. s[k][2] + (e - k) <= FrameAt(at, b, k) /\ s[k][2] + (e - k) < FrameAt(at, b, k)
      <4> DEFINE x == s[k][2]
                 y == FrameAt(at, b, k)
      <4>1. x \in Nat /\ y \in Nat /\ x + d <= y /\ e - k \in Nat /\ e - k < d
        BY <3>1, <3>2
      <4> HIDE DEF x, y
      <4>2. x + (e - k) <= y /\ x + (e - k) < y
        BY <4>1
      <4> QED BY <4>2 DEF x, y
    <3>4. at[e] = at[k] /\ s[e][2] = s[k][2] + (e - k)
      BY <1>0, <2>3, <3>1, <3>3 DEF Frames, Runs
    <3>5. FrameAt(at, b, e) = FrameAt(at, b, k)
      BY <3>4 DEF FrameAt
    <3>6. at[e] = Len(c) /\ s[e][2] = a
      BY <3>1, <3>3, <3>4, <3>5, <1>0, SMTT(30) DEF Joins
    <3>7. k + d \in e + 1..e + n
      BY <1>0, <2>3
    <3>8. a + ((k + d) - e) = s[k][2] + d
      <4> DEFINE i == s[k][2]
      <4>1. a = i + (e - k) /\ i \in Nat /\ e \in Nat /\ k \in Nat
        BY <1>0, <2>3, <3>2, <3>4, <3>6, SMTT(30)
      <4> HIDE DEF i
      <4>2. a + ((k + d) - e) = i + d
        BY <4>1
      <4> QED
        BY <4>2 DEF i
    <3> QED
      BY <1>2, <1>3, <1>5, <2>3, <3>4, <3>6, <3>7, <3>8
  <2> QED
    BY <1>0, <1>6, <2>1, <2>2, <2>3
<1>9. Turns(longer, grown, c)
  <2> SUFFICES ASSUME NEW k \in 1..(e + n) - 1, grown[k][2] = FrameAt(longer, c, k)
               PROVE  longer[k + 1] = longer[k] + 1 /\ grown[k + 1][2] = 1
    BY <1>2 DEF Turns
  <2>1. CASE k \in 1..e - 1
    <3>1. k \in 1..e /\ k + 1 \in 1..e
      BY <1>0, <2>1
    <3>2. s[k][2] = FrameAt(at, b, k)
      BY <1>2, <1>4, <3>1
    <3>3. at[k + 1] = at[k] + 1 /\ s[k + 1][2] = 1
      BY <1>0, <2>1, <3>2 DEF Frames, Turns
    <3> QED
      BY <1>2, <1>3, <3>1, <3>3
  <2>2. CASE k = e /\ e > 0
    <3>1. k \in 1..e /\ k + 1 \in e + 1..e + n /\ s # <<>> /\ (k + 1) - e = 1
      BY <1>0, <2>2
    <3>2. s[e][2] = FrameAt(at, b, e) /\ s[e][2] \in Nat
      BY <1>0, <1>2, <1>4, <2>2, <3>1
    <3>3. ~(at[e] = Len(c) /\ s[e][2] = a)
      <4>1. SUFFICES ASSUME at[e] = Len(c), s[e][2] = a PROVE FALSE
        OBVIOUS
      <4>2. FrameAt(at, b, e) = FrameLength(m)
        BY <1>a, <1>4, <3>1, <2>2, <4>1, <1>3 DEF FrameAt
      <4>3. a = FrameLength(m) /\ FrameLength(m) \in Nat
        BY <1>0, <3>2, <4>1, <4>2
      <4> QED
        BY <4>3
    <3>4. at[e] + 1 = Len(c) /\ a = 0
      BY <1>0, <3>1, <3>3 DEF Joins
    <3>5. longer[e] = at[e] /\ longer[e + 1] = Len(c)
      BY <1>3, <2>2, <3>1
    <3>6. grown[e + 1][2] = a + ((e + 1) - e)
      BY <1>5, <2>2, <3>1
    <3> QED
      BY <2>2, <3>1, <3>4, <3>5, <3>6
  <2>3. CASE k \in e + 1..(e + n) - 1
    <3>1. k \in e + 1..e + n /\ k - e < n
      BY <1>0, <2>3
    <3> QED
      BY <1>0, <1>5, <3>1
  <2> QED
    BY <1>0, <2>1, <2>2, <2>3
<1>10. /\ grown[e + n] = <<m, a + n>> /\ longer[e + n] = Len(c)
       /\ s # <<>> => grown[1] = s[1] /\ longer[1] = at[1]
       /\ s = <<>> => grown[1] = <<m, a + 1>> /\ longer[1] = Len(c)
  <2>1. e + n \in e + 1..e + n /\ (e + n) - e = n /\ (e = 0 => 1 \in e + 1..e + n /\ 1 - e = 1)
    BY <1>0
  <2>2. grown[e + n] = <<m, a + n>> /\ longer[e + n] = Len(c)
    BY <1>2, <1>3, <2>1
  <2>3. CASE e = 0
    BY <1>0, <1>2, <1>3, <2>1, <2>2, <2>3
  <2>4. CASE e # 0
    <3>1. 1 \in 1..e
      BY <1>0, <2>4
    <3> QED
      BY <1>0, <1>2, <1>3, <2>2, <2>4, <3>1
  <2> QED
    BY <2>3, <2>4
<1> QED
  <2>1. Frames(longer, grown, c)
    BY <1>7, <1>8, <1>9 DEF Frames
  <2>2. longer \in [1..Len(grown) -> Nat] /\ Len(grown) = Len(s) + n
    BY <1>0, <1>2, <1>3
  <2> QED
    BY <1>0, <1>2, <1>10, <2>1, <2>2 DEF grown

-----------------------------------------------------------------------------
(* Types and sizes.                                                        *)

\* A message whose length is known is not complete, and has a byte at least; of one
\* whose length is not known nothing is stored.
SizeInv ==
  IF size = Unknown THEN buffer = <<>> ELSE size \in Nat \ {0} /\ Len(buffer) < size

Plain == TypeOK /\ SizeInv

LEMMA LeastIs ==
  ASSUME NEW i \in Nat, NEW j \in Nat
  PROVE  Least(i, j) \in Nat /\ Least(i, j) <= i /\ Least(i, j) <= j
BY DEF Least

LEMMA CurrentIs ==
  ASSUME TypeOK, NEW w \in Senders, todo[w] # <<>>
  PROVE  /\ Current(w) \in Messages
         /\ FrameLength(Current(w)) \in Nat /\ FrameLength(Current(w)) >= PrefixBytes
         /\ Tail(todo[w]) \in Seq(Messages)
<1>1. todo[w] \in Seq(Messages)
  BY DEF TypeOK
<1>2. Head(todo[w]) \in Messages /\ Tail(todo[w]) \in Seq(Messages)
  BY <1>1
<1> QED
  BY <1>2, FrameLengths DEF Current

LEMMA DecodedIs ==
  ASSUME NEW b
  PROVE  Decoded(b) \in Messages \union {Garbage}
BY DEF Decoded

LEMMA PlainInit == Init => Plain
<1> SUFFICES ASSUME Init PROVE Plain
  OBVIOUS
<1>1. Todos \subseteq Seq(Messages)
  BY FramingAssumption DEF Todos
<1>2. todo \in [Senders -> Seq(Messages)]
  <2>1. todo \in [Senders -> Todos]
    BY DEF Init
  <2> QED
    BY <1>1, <2>1
<1>3. put \in [Senders -> Nat] /\ way \in {"request", "reply"}
  BY DEF Init
<1>4. wire \in Seq(Messages \X Nat) /\ buffer \in Seq(Messages \X Nat)
  BY DEF Init
<1>5. begun \in Seq(Messages) /\ received \in Seq(Messages \union {Garbage})
  BY DEF Init
<1>6. /\ section \in Senders \union {Nobody} /\ size \in Nat \union {Unknown}
      /\ reader \in {"receives", "answers", "silent", "ended", "spins"} /\ closed \in BOOLEAN /\ broken \in BOOLEAN
      /\ size = Unknown /\ buffer = <<>>
  BY DEF Init
<1> QED
  BY <1>2, <1>3, <1>4, <1>5, <1>6 DEF Plain, TypeOK, SizeInv

LEMMA PlainStep == Plain /\ [Next]_vars => Plain'
<1> SUFFICES ASSUME Plain, [Next]_vars PROVE Plain'
  OBVIOUS
<1> USE DEF Plain
<1>1. ASSUME NEW w \in Senders, Enter(w) PROVE Plain'
  BY <1>1 DEF Enter, TypeOK, SizeInv, receiving
<1>2. ASSUME NEW w \in Senders, PutLength(w) PROVE Plain'
  <2>1. Current(w) \in Messages
    BY <1>2, CurrentIs DEF PutLength, MaySend, Sending
  <2>2. 0 + 1 = 1 /\ 0 <= PrefixBytes /\ PrefixBytes \in Nat
    BY FramingAssumption
  <2>3. Bytes(Current(w), 1, PrefixBytes) \in Seq(Byte)
    <3>1. Bytes(Current(w), 0 + 1, PrefixBytes) \in Seq(Byte)
      BY <2>1, <2>2, BytesAre
    <3> QED
      BY <2>2, <3>1
  <2>4. wire' \in Seq(Messages \X Nat)
    <3>1. wire \in Seq(Byte)
      BY DEF TypeOK, Byte
    <3>2. wire \o Bytes(Current(w), 1, PrefixBytes) \in Seq(Byte)
      BY <2>3, <3>1, ConcatProperties
    <3> QED
      BY <1>2, <3>1, <3>2 DEF PutLength, Byte
  <2>5. begun' \in Seq(Messages)
    BY <1>2, <2>1 DEF PutLength, TypeOK
  <2> QED
    BY <1>2, <2>2, <2>4, <2>5 DEF PutLength, TypeOK, SizeInv, receiving
<1>3. ASSUME NEW w \in Senders, PutPiece(w) PROVE Plain'
  <2>1. Current(w) \in Messages /\ FrameLength(Current(w)) \in Nat
    BY <1>3, CurrentIs DEF PutPiece, MaySend, Sending
  <2>2. PICK n \in 1..Least(Buffer, FrameLength(Current(w)) - put[w]) :
          /\ wire' = wire \o Bytes(Current(w), put[w] + 1, put[w] + n)
          /\ put' = [put EXCEPT ![w] = @ + n]
    BY <1>3 DEF PutPiece
  <2>3. put[w] \in Nat /\ n \in Nat
    BY <2>2 DEF TypeOK
  <2>4. Bytes(Current(w), put[w] + 1, put[w] + n) \in Seq(Byte)
    <3> DEFINE i == put[w]
               j == put[w] + n
               m == Current(w)
    <3>1. i \in Nat /\ j \in Nat /\ i <= j /\ m \in Messages
      BY <2>1, <2>3
    <3> HIDE DEF i, j, m
    <3>2. Bytes(m, i + 1, j) \in Seq(Byte)
      BY <3>1, BytesAre
    <3> QED
      BY <3>2 DEF i, j, m
  <2> QED
    BY <1>3, <2>2, <2>3, <2>4, SMTT(30)
       DEF PutPiece, TypeOK, SizeInv, receiving, Byte
<1>4. ASSUME NEW w \in Senders, Finish(w) PROVE Plain'
  <2>1. Tail(todo[w]) \in Seq(Messages)
    BY <1>4, CurrentIs DEF Finish, MaySend, Sending
  <2> QED
    BY <1>4, <2>1 DEF Finish, TypeOK, SizeInv, receiving
<1>5. CASE ReceiveLength
  <2> DEFINE m == wire[1][1]
  <2>1. wire # <<>> /\ wire \in Seq(Byte) /\ PrefixBytes \in Nat \ {0}
    BY <1>5, FramingAssumption DEF ReceiveLength, TypeOK, Byte
  <2>2. 1 \in 1..Len(wire) /\ Len(wire) \in Nat
    BY <2>1
  <2>3. m \in Messages /\ Length[m] \in Nat
    BY <2>1, <2>2, FramingAssumption DEF Byte
  <2>4. ASSUME Len(wire) >= PrefixBytes
        PROVE  SubSeq(wire, PrefixBytes + 1, Len(wire)) \in Seq(Byte)
    BY <2>1, <2>2, <2>4, SubSeqProperties
  <2>5. /\ wire' \in Seq(Byte) /\ broken' \in BOOLEAN
        /\ \/ Received(Garbage)
           \/ Received(m)
           \/ Length[m] # 0 /\ size' = Length[m] /\ UNCHANGED <<buffer, reader, received>>
           \/ UNCHANGED receiving
    BY <1>5, <2>1, <2>4 DEF ReceiveLength, TypeOK, Byte
  <2> HIDE DEF m
  <2>6. ASSUME NEW r \in Messages \union {Garbage}, Received(r) PROVE Plain'
    BY <1>5, <2>5, <2>6 DEF Received, After, ReceiveLength, TypeOK, SizeInv, sending, Byte
  <2>7. ASSUME Length[m] # 0, size' = Length[m], UNCHANGED <<buffer, reader, received>> PROVE Plain'
    <3>1. Len(buffer) = 0
      BY <1>5 DEF ReceiveLength, SizeInv
    <3> QED
      BY <1>5, <2>3, <2>5, <2>7 DEF ReceiveLength, TypeOK, SizeInv, sending, Byte
  <2>8. ASSUME UNCHANGED receiving PROVE Plain'
    BY <1>5, <2>5, <2>8 DEF ReceiveLength, TypeOK, SizeInv, sending, receiving, Byte
  <2> QED
    BY <2>3, <2>5, <2>6, <2>7, <2>8
<1>6. CASE ReceivePiece
  <2>1. PICK n \in 1..Least(Wanted, Len(wire)) :
          /\ wire' = SubSeq(wire, n + 1, Len(wire))
          /\ LET stored == buffer \o SubSeq(wire, 1, n)
             IN IF Len(stored) >= size
                  THEN Received(Decoded(stored))
                  ELSE buffer' = stored /\ UNCHANGED <<size, reader, received>>
    BY <1>6 DEF ReceivePiece
  <2> DEFINE stored == buffer \o SubSeq(wire, 1, n)
  <2>2. /\ wire \in Seq(Byte) /\ buffer \in Seq(Byte) /\ Len(wire) \in Nat
        /\ size \in Nat \ {0} /\ size # Unknown
    BY <1>6 DEF ReceivePiece, TypeOK, SizeInv, Byte
  <2>3. Wanted \in Nat /\ n \in 1..Len(wire)
    <3>1. size - Len(buffer) \in Nat /\ Buffer \in Nat
      BY <2>2, FramingAssumption DEF SizeInv
    <3>2. Wanted \in Nat
      BY <3>1, LeastIs DEF Wanted
    <3>3. Least(Wanted, Len(wire)) \in Nat /\ Least(Wanted, Len(wire)) <= Len(wire)
      BY <2>2, <3>2, LeastIs
    <3> QED
      BY <2>1, <2>2, <3>2, <3>3
  <2>4. SubSeq(wire, n + 1, Len(wire)) \in Seq(Byte) /\ SubSeq(wire, 1, n) \in Seq(Byte)
    BY <2>2, <2>3, SubSeqProperties
  <2>5. stored \in Seq(Byte) /\ Len(stored) \in Nat
    BY <2>2, <2>4, ConcatProperties
  <2>6. IF Len(stored) >= size THEN Received(Decoded(stored))
          ELSE buffer' = stored /\ UNCHANGED <<size, reader, received>>
    BY <2>1
  <2> HIDE DEF stored
  <2>7. CASE Len(stored) >= size
    <3>1. Received(Decoded(stored)) /\ Decoded(stored) \in Messages \union {Garbage}
      BY <2>6, <2>7, DecodedIs
    <3>2. /\ received' \in Seq(Messages \union {Garbage}) /\ size' = Unknown /\ buffer' = <<>>
          /\ reader' \in {"receives", "answers", "silent", "ended", "spins"}
      BY <3>1 DEF Received, After, TypeOK
    <3>3. /\ wire' \in Seq(Messages \X Nat)
          /\ UNCHANGED <<way, todo, put, section, begun, closed, broken>>
      BY <1>6, <2>1, <2>4 DEF ReceivePiece, sending, Byte
    <3>4. buffer' \in Seq(Messages \X Nat)
      BY <3>2
    <3> QED
      BY <3>2, <3>3, <3>4 DEF TypeOK, SizeInv
  <2>8. CASE ~(Len(stored) >= size)
    <3>1. buffer' = stored /\ UNCHANGED <<size, reader, received>> /\ Len(stored) < size
      BY <2>2, <2>5, <2>6, <2>8
    <3> QED
      BY <1>6, <2>1, <2>2, <2>4, <2>5, <3>1 DEF ReceivePiece, TypeOK, SizeInv, sending, Byte
  <2> QED
    BY <2>7, <2>8
<1>7. CASE EndOfStream
  BY <1>7 DEF EndOfStream, TypeOK, SizeInv, sending
<1>8. CASE Close
  BY <1>8 DEF Close, TypeOK, SizeInv, sending, receiving
<1>9. CASE Answer
  BY <1>9 DEF Answer, TypeOK, SizeInv, sending
<1>10. CASE UNCHANGED vars
  BY <1>10 DEF vars, TypeOK, SizeInv, sending, receiving
<1> QED
  BY <1>1, <1>2, <1>3, <1>4, <1>5, <1>6, <1>7, <1>8, <1>9, <1>10 DEF Next, SendStep, ReceiveStep

\* What is in the stream and in the reader's memory are bytes of messages.
THEOREM TypesKept == Spec => []TypeOK
<1>1. Init => Plain
  BY PlainInit
<1>2. Plain /\ [Next]_vars => Plain'
  BY PlainStep
<1>3. Plain => TypeOK
  BY DEF Plain
<1> QED
  BY <1>1, <1>2, <1>3, PTL DEF Spec

\* The zero that ends a message is written into the memory allocated for it, in the
\* client except when the message fills its last buffer (ALIGNLENGHT, RecvProc, myRecv).
THEOREM FitsInBuffer == Spec => []WithinBuffer
<1>1. Plain => WithinBuffer
  <2> SUFFICES ASSUME Plain, size # Unknown
               PROVE  /\ Len(buffer) < size
                      /\ size < Allocated(size) \/ (way = "reply" /\ size % Buffer = 0)
    BY DEF WithinBuffer
  <2>1. size \in Nat \ {0} /\ Len(buffer) < size /\ Buffer \in Nat \ {0}
    BY FramingAssumption DEF Plain, SizeInv
  <2>2. CASE way = "request"
    <3>1. Allocated(size) = ((size + Buffer) \div Buffer) * Buffer
      <4>1. (size + 1) + Buffer - 1 = size + Buffer
        BY <2>1
      <4> QED
        BY <2>2, <4>1 DEF Allocated
    <3>2. ((size + Buffer) \div Buffer) * Buffer > size
      BY <2>1
    <3> QED
      BY <2>1, <3>1, <3>2
  <2>3. CASE way = "reply"
    <3> DEFINE q == (size + Buffer - 1) \div Buffer
    <3>1. Allocated(size) = q * Buffer
      BY <2>3 DEF Allocated
    <3>2. size - 1 \in Nat /\ (size - 1) + Buffer = size + Buffer - 1
      BY <2>1
    <3>3. (((size - 1) + Buffer) \div Buffer) * Buffer > size - 1
      BY <2>1, <3>2
    <3>4. q \in Nat /\ q * Buffer > size - 1
      BY <2>1, <3>2, <3>3
    <3> HIDE DEF q
    <3>5. q * Buffer > size \/ size = q * Buffer
      BY <2>1, <3>4
    <3>6. (q * Buffer) % Buffer = 0
      BY <2>1, <3>4
    <3> QED
      BY <2>1, <2>3, <3>1, <3>5, <3>6
  <2> QED
    BY <2>2, <2>3 DEF Plain, TypeOK
<1>2. Init => Plain
  BY PlainInit
<1>3. Plain /\ [Next]_vars => Plain'
  BY PlainStep
<1> QED
  BY <1>1, <1>2, <1>3, PTL DEF Spec

-----------------------------------------------------------------------------
(* What is under way.                                                      *)

\* The message the reader gets next, and how much of its frame it has.
Coming == begun[Len(received) + 1]
Reading == IF size = Unknown THEN 0 ELSE PrefixBytes + Len(buffer)

\* Only one side sends; who is in the middle of a frame began it last, and is in the
\* section.
SenderInv ==
  /\ way = "request" => todo[Worker] = <<>>
  /\ way = "reply" => \A w \in Clients : todo[w] = <<>>
  /\ \A w \in Senders :
       put[w] > 0 =>
         /\ todo[w] # <<>> /\ begun # <<>> /\ begun[Len(begun)] = Current(w)
         /\ put[w] \in PrefixBytes..FrameLength(Current(w))
         /\ w \in Clients => section = w

\* What was received is what was begun first, and what is stored begins the next.
ReaderInv ==
  /\ Len(received) <= Len(begun)
  /\ \A k \in 1..Len(received) : received[k] = begun[k]
  /\ size # Unknown =>
       /\ Len(received) < Len(begun)
       /\ size = Length[Coming]
       /\ \A k \in 1..Len(buffer) : buffer[k] = <<Coming, PrefixBytes + k>>

\* The first byte is the one the reader needs, and the last the one sent last.
Ends(at) ==
  wire # <<>> =>
    /\ at[1] = Len(received) + 1 /\ wire[1][2] = Reading + 1
    /\ at[Len(wire)] = Len(begun)
    /\ \A w \in Senders : put[w] > 0 => wire[Len(wire)][2] = put[w]
    /\ (\A w \in Senders : put[w] = 0) =>
         wire[Len(wire)][2] = FrameLength(begun[Len(begun)])

Stream(at) == Frames(at, wire, begun) /\ Ends(at)

\* When the stream is empty, the reader has what has been sent.
Empty ==
  wire = <<>> =>
    IF size = Unknown
    THEN /\ Len(received) = Len(begun)
         /\ \A w \in Senders : put[w] > 0 => put[w] = FrameLength(Current(w))
    ELSE /\ Len(begun) = Len(received) + 1
         /\ \E w \in Senders : put[w] = Reading

InStep ==
  /\ SenderInv /\ ReaderInv /\ Empty
  /\ \E at \in [1..Len(wire) -> Nat] : Stream(at)

\* One sender at a time is in the middle of a frame.
LEMMA OneSends ==
  ASSUME Plain, SenderInv, NEW w \in Senders, MaySend(w), NEW v \in Senders, v # w
  PROVE  put[v] = 0
<1>1. put[v] \in Nat /\ way \in {"request", "reply"}
  BY DEF Plain, TypeOK
<1> SUFFICES ASSUME put[v] > 0 PROVE FALSE
  BY <1>1
<1>2. todo[v] # <<>> /\ (v \in Clients => section = v)
  BY DEF SenderInv
<1>3. todo[w] # <<>> /\ (w \in Clients => section = w)
  BY DEF MaySend, Sending
<1>4. (v \in Clients /\ w = Worker) \/ (w \in Clients /\ v = Worker)
  BY <1>2, <1>3 DEF Senders
<1> QED
  BY <1>1, <1>2, <1>3, <1>4 DEF SenderInv

GoesOn(w, n) ==
  /\ MaySend(w)
  /\ put[w] + n \in PrefixBytes..FrameLength(Current(w))
  /\ wire' = Grown(wire, Current(w), put[w], n)
  /\ put' = [put EXCEPT ![w] = put[w] + n]
  /\ IF put[w] = 0 THEN begun' = Append(begun, Current(w)) ELSE begun' = begun
  /\ UNCHANGED <<way, todo, section, size, buffer, received>>

\* A sender that goes on with its frame, or begins one, keeps the stream in step.
LEMMA SendsOn ==
  ASSUME Plain, Plain', InStep, NEW w \in Senders, NEW n \in Nat \ {0}, GoesOn(w, n)
  PROVE  InStep'
<1> DEFINE m == Current(w)
           a == put[w]
<1>1. /\ todo[w] # <<>> /\ m \in Messages /\ FrameLength(m) \in Nat
      /\ a \in Nat /\ a + n <= FrameLength(m)
  BY CurrentIs DEF Plain, TypeOK, MaySend, Sending, GoesOn
<1>2. /\ \A v \in Senders : v # w => put[v] = 0 /\ put'[v] = 0
      /\ put'[w] = a + n
  <2>1. \A v \in Senders : v # w => put[v] = 0
    BY OneSends DEF InStep, GoesOn
  <2> QED
    BY <2>1 DEF Plain, TypeOK, GoesOn
<1>3. /\ begun \in Seq(Messages) /\ begun' \in Seq(Messages)
      /\ Len(begun) \in Nat /\ Len(begun') \in Nat /\ Len(begun) <= Len(begun')
      /\ \A k \in 1..Len(begun) : begun'[k] = begun[k]
      /\ begun' # <<>> /\ begun'[Len(begun')] = m
      /\ a = 0 => Len(begun') = Len(begun) + 1
      /\ a > 0 => begun' = begun
  <2>1. begun \in Seq(Messages) /\ begun' \in Seq(Messages) /\ Len(begun) \in Nat
    BY DEF Plain, TypeOK
  <2>2. CASE a = 0
    <3>1. begun' = Append(begun, m)
      BY <2>2 DEF GoesOn
    <3>2. /\ Len(begun') = Len(begun) + 1 /\ begun'[Len(begun) + 1] = m
          /\ \A k \in 1..Len(begun) : begun'[k] = begun[k]
      BY <1>1, <2>1, <3>1, AppendProperties
    <3>3. begun' # <<>>
      BY <2>1, <3>2
    <3> QED
      BY <2>1, <2>2, <3>2, <3>3
  <2>3. CASE a > 0
    <3>1. begun' = begun /\ begun # <<>> /\ begun[Len(begun)] = m
      BY <1>1, <2>3 DEF InStep, SenderInv, GoesOn
    <3> QED
      BY <2>1, <2>3, <3>1
  <2> QED
    BY <1>1, <2>2, <2>3
<1>4. PICK at \in [1..Len(wire) -> Nat] : Stream(at)
  BY DEF InStep
<1>5. wire \in Seq(Byte) /\ Len(wire) \in Nat
  <2>1. wire \in Seq(Byte)
    BY DEF Plain, TypeOK, Byte
  <2> QED
    BY <2>1
<1>6. Joins(at, wire, begun, begun', a)
  <2> SUFFICES ASSUME wire # <<>>
               PROVE  \/ at[Len(wire)] = Len(begun') /\ wire[Len(wire)][2] = a
                      \/ /\ at[Len(wire)] + 1 = Len(begun')
                         /\ wire[Len(wire)][2] = FrameAt(at, begun, Len(wire)) /\ a = 0
    BY DEF Joins
  <2>1. CASE a = 0
    <3>1. \A v \in Senders : put[v] = 0
      BY <1>2, <2>1
    <3> QED
      BY <1>3, <1>4, <2>1, <3>1 DEF Stream, Ends, FrameAt
  <2>2. CASE a > 0
    BY <1>3, <1>4, <2>2 DEF Stream, Ends
  <2> QED
    BY <1>1, <2>1, <2>2
<1>7. /\ wire' \in Seq(Byte) /\ Len(wire') = Len(wire) + n
      /\ wire'[Len(wire')] = <<m, a + n>>
      /\ wire # <<>> => wire'[1] = wire[1]
      /\ wire = <<>> => wire'[1] = <<m, a + 1>>
      /\ \E longer \in [1..Len(wire') -> Nat] :
           /\ longer[Len(wire')] = Len(begun')
           /\ wire # <<>> => longer[1] = at[1]
           /\ wire = <<>> => longer[1] = Len(begun')
           /\ Frames(longer, wire', begun')
  <2>1. Frames(at, wire, begun)
    BY <1>4 DEF Stream
  <2> HIDE DEF m, a
  <2>2. wire' = Grown(wire, m, a, n)
    BY DEF m, a, GoesOn
  <2>3. /\ m \in Messages /\ a \in Nat /\ a + n <= FrameLength(m)
        /\ Follows(begun, begun', m)
        /\ wire \in Seq(Byte) /\ begun \in Seq(Messages) /\ begun' \in Seq(Messages)
        /\ at \in [1..Len(wire) -> Nat]
    BY <1>1, <1>3, <1>5 DEF Follows
  <2>4. /\ Grown(wire, m, a, n) \in Seq(Byte) /\ Len(Grown(wire, m, a, n)) = Len(wire) + n
        /\ Grown(wire, m, a, n)[Len(wire) + n] = <<m, a + n>>
        /\ wire # <<>> => Grown(wire, m, a, n)[1] = wire[1]
        /\ wire = <<>> => Grown(wire, m, a, n)[1] = <<m, a + 1>>
        /\ \E longer \in [1..(Len(wire) + n) -> Nat] :
             /\ longer[Len(wire) + n] = Len(begun')
             /\ wire # <<>> => longer[1] = at[1]
             /\ wire = <<>> => longer[1] = Len(begun')
             /\ Frames(longer, Grown(wire, m, a, n), begun')
    <3>1. n \in Nat \ {0} /\ Joins(at, wire, begun, begun', a)
      BY <1>6
    <3> QED
      BY <2>1, <2>3, <3>1, GrownIsFrames, ZenonT(40)
  <2> QED
    BY <2>2, <2>4
<1> HIDE DEF m, a
<1> PICK longer \in [1..Len(wire') -> Nat] :
           /\ longer[Len(wire')] = Len(begun')
           /\ wire # <<>> => longer[1] = at[1]
           /\ wire = <<>> => longer[1] = Len(begun')
           /\ Frames(longer, wire', begun')
  BY <1>7
<1>8. Reading' = Reading /\ Len(received') = Len(received)
  BY DEF Reading, GoesOn
<1>9. longer[1] = Len(received) + 1 /\ wire'[1][2] = Reading + 1
  <2>1. CASE wire # <<>>
    BY <1>4, <1>7, <2>1 DEF Stream, Ends
  <2>2. CASE wire = <<>> /\ size = Unknown
    <3>1. Len(received) = Len(begun) /\ (a > 0 => a = FrameLength(m))
      BY <2>2 DEF InStep, Empty, a, m
    <3>2. a = 0
      BY <1>1, <3>1
    <3> QED
      BY <1>3, <1>7, <2>2, <3>1, <3>2 DEF Reading
  <2>3. CASE wire = <<>> /\ size # Unknown
    <3>1. Len(begun) = Len(received) + 1
      BY <2>3 DEF InStep, Empty
    <3>2. PICK v \in Senders : put[v] = Reading
      BY <2>3 DEF InStep, Empty
    <3>3. Reading > 0
      BY <2>3, FramingAssumption DEF Reading, Plain, TypeOK
    <3>4. a = Reading /\ a > 0
      BY <1>2, <3>2, <3>3 DEF a
    <3> QED
      BY <1>3, <1>7, <2>3, <3>1, <3>4
  <2> QED
    BY <2>1, <2>2, <2>3
<1>10. Stream(longer)'
  <2>1. wire'[Len(wire')][2] = a + n /\ a + n > 0
    BY <1>1, <1>7
  <2>2. ~(\A v \in Senders : put'[v] = 0)
    BY <1>2, <2>1
  <2>3. ASSUME NEW v \in Senders, put'[v] > 0
        PROVE  wire'[Len(wire')][2] = put'[v]
    <3>1. v = w
      BY <1>2, <2>3
    <3> QED
      BY <1>2, <2>1, <3>1
  <2>4. Ends(longer)'
    BY <1>7, <1>8, <1>9, <2>2, <2>3 DEF Ends
  <2> QED
    BY <1>7, <2>4 DEF Stream
<1>11. Empty'
  <2>1. wire' # <<>>
    BY <1>5, <1>7
  <2> QED
    BY <2>1 DEF Empty
<1>12. SenderInv'
  <2>1. \A v \in Senders : Current(v)' = Current(v)
    BY DEF Current, GoesOn
  <2>2. w \in Clients => section = w
    BY DEF MaySend, GoesOn
  <2>3. \A v \in Senders : put'[v] > 0 => v = w
    BY <1>2
  <2> QED
    BY <1>1, <1>2, <1>3, <2>1, <2>2, <2>3 DEF SenderInv, InStep, GoesOn, m, a
<1>13. ReaderInv'
  <2>1. Len(received) <= Len(begun') /\ \A k \in 1..Len(received) : received[k] = begun'[k]
    <3>1. Len(received) \in Nat /\ Len(received) <= Len(begun)
      BY DEF InStep, ReaderInv, Plain, TypeOK
    <3>2. \A k \in 1..Len(received) : k \in 1..Len(begun)
      BY <1>3, <3>1
    <3>3. \A k \in 1..Len(received) : received[k] = begun[k]
      BY DEF InStep, ReaderInv
    <3> QED
      BY <1>3, <3>1, <3>2, <3>3
  <2>2. ASSUME size # Unknown
        PROVE  /\ Len(received) < Len(begun') /\ Coming' = Coming
               /\ size = Length[Coming]
               /\ \A k \in 1..Len(buffer) : buffer[k] = <<Coming, PrefixBytes + k>>
    <3>1. Len(received) < Len(begun) /\ Len(received) \in Nat
      BY <2>2 DEF InStep, ReaderInv, Plain, TypeOK
    <3>2. Len(received) + 1 \in 1..Len(begun)
      BY <1>3, <3>1
    <3> QED
      <4>1. received' = received /\ begun'[Len(received) + 1] = begun[Len(received) + 1]
        BY <1>3, <3>2 DEF GoesOn
      <4>2. Coming' = Coming
        BY <4>1 DEF Coming
      <4> QED
        BY <1>3, <2>2, <3>1, <4>2 DEF InStep, ReaderInv
  <2> QED
    BY <2>1, <2>2 DEF ReaderInv, GoesOn
<1> QED
  BY <1>7, <1>10, <1>11, <1>12, <1>13 DEF InStep

\* The stream begins with the next bytes of the message that is coming.
LEMMA TakenBytes ==
  ASSUME Plain, InStep, NEW at \in [1..Len(wire) -> Nat], Stream(at),
         NEW n \in 1..Len(wire), Reading + n <= FrameLength(Coming)
  PROVE  \A k \in 1..n :
           at[k] = Len(received) + 1 /\ wire[k] = <<Coming, Reading + k>>
<1>1. /\ wire \in Seq(Byte) /\ Len(wire) \in Nat /\ wire # <<>> /\ n \in Nat /\ 1 \in 1..Len(wire)
      /\ Len(received) \in Nat
  BY DEF Plain, TypeOK, Byte
<1>2. Reading \in Nat
  BY FramingAssumption DEF Reading, Plain, TypeOK
<1>3. at[1] = Len(received) + 1 /\ wire[1][2] = Reading + 1
  BY <1>1 DEF Stream, Ends
<1>4. FrameAt(at, begun, 1) = FrameLength(Coming)
  BY <1>3 DEF FrameAt, Coming
<1>5. FrameLength(Coming) \in Nat
  <2>1. at[1] \in 1..Len(begun) /\ begun \in Seq(Messages)
    BY <1>1 DEF Stream, Frames, Placed, Plain, TypeOK
  <2>2. Coming \in Messages
    BY <1>3, <2>1 DEF Coming
  <2> QED
    BY <2>2, FrameLengths
<1> SUFFICES ASSUME NEW k \in 1..n
             PROVE  at[k] = Len(received) + 1 /\ wire[k] = <<Coming, Reading + k>>
  OBVIOUS
<1>6. /\ k - 1 \in Nat /\ 1 + (k - 1) = k /\ k \in 1..Len(wire)
      /\ (Reading + 1) + (k - 1) = Reading + k /\ Reading + k <= FrameLength(Coming)
  BY <1>1, <1>2, <1>5
<1>7. 1 + (k - 1) <= Len(wire) /\ wire[1][2] + (k - 1) <= FrameAt(at, begun, 1)
  BY <1>1, <1>3, <1>4, <1>6
<1>8. at[1 + (k - 1)] = at[1] /\ wire[1 + (k - 1)][2] = wire[1][2] + (k - 1)
  BY <1>1, <1>6, <1>7 DEF Stream, Frames, Runs
<1>9. at[k] = Len(received) + 1 /\ wire[k][2] = Reading + k
  BY <1>3, <1>6, <1>8
<1>10. wire[k][1] = Coming /\ wire[k] \in Byte
  BY <1>1, <1>6, <1>9, SMTT(30) DEF Stream, Frames, Placed, Coming
<1> QED
  BY <1>9, <1>10 DEF Byte

\* What comes behind them.
LEMMA TakenRest ==
  ASSUME Plain, InStep, NEW at \in [1..Len(wire) -> Nat], Stream(at),
         NEW n \in 1..Len(wire), Reading + n <= FrameLength(Coming)
  PROVE  /\ Coming \in Messages /\ FrameLength(Coming) \in Nat
         /\ Len(received) \in Nat /\ Len(received) < Len(begun) /\ Reading \in Nat
         /\ n < Len(wire) =>
              IF Reading + n = FrameLength(Coming)
              THEN at[n + 1] = Len(received) + 2 /\ wire[n + 1][2] = 1
              ELSE at[n + 1] = Len(received) + 1 /\ wire[n + 1][2] = Reading + n + 1
         /\ n = Len(wire) =>
              /\ Len(begun) = Len(received) + 1
              /\ \A w \in Senders : put[w] > 0 => put[w] = Reading + n
              /\ (\A w \in Senders : put[w] = 0) => Reading + n = FrameLength(Coming)
<1>1. /\ Len(wire) \in Nat /\ wire # <<>> /\ n \in Nat /\ n \in 1..n /\ 1 \in 1..Len(wire)
      /\ Len(received) \in Nat /\ begun \in Seq(Messages) /\ Len(begun) \in Nat
  <2>1. wire \in Seq(Messages \X Nat) /\ begun \in Seq(Messages)
    BY DEF Plain, TypeOK
  <2>2. received \in Seq(Messages \union {Garbage})
    BY DEF Plain, TypeOK
  <2> QED
    BY <2>1, <2>2
<1>2. Reading \in Nat
  BY FramingAssumption DEF Reading, Plain, TypeOK
<1>3. at[n] = Len(received) + 1 /\ wire[n][2] = Reading + n
  <2>1. at[n] = Len(received) + 1 /\ wire[n] = <<Coming, Reading + n>>
    BY <1>1, TakenBytes
  <2> QED
    BY <2>1
<1>4. at[n] \in 1..Len(begun)
  BY <1>1 DEF Stream, Frames, Placed
<1>5. Coming \in Messages /\ FrameLength(Coming) \in Nat
  <2>1. Coming \in Messages
    BY <1>1, <1>3, <1>4 DEF Coming
  <2> QED
    BY <2>1, FrameLengths
<1>6. Len(received) < Len(begun)
  BY <1>1, <1>3, <1>4
<1>7. FrameAt(at, begun, n) = FrameLength(Coming)
  BY <1>3 DEF FrameAt, Coming
<1>8. ASSUME n < Len(wire), Reading + n = FrameLength(Coming)
      PROVE  at[n + 1] = Len(received) + 2 /\ wire[n + 1][2] = 1
  <2>1. n \in 1..(Len(wire) - 1) /\ wire[n][2] = FrameAt(at, begun, n)
    BY <1>1, <1>3, <1>7, <1>8
  <2>2. at[n + 1] = at[n] + 1 /\ wire[n + 1][2] = 1
    BY <2>1 DEF Stream, Frames, Turns
  <2> QED
    BY <1>1, <1>3, <2>2
<1>9. ASSUME n < Len(wire), Reading + n # FrameLength(Coming)
      PROVE  at[n + 1] = Len(received) + 1 /\ wire[n + 1][2] = Reading + n + 1
  <2>1. /\ n + 1 \in 1..Len(wire) /\ 1 \in Nat /\ n + 1 <= Len(wire)
        /\ (Reading + n) + 1 <= FrameLength(Coming)
    BY <1>1, <1>2, <1>5, <1>9, SMTT(30)
  <2>2. at[n + 1] = at[n] /\ wire[n + 1][2] = wire[n][2] + 1
    BY <1>1, <1>3, <1>7, <2>1 DEF Stream, Frames, Runs
  <2> QED
    BY <1>3, <2>2
<1>10. ASSUME n = Len(wire)
       PROVE  /\ Len(begun) = Len(received) + 1
              /\ \A w \in Senders : put[w] > 0 => put[w] = Reading + n
              /\ (\A w \in Senders : put[w] = 0) => Reading + n = FrameLength(Coming)
  <2>1. Len(begun) = Len(received) + 1 /\ begun[Len(begun)] = Coming
    BY <1>1, <1>3, <1>10 DEF Stream, Ends, Coming
  <2> QED
    BY <1>1, <1>3, <1>10, <2>1 DEF Stream, Ends
<1> QED
  BY <1>1, <1>2, <1>5, <1>6, <1>8, <1>9, <1>10

\* The reader takes n bytes, which may complete the message.
Takes(n) ==
  /\ Reading + n <= FrameLength(Coming) /\ Reading + n >= PrefixBytes
  /\ wire' = Without(wire, n)
  /\ IF Reading + n = FrameLength(Coming)
     THEN received' = Append(received, Coming) /\ size' = Unknown
     ELSE /\ received' = received /\ size' = Length[Coming]
          /\ PrefixBytes + Len(buffer') = Reading + n
          /\ \A k \in 1..Len(buffer') : buffer'[k] = <<Coming, PrefixBytes + k>>
  /\ UNCHANGED <<way, todo, put, section, begun>>

LEMMA TakesOn ==
  ASSUME Plain, Plain', InStep, NEW n \in 1..Len(wire), Takes(n)
  PROVE  InStep'
<1>1. PICK at \in [1..Len(wire) -> Nat] : Stream(at)
  BY DEF InStep
<1>2. /\ Coming \in Messages /\ FrameLength(Coming) \in Nat
      /\ Len(received) \in Nat /\ Len(received) < Len(begun) /\ Reading \in Nat
      /\ n < Len(wire) =>
           IF Reading + n = FrameLength(Coming)
           THEN at[n + 1] = Len(received) + 2 /\ wire[n + 1][2] = 1
           ELSE at[n + 1] = Len(received) + 1 /\ wire[n + 1][2] = Reading + n + 1
      /\ n = Len(wire) =>
           /\ Len(begun) = Len(received) + 1
           /\ \A w \in Senders : put[w] > 0 => put[w] = Reading + n
           /\ (\A w \in Senders : put[w] = 0) => Reading + n = FrameLength(Coming)
  BY <1>1, TakenRest DEF Takes
<1> DEFINE done == Reading + n = FrameLength(Coming)
<1>3. /\ Len(received') \in Nat /\ begun' = begun /\ put' = put
      /\ received \in Seq(Messages \union {Garbage}) /\ Len(begun) \in Nat
  <2>1. /\ received \in Seq(Messages \union {Garbage}) /\ received' \in Seq(Messages \union {Garbage})
        /\ begun \in Seq(Messages)
    BY DEF Plain, TypeOK
  <2> QED
    BY <2>1 DEF Takes
<1>4. IF done
      THEN /\ Len(received') = Len(received) + 1 /\ Reading' = 0 /\ size' = Unknown
           /\ received'[Len(received) + 1] = Coming
           /\ \A k \in 1..Len(received) : received'[k] = received[k]
      ELSE /\ received' = received /\ Reading' = Reading + n
           /\ size' = Length[Coming] /\ size' # Unknown
  <2>1. CASE done
    <3>1. received' = Append(received, Coming) /\ size' = Unknown
      BY <2>1 DEF Takes
    <3>2. Coming \in Messages \union {Garbage}
      BY <1>2
    <3>3. /\ Len(received') = Len(received) + 1 /\ received'[Len(received) + 1] = Coming
          /\ \A k \in 1..Len(received) : received'[k] = received[k]
      BY <1>3, <3>1, <3>2, AppendProperties
    <3>4. Reading' = 0
      BY <3>1 DEF Reading
    <3> QED
      BY <2>1, <3>1, <3>3, <3>4
  <2>2. CASE ~done
    <3>1. received' = received /\ size' = Length[Coming] /\ PrefixBytes + Len(buffer') = Reading + n
      BY <2>2 DEF Takes
    <3>2. size' # Unknown
      BY <1>2, <3>1, FramingAssumption
    <3>3. Reading' = Reading + n
      BY <3>1, <3>2 DEF Reading
    <3> QED
      BY <2>2, <3>1, <3>2, <3>3
  <2> QED
    BY <2>1, <2>2
<1>5. PICK rest \in [1..Len(wire') -> Nat] :
        /\ wire' \in Seq(Byte) /\ Len(wire') = Len(wire) - n
        /\ \A k \in 1..Len(wire') : wire'[k] = wire[k + n] /\ rest[k] = at[k + n]
        /\ Frames(rest, wire', begun)
  <2>1. wire \in Seq(Byte) /\ begun \in Seq(Messages) /\ Frames(at, wire, begun)
    BY <1>1 DEF Plain, TypeOK, Byte, Stream
  <2>2. n \in 0..Len(wire)
    BY <2>1
  <2>3. wire' = Without(wire, n)
    BY DEF Takes
  <2>4. /\ Without(wire, n) \in Seq(Byte) /\ Len(Without(wire, n)) = Len(wire) - n
        /\ \E rest \in [1..(Len(wire) - n) -> Nat] :
             /\ \A k \in 1..(Len(wire) - n) :
                  Without(wire, n)[k] = wire[k + n] /\ rest[k] = at[k + n]
             /\ Frames(rest, Without(wire, n), begun)
    BY <2>1, <2>2, SuffixIsFrames
  <2>5. wire' \in Seq(Byte) /\ Len(wire') = Len(wire) - n
    BY <2>3, <2>4
  <2> QED
    BY <2>3, <2>4, <2>5
<1>6. Stream(rest)'
  <2>1. Ends(rest)'
    <3> SUFFICES ASSUME wire' # <<>>
                 PROVE  /\ rest[1] = Len(received') + 1 /\ wire'[1][2] = Reading' + 1
                        /\ rest[Len(wire')] = Len(begun)
                        /\ \A w \in Senders : put[w] > 0 => wire'[Len(wire')][2] = put[w]
                        /\ (\A w \in Senders : put[w] = 0) =>
                             wire'[Len(wire')][2] = FrameLength(begun[Len(begun)])
      BY <1>3 DEF Ends
    <3>1. /\ Len(wire) \in Nat /\ n < Len(wire) /\ 1 \in 1..Len(wire')
          /\ Len(wire') \in 1..Len(wire') /\ Len(wire') + n = Len(wire) /\ 1 + n = n + 1
          /\ wire # <<>>
      <4>1. wire \in Seq(Byte) /\ Len(wire') \in Nat /\ Len(wire') # 0
        BY <1>5 DEF Plain, TypeOK, Byte
      <4> QED
        BY <1>5, <4>1
    <3>2. /\ rest[1] = at[n + 1] /\ wire'[1] = wire[n + 1]
          /\ rest[Len(wire')] = at[Len(wire)] /\ wire'[Len(wire')] = wire[Len(wire)]
      BY <1>5, <3>1
    <3>3. rest[1] = Len(received') + 1 /\ wire'[1][2] = Reading' + 1
      BY <1>2, <1>3, <1>4, <3>1, <3>2, SMTT(30)
    <3> QED
      BY <1>1, <3>1, <3>2, <3>3 DEF Stream, Ends
  <2> QED
    BY <1>3, <1>5, <2>1 DEF Stream
<1>7. Empty'
  <2> SUFFICES ASSUME wire' = <<>>
               PROVE  IF size' = Unknown
                      THEN /\ Len(received') = Len(begun)
                           /\ \A w \in Senders : put[w] > 0 => put[w] = FrameLength(Current(w))
                      ELSE /\ Len(begun) = Len(received') + 1
                           /\ \E w \in Senders : put[w] = Reading'
    <3>1. \A w \in Senders : Current(w)' = Current(w)
      BY DEF Current, Takes
    <3> QED
      BY <1>3, <3>1 DEF Empty
  <2>1. n = Len(wire)
    <3>1. Len(wire') = 0 /\ Len(wire) \in Nat
      BY DEF Plain, TypeOK
    <3> QED
      BY <1>5, <3>1
  <2>2. /\ Len(begun) = Len(received) + 1
        /\ \A w \in Senders : put[w] > 0 => put[w] = Reading + n
        /\ (\A w \in Senders : put[w] = 0) => done
    BY <1>2, <2>1
  <2>3. CASE done
    <3>1. begun[Len(begun)] = Coming
      BY <2>2 DEF Coming
    <3>2. \A w \in Senders : put[w] > 0 => Current(w) = Coming
      BY <3>1 DEF InStep, SenderInv
    <3> QED
      BY <1>4, <2>2, <2>3, <3>2
  <2>4. CASE ~done
    <3>1. PICK w \in Senders : put[w] # 0
      BY <2>2, <2>4
    <3>2. put[w] > 0
      BY <3>1 DEF Plain, TypeOK
    <3> QED
      BY <1>4, <2>2, <2>4, <3>2
  <2> QED
    BY <2>3, <2>4
<1>8. SenderInv'
  <2>1. \A w \in Senders : Current(w)' = Current(w)
    BY DEF Current, Takes
  <2> QED
    BY <2>1 DEF SenderInv, InStep, Takes
<1>9. ReaderInv'
  <2>1. CASE done
    <3>1. \A k \in 1..Len(received') : k \in 1..Len(received) \/ k = Len(received) + 1
      BY <1>2, <1>4, <2>1
    <3>2. Len(received') <= Len(begun)
      BY <1>2, <1>3, <1>4, <2>1
    <3>3. \A k \in 1..Len(received') : received'[k] = begun[k]
      BY <1>4, <2>1, <3>1 DEF InStep, ReaderInv, Coming
    <3> QED
      BY <1>3, <1>4, <2>1, <3>2, <3>3 DEF ReaderInv
  <2>2. CASE ~done
    <3>1. Coming' = Coming
      BY <1>3, <1>4, <2>2 DEF Coming
    <3>2. \A k \in 1..Len(buffer') : buffer'[k] = <<Coming, PrefixBytes + k>>
      BY <2>2 DEF Takes
    <3> QED
      BY <1>2, <1>3, <1>4, <2>2, <3>1, <3>2 DEF InStep, ReaderInv
  <2> QED
    BY <2>1, <2>2
<1> QED
  BY <1>5, <1>6, <1>7, <1>8, <1>9 DEF InStep

-----------------------------------------------------------------------------
(* The steps.                                                              *)

Kept == Plain /\ (~broken => InStep)

\* A step of Channel, or none.
Passes == [Chan!Next]_<<begun, received>>

LEMMA PutLengthPasses ==
  ASSUME Plain, Plain', InStep, NEW w \in Senders, PutLength(w)
  PROVE  (~broken' => InStep') /\ Passes
<1>1. Current(w) \in Messages /\ FrameLength(Current(w)) \in Nat
      /\ FrameLength(Current(w)) >= PrefixBytes /\ PrefixBytes \in Nat \ {0}
  BY CurrentIs, FramingAssumption DEF Plain, PutLength, MaySend, Sending
<1>2. Passes
  BY <1>1 DEF PutLength, receiving, Passes, Chan!Next, Chan!Send
<1>3. ASSUME ~broken' PROVE InStep'
  <2>1. put[w] = 0 /\ put[w] + PrefixBytes = PrefixBytes /\ put[w] + 1 = 1
    BY <1>1 DEF PutLength
  <2>2. wire' = Grown(wire, Current(w), put[w], PrefixBytes)
    <3>1. wire' = wire \o Bytes(Current(w), 1, PrefixBytes)
      BY <1>3 DEF PutLength
    <3> QED
      BY <2>1, <3>1 DEF Grown
  <2>3. GoesOn(w, PrefixBytes)
    BY <1>1, <2>1, <2>2 DEF GoesOn, PutLength, receiving
  <2> QED
    BY <1>1, <2>3, SendsOn
<1> QED
  BY <1>2, <1>3

LEMMA PutPiecePasses ==
  ASSUME Plain, Plain', InStep, NEW w \in Senders, PutPiece(w)
  PROVE  InStep' /\ Passes
<1>1. FrameLength(Current(w)) \in Nat /\ PrefixBytes \in Nat \ {0} /\ put[w] \in Nat /\ Buffer \in Nat
  BY CurrentIs, FramingAssumption DEF Plain, TypeOK, PutPiece, MaySend, Sending
<1>2. /\ put[w] > 0 /\ put[w] >= PrefixBytes
      /\ FrameLength(Current(w)) - put[w] \in Nat
  BY <1>1 DEF PutPiece
<1>3. PICK n \in 1..Least(Buffer, FrameLength(Current(w)) - put[w]) :
        /\ wire' = Grown(wire, Current(w), put[w], n)
        /\ put' = [put EXCEPT ![w] = put[w] + n]
  BY DEF PutPiece, Grown
<1>4. /\ n \in Nat \ {0} /\ put[w] + n \in PrefixBytes..FrameLength(Current(w))
  <2> DEFINE left == FrameLength(Current(w)) - put[w]
  <2>1. Least(Buffer, left) \in Nat /\ Least(Buffer, left) <= left
    BY <1>1, <1>2, LeastIs
  <2> QED
    BY <1>1, <1>2, <2>1
<1>5. GoesOn(w, n)
  <2>1. /\ MaySend(w) /\ begun' = begun
        /\ UNCHANGED <<way, todo, section, size, buffer, received>>
    BY DEF PutPiece, receiving
  <2> QED
    BY <1>2, <1>3, <1>4, <2>1 DEF GoesOn
<1> QED
  BY <1>4, <1>5, SendsOn DEF PutPiece, receiving, Passes

LEMMA FinishPasses ==
  ASSUME Plain, Plain', InStep, NEW w \in Senders, Finish(w)
  PROVE  InStep' /\ Passes
<1>1. /\ put[w] = FrameLength(Current(w)) /\ put[w] > 0 /\ todo[w] # <<>>
      /\ Len(wire) \in Nat /\ put[w] \in Nat
  <2>1. todo[w] # <<>> /\ put[w] = FrameLength(Current(w))
    BY DEF Finish, MaySend, Sending
  <2>2. FrameLength(Current(w)) \in Nat /\ FrameLength(Current(w)) >= PrefixBytes
    BY <2>1, CurrentIs DEF Plain
  <2>3. PrefixBytes \in Nat \ {0} /\ wire \in Seq(Messages \X Nat)
    BY FramingAssumption DEF Plain, TypeOK
  <2>4. Len(wire) \in Nat
    BY <2>3
  <2> QED
    BY <2>1, <2>2, <2>3, <2>4
<1>2. /\ \A v \in Senders : put'[v] = 0
      /\ \A v \in Senders : v # w => put[v] = 0 /\ todo'[v] = todo[v]
  <2>1. \A v \in Senders : v # w => put[v] = 0
    BY OneSends DEF Finish, InStep
  <2> QED
    BY <2>1 DEF Finish, Plain, TypeOK
<1>3. begun # <<>> /\ begun[Len(begun)] = Current(w)
  BY <1>1 DEF InStep, SenderInv
<1>4. /\ UNCHANGED <<way, begun, wire, size, buffer, received>>
      /\ Reading' = Reading /\ Coming' = Coming
  <2>1. UNCHANGED <<way, begun, wire, size, buffer, received>>
    BY DEF Finish, receiving
  <2> QED
    BY <2>1 DEF Reading, Coming
<1>5. PICK at \in [1..Len(wire) -> Nat] : Stream(at)
  BY DEF InStep
<1>6. Stream(at)'
  <2>1. wire # <<>> => wire[Len(wire)][2] = FrameLength(begun[Len(begun)])
    BY <1>1, <1>3, <1>5 DEF Stream, Ends
  <2> QED
    BY <1>2, <1>4, <1>5, <2>1 DEF Stream, Ends
<1>7. Empty'
  <2> SUFFICES ASSUME wire = <<>>, size # Unknown
               PROVE  FALSE
    BY <1>2, <1>4 DEF InStep, Empty
  <2>1. Len(begun) = Len(received) + 1
    BY DEF InStep, Empty
  <2>2. PICK v \in Senders : put[v] = Reading
    BY DEF InStep, Empty
  <2>3. Reading = PrefixBytes + Len(buffer) /\ Len(buffer) \in Nat /\ PrefixBytes \in Nat \ {0}
    BY FramingAssumption DEF Reading, Plain, TypeOK
  <2>4. v = w
    BY <1>2, <2>2, <2>3
  <2>5. Coming = Current(w)
    BY <1>3, <2>1 DEF Coming
  <2>6. size = Length[Current(w)] /\ size \in Nat /\ Len(buffer) < size
    BY <2>5 DEF InStep, ReaderInv, Plain, SizeInv
  <2>7. PrefixBytes + Len(buffer) = PrefixBytes + size
    BY <1>1, <2>2, <2>3, <2>4, <2>6 DEF FrameLength
  <2> QED
    BY <2>3, <2>6, <2>7
<1>8. SenderInv'
  <2>1. \A v \in Senders : put'[v] > 0 => FALSE
    BY <1>2
  <2>2. way = "request" => todo'[Worker] = <<>>
    BY <1>1, <1>2 DEF InStep, SenderInv, Senders
  <2>3. way = "reply" => \A v \in Clients : todo'[v] = <<>>
    BY <1>1, <1>2 DEF InStep, SenderInv, Senders
  <2> QED
    BY <1>4, <2>1, <2>2, <2>3 DEF SenderInv
<1>9. ReaderInv'
  BY <1>4 DEF InStep, ReaderInv
<1>10. Passes
  BY <1>4 DEF Passes
<1> QED
  BY <1>4, <1>5, <1>6, <1>7, <1>8, <1>9, <1>10 DEF InStep

\* A message that is complete is the next one Channel receives.
LEMMA TakesPasses ==
  ASSUME Plain, InStep, NEW n \in 1..Len(wire), Takes(n)
  PROVE  Passes
<1>1. PICK at \in [1..Len(wire) -> Nat] : Stream(at)
  BY DEF InStep
<1>2. Len(received) < Len(begun)
  BY <1>1, TakenRest DEF Takes
<1>3. begun' = begun /\ (received' = received \/ received' = Append(received, Coming))
  BY DEF Takes
<1> QED
  BY <1>2, <1>3 DEF Passes, Chan!Next, Chan!Receive, Coming

\* What is stored and what is taken make up the bytes up to Reading + n.
LEMMA Stored ==
  ASSUME Plain, InStep, NEW n \in 1..Len(wire), Reading + n <= FrameLength(Coming)
  PROVE  /\ Len(SubSeq(wire, 1, n)) = n /\ SubSeq(wire, 1, n) \in Seq(Byte)
         /\ \A k \in 1..n : SubSeq(wire, 1, n)[k] = <<Coming, Reading + k>>
<1>1. PICK at \in [1..Len(wire) -> Nat] : Stream(at)
  BY DEF InStep
<1>2. \A k \in 1..n : wire[k] = <<Coming, Reading + k>>
  BY <1>1, TakenBytes
<1>3. wire \in Seq(Byte)
  BY DEF Plain, TypeOK, Byte
<1>4. n \in Nat /\ n <= Len(wire) /\ \A k \in 1..n : wire[k] \in Byte
  BY <1>3
<1>5. Len(SubSeq(wire, 1, n)) = n /\ SubSeq(wire, 1, n) \in Seq(Byte)
  BY <1>3, <1>4, SubSeqProperties
<1>6. \A k \in 1..n : SubSeq(wire, 1, n)[k] = wire[k]
  <2> SUFFICES ASSUME NEW k \in 1..n PROVE SubSeq(wire, 1, n)[k] = wire[k]
    OBVIOUS
  <2>1. SubSeq(wire, 1, n)[k] = wire[1 + k - 1]
    BY <1>3, <1>4, SubSeqProperties
  <2> QED
    BY <2>1
<1> QED
  BY <1>2, <1>5, <1>6

\* The first byte in the stream is the next of the message that is coming.
LEMMA ComingIs ==
  ASSUME Plain, InStep, wire # <<>>
  PROVE  /\ Coming \in Messages /\ FrameLength(Coming) \in Nat
         /\ FrameLength(Coming) >= PrefixBytes /\ wire[1][1] = Coming
<1>1. PICK at \in [1..Len(wire) -> Nat] : Stream(at)
  BY DEF InStep
<1>2. 1 \in 1..Len(wire) /\ begun \in Seq(Messages)
  <2>1. wire \in Seq(Messages \X Nat) /\ begun \in Seq(Messages)
    BY DEF Plain, TypeOK
  <2> QED
    BY <2>1
<1>3. at[1] = Len(received) + 1
  BY <1>1 DEF Stream, Ends
<1>4. at[1] \in 1..Len(begun) /\ wire[1][1] = begun[at[1]]
  BY <1>1, <1>2 DEF Stream, Frames, Placed
<1>5. Coming \in Messages /\ wire[1][1] = Coming
  BY <1>2, <1>3, <1>4 DEF Coming
<1> QED
  BY <1>5, FrameLengths

LEMMA ReceiveLengthPasses ==
  ASSUME Plain, Plain', InStep, ReceiveLength
  PROVE  (~broken' => InStep') /\ Passes
<1>1. /\ wire # <<>> /\ size = Unknown /\ buffer = <<>> /\ Reading = 0
      /\ PrefixBytes \in Nat \ {0} /\ wire \in Seq(Byte)
  BY FramingAssumption DEF ReceiveLength, Plain, TypeOK, SizeInv, Reading, Byte
<1>2. /\ Coming \in Messages /\ FrameLength(Coming) \in Nat
      /\ FrameLength(Coming) >= PrefixBytes /\ wire[1][1] = Coming
  BY <1>1, ComingIs
<1>3. \/ UNCHANGED <<begun, received>> /\ broken'
      \/ /\ Len(wire) >= PrefixBytes
         /\ wire' = Without(wire, PrefixBytes)
         /\ IF SubSeq(wire, 1, PrefixBytes) # Bytes(Coming, 1, PrefixBytes)
              THEN Received(Garbage)
              ELSE IF Length[Coming] = 0 THEN Received(Coming)
                   ELSE size' = Length[Coming] /\ UNCHANGED <<buffer, reader, received>>
  BY <1>2 DEF ReceiveLength, sending, receiving, Without
<1>4. UNCHANGED <<way, todo, put, section, begun>>
  BY DEF ReceiveLength, sending
<1>5. CASE UNCHANGED <<begun, received>> /\ broken'
  BY <1>5 DEF Passes
<1>6. ASSUME Len(wire) >= PrefixBytes,
             wire' = Without(wire, PrefixBytes),
             IF SubSeq(wire, 1, PrefixBytes) # Bytes(Coming, 1, PrefixBytes)
               THEN Received(Garbage)
               ELSE IF Length[Coming] = 0 THEN Received(Coming)
                    ELSE size' = Length[Coming] /\ UNCHANGED <<buffer, reader, received>>
      PROVE  InStep' /\ Passes
  <2>1. PrefixBytes \in 1..Len(wire) /\ Reading + PrefixBytes = PrefixBytes
    BY <1>1, <1>6
  <2>2. SubSeq(wire, 1, PrefixBytes) = Bytes(Coming, 1, PrefixBytes)
    <3>1. /\ Len(SubSeq(wire, 1, PrefixBytes)) = PrefixBytes
          /\ SubSeq(wire, 1, PrefixBytes) \in Seq(Byte)
          /\ \A k \in 1..PrefixBytes : SubSeq(wire, 1, PrefixBytes)[k] = <<Coming, 0 + k>>
      BY <1>1, <1>2, <2>1, Stored
    <3>2. /\ Bytes(Coming, 0 + 1, PrefixBytes) \in Seq(Byte)
          /\ Len(Bytes(Coming, 0 + 1, PrefixBytes)) = PrefixBytes - 0
          /\ \A k \in 1..(PrefixBytes - 0) : Bytes(Coming, 0 + 1, PrefixBytes)[k] = <<Coming, 0 + k>>
      <4>1. 0 \in Nat /\ PrefixBytes \in Nat /\ 0 <= PrefixBytes
        BY <1>1
      <4> QED
        BY <1>2, <4>1, BytesAre
    <3>3. PrefixBytes - 0 = PrefixBytes /\ 0 + 1 = 1
      BY <1>1
    <3> QED
      BY <3>1, <3>2, <3>3, SeqEqual
  <2>3. FrameLength(Coming) = PrefixBytes + Length[Coming] /\ Length[Coming] \in Nat
    BY <1>2, FramingAssumption DEF FrameLength
  <2>4. Takes(PrefixBytes)
    <3>1. CASE Length[Coming] = 0
      <4>1. Received(Coming)
        BY <1>6, <2>2, <3>1
      <4>2. Reading + PrefixBytes = FrameLength(Coming)
        BY <1>1, <2>1, <2>3, <3>1
      <4> QED
        BY <1>1, <1>2, <1>4, <1>6, <2>1, <4>1, <4>2 DEF Takes, Received
    <3>2. CASE Length[Coming] # 0
      <4>1. size' = Length[Coming] /\ UNCHANGED <<buffer, reader, received>>
        BY <1>6, <2>2, <3>2
      <4>2. Reading + PrefixBytes # FrameLength(Coming)
        BY <1>1, <2>1, <2>3, <3>2
      <4>3. buffer' = <<>> /\ PrefixBytes + Len(buffer') = Reading + PrefixBytes
        BY <1>1, <2>1, <4>1
      <4> QED
        BY <1>1, <1>2, <1>4, <1>6, <2>1, <4>1, <4>2, <4>3 DEF Takes
    <3> QED
      BY <3>1, <3>2
  <2> QED
    BY <2>1, <2>4, TakesOn, TakesPasses
<1> QED
  BY <1>3, <1>5, <1>6

\* Stored bytes that are all there are the message.
LEMMA DecodedWhole ==
  ASSUME NEW m \in Messages, Length[m] # 0, NEW b \in Seq(Byte), Len(b) = Length[m],
         \A k \in 1..Len(b) : b[k] = <<m, PrefixBytes + k>>
  PROVE  Decoded(b) = m
<1>1. Length[m] \in Nat \ {0} /\ PrefixBytes \in Nat /\ FrameLength(m) = PrefixBytes + Length[m]
  BY FramingAssumption DEF FrameLength
<1> DEFINE whole == {x \in Messages : b = Bytes(x, PrefixBytes + 1, FrameLength(x))}
<1>2. m \in whole
  <2>1. FrameLength(m) \in Nat /\ PrefixBytes <= FrameLength(m) /\ FrameLength(m) - PrefixBytes = Length[m]
    BY <1>1
  <2>2. /\ Bytes(m, PrefixBytes + 1, FrameLength(m)) \in Seq(Byte)
        /\ Len(Bytes(m, PrefixBytes + 1, FrameLength(m))) = Length[m]
        /\ \A k \in 1..Length[m] :
             Bytes(m, PrefixBytes + 1, FrameLength(m))[k] = <<m, PrefixBytes + k>>
    <3> DEFINE j == FrameLength(m)
    <3>1. PrefixBytes \in Nat /\ j \in Nat /\ PrefixBytes <= j /\ j - PrefixBytes = Length[m]
      BY <1>1, <2>1
    <3> HIDE DEF j
    <3>2. /\ Bytes(m, PrefixBytes + 1, j) \in Seq(Byte)
          /\ Len(Bytes(m, PrefixBytes + 1, j)) = j - PrefixBytes
          /\ \A k \in 1..(j - PrefixBytes) : Bytes(m, PrefixBytes + 1, j)[k] = <<m, PrefixBytes + k>>
      BY <3>1, BytesAre
    <3> QED
      BY <3>1, <3>2 DEF j
  <2>3. b = Bytes(m, PrefixBytes + 1, FrameLength(m))
    BY <2>2, SeqEqual
  <2> QED
    BY <2>3
<1>3. ASSUME NEW x \in whole PROVE x = m
  <2>1. /\ FrameLength(x) \in Nat /\ PrefixBytes <= FrameLength(x)
        /\ x \in Messages /\ b = Bytes(x, PrefixBytes + 1, FrameLength(x))
    BY FrameLengths, <1>1
  <2>2. /\ Len(b) = FrameLength(x) - PrefixBytes
        /\ \A k \in 1..(FrameLength(x) - PrefixBytes) : b[k] = <<x, PrefixBytes + k>>
    <3> DEFINE j == FrameLength(x)
    <3>1. PrefixBytes \in Nat /\ j \in Nat /\ PrefixBytes <= j /\ x \in Messages
      BY <1>1, <2>1
    <3> HIDE DEF j
    <3>2. /\ Len(Bytes(x, PrefixBytes + 1, j)) = j - PrefixBytes
          /\ \A k \in 1..(j - PrefixBytes) :
               Bytes(x, PrefixBytes + 1, j)[k] = <<x, PrefixBytes + k>>
      BY <3>1, BytesAre
    <3> QED
      BY <2>1, <3>2 DEF j
  <2>3. 1 \in 1..Len(b)
    BY <1>1
  <2>4. b[1] = <<x, PrefixBytes + 1>> /\ b[1] = <<m, PrefixBytes + 1>>
    BY <2>2, <2>3
  <2> QED
    BY <2>4
<1>4. Decoded(b) = CHOOSE x \in whole : TRUE
  BY <1>2 DEF Decoded
<1> HIDE DEF whole
<1> QED
  BY <1>2, <1>3, <1>4

LEMMA ReceivePiecePasses ==
  ASSUME Plain, Plain', InStep, ReceivePiece
  PROVE  InStep' /\ Passes
<1>1. /\ wire # <<>> /\ size # Unknown /\ size \in Nat \ {0} /\ Len(buffer) < size
      /\ PrefixBytes \in Nat \ {0} /\ Buffer \in Nat
  BY FramingAssumption DEF ReceivePiece, Plain, TypeOK, SizeInv
<1>2. wire \in Seq(Byte) /\ buffer \in Seq(Byte) /\ Len(wire) \in Nat /\ Len(buffer) \in Nat
  <2>1. wire \in Seq(Byte) /\ buffer \in Seq(Byte)
    BY DEF Plain, TypeOK, Byte
  <2> QED
    BY <2>1
<1>3. /\ Coming \in Messages /\ size = Length[Coming]
      /\ Reading = PrefixBytes + Len(buffer)
      /\ \A k \in 1..Len(buffer) : buffer[k] = <<Coming, PrefixBytes + k>>
      /\ FrameLength(Coming) = PrefixBytes + size
  <2>1. Coming \in Messages
    BY <1>1, ComingIs
  <2> QED
    BY <1>1, <2>1 DEF InStep, ReaderInv, Reading, FrameLength
<1>4. PICK n \in 1..Least(Wanted, Len(wire)) :
        /\ wire' = Without(wire, n)
        /\ LET stored == buffer \o SubSeq(wire, 1, n)
           IN IF Len(stored) >= size
                THEN Received(Decoded(stored))
                ELSE buffer' = stored /\ UNCHANGED <<size, reader, received>>
  BY DEF ReceivePiece, Without
<1>5. /\ n \in 1..Len(wire) /\ Len(buffer) + n <= size
      /\ Reading + n <= FrameLength(Coming) /\ n \in Nat
  <2>1. size - Len(buffer) \in Nat
    BY <1>1, <1>2
  <2>2. Wanted \in Nat /\ Wanted <= size - Len(buffer)
    BY <1>1, <2>1, LeastIs DEF Wanted
  <2>3. /\ Least(Wanted, Len(wire)) \in Nat
        /\ Least(Wanted, Len(wire)) <= Wanted /\ Least(Wanted, Len(wire)) <= Len(wire)
    BY <1>2, <2>2, LeastIs
  <2>4. n \in 1..Len(wire) /\ n <= size - Len(buffer) /\ n \in Nat
    BY <1>2, <2>1, <2>2, <2>3
  <2> QED
    BY <1>1, <1>2, <1>3, <2>4
<1> DEFINE piece == SubSeq(wire, 1, n)
           stored == buffer \o piece
<1>6. IF Len(stored) >= size THEN Received(Decoded(stored))
        ELSE buffer' = stored /\ UNCHANGED <<size, reader, received>>
  BY <1>4
<1>7. /\ Len(piece) = n /\ piece \in Seq(Byte)
      /\ \A k \in 1..n : piece[k] = <<Coming, (PrefixBytes + Len(buffer)) + k>>
  BY <1>3, <1>5, Stored
<1> HIDE DEF piece
<1>8. /\ stored \in Seq(Byte) /\ Len(stored) = Len(buffer) + n
      /\ \A k \in 1..Len(stored) : stored[k] = <<Coming, PrefixBytes + k>>
  <2>1. /\ stored \in Seq(Byte) /\ Len(stored) = Len(buffer) + Len(piece)
        /\ \A k \in 1..Len(buffer) + Len(piece) :
             stored[k] = IF k <= Len(buffer) THEN buffer[k] ELSE piece[k - Len(buffer)]
    BY <1>2, <1>7, ConcatProperties
  <2>2. ASSUME NEW k \in 1..Len(buffer) + n
        PROVE  stored[k] = <<Coming, PrefixBytes + k>>
    <3>1. CASE k <= Len(buffer)
      <4>1. k \in 1..Len(buffer) /\ stored[k] = buffer[k]
        BY <1>2, <1>5, <1>7, <2>1, <3>1
      <4> QED
        BY <1>3, <4>1
    <3>2. CASE ~(k <= Len(buffer))
      <4>1. /\ k - Len(buffer) \in 1..n
            /\ (PrefixBytes + Len(buffer)) + (k - Len(buffer)) = PrefixBytes + k
        BY <1>1, <1>2, <1>5, <3>2
      <4>2. stored[k] = piece[k - Len(buffer)]
        BY <1>7, <2>1, <3>2
      <4> QED
        BY <1>7, <4>1, <4>2
    <3> QED
      BY <3>1, <3>2
  <2> QED
    BY <1>7, <2>1, <2>2
<1> HIDE DEF stored
<1>9. UNCHANGED <<way, todo, put, section, begun>>
  BY DEF ReceivePiece, sending
<1>10. Takes(n)
  <2>1. CASE Len(stored) >= size
    <3>1. Len(stored) = size /\ Reading + n = FrameLength(Coming)
      BY <1>1, <1>2, <1>3, <1>5, <1>8, <2>1
    <3>2. Decoded(stored) = Coming
      BY <1>1, <1>3, <1>8, <3>1, DecodedWhole
    <3>3. Received(Coming)
      BY <1>6, <2>1, <3>2
    <3>4. Reading + n >= PrefixBytes
      BY <1>1, <1>2, <1>3, <1>5
    <3> QED
      BY <1>4, <1>5, <1>9, <3>1, <3>3, <3>4 DEF Takes, Received
  <2>2. CASE ~(Len(stored) >= size)
    <3>1. buffer' = stored /\ UNCHANGED <<size, reader, received>>
      BY <1>6, <2>2
    <3>2. Reading + n # FrameLength(Coming) /\ PrefixBytes + Len(stored) = Reading + n
      BY <1>1, <1>2, <1>3, <1>5, <1>8, <2>2
    <3>3. Reading + n >= PrefixBytes
      BY <1>1, <1>2, <1>3, <1>5
    <3> QED
      BY <1>3, <1>4, <1>5, <1>8, <1>9, <3>1, <3>2, <3>3 DEF Takes
  <2> QED
    BY <2>1, <2>2
<1> QED
  BY <1>5, <1>10, TakesOn, TakesPasses

LEMMA KeptInit == Init => Kept /\ Chan!Init
<1> SUFFICES ASSUME Init PROVE InStep /\ Chan!Init
  BY PlainInit DEF Kept
<1>1. Chan!Init
  BY DEF Init, Chan!Init
<1>2. SenderInv
  BY DEF Init, SenderInv
<1>3. ReaderInv /\ Empty
  BY DEF Init, ReaderInv, Empty
<1>4. \E at \in [1..Len(wire) -> Nat] : Stream(at)
  <2> DEFINE none == [k \in 1..Len(wire) |-> 0]
  <2>1. wire = <<>> /\ Len(wire) = 0 /\ none \in [1..Len(wire) -> Nat]
    BY DEF Init
  <2>2. Frames(none, wire, begun)
    BY <2>1 DEF Frames, Placed, Runs, Turns
  <2>3. Stream(none)
    BY <2>1, <2>2 DEF Stream, Ends
  <2> QED
    BY <2>1, <2>3
<1> QED
  BY <1>1, <1>2, <1>3, <1>4 DEF InStep

LEMMA KeptStep == Kept /\ [Next]_vars => Kept' /\ Passes
<1> SUFFICES ASSUME Kept, [Next]_vars PROVE (~broken' => InStep') /\ Passes
  BY PlainStep DEF Kept
<1>1. Plain /\ Plain'
  BY PlainStep DEF Kept
<1>2. CASE UNCHANGED vars
  <2>1. UNCHANGED <<way, todo, put, section, begun, wire, size, buffer, received, broken>>
    BY <1>2 DEF vars, sending, receiving
  <2> QED
    BY <2>1 DEF Kept, InStep, Passes, SenderInv, ReaderInv, Empty, Stream, Ends, Reading, Coming, Current
<1>3. ASSUME Next PROVE (~broken' => InStep') /\ Passes
  <2>1. InStep
    BY <1>3 DEF Next, Kept
  <2>2. ASSUME NEW w \in Senders, Enter(w) PROVE InStep' /\ Passes
    <3>1. UNCHANGED <<way, todo, put, begun, wire, size, buffer, received>>
      BY <2>2 DEF Enter, receiving
    <3>2. SenderInv'
      <4>1. section = Nobody /\ section' = w /\ put[w] = 0
        BY <2>2 DEF Enter
      <4>2. \A v \in Clients : put[v] > 0 => FALSE
        BY <2>1, <4>1, FramingAssumption DEF InStep, SenderInv, Senders
      <4> QED
        BY <2>1, <3>1, <4>2 DEF InStep, SenderInv, Current
    <3> QED
      BY <2>1, <3>1, <3>2 DEF InStep, Passes, ReaderInv, Empty, Stream, Ends, Reading, Coming, Current
  <2>3. ASSUME NEW w \in Senders, PutLength(w) PROVE (~broken' => InStep') /\ Passes
    BY <1>1, <2>1, <2>3, PutLengthPasses
  <2>4. ASSUME NEW w \in Senders, PutPiece(w) PROVE InStep' /\ Passes
    BY <1>1, <2>1, <2>4, PutPiecePasses
  <2>5. ASSUME NEW w \in Senders, Finish(w) PROVE InStep' /\ Passes
    BY <1>1, <2>1, <2>5, FinishPasses
  <2>6. CASE ReceiveLength
    BY <1>1, <2>1, <2>6, ReceiveLengthPasses
  <2>7. CASE ReceivePiece
    BY <1>1, <2>1, <2>7, ReceivePiecePasses
  <2>8. CASE Answer \/ EndOfStream \/ Close
    <3>1. UNCHANGED <<way, todo, put, section, begun, wire, size, buffer, received>>
      BY <2>8 DEF Answer, EndOfStream, Close, sending, receiving
    <3> QED
      BY <2>1, <3>1 DEF InStep, Passes, SenderInv, ReaderInv, Empty, Stream, Ends, Reading, Coming, Current
  <2> QED
    BY <1>3, <2>2, <2>3, <2>4, <2>5, <2>6, <2>7, <2>8 DEF Next, SendStep, ReceiveStep
<1> QED
  BY <1>2, <1>3

\* However the stream cuts them up and whichever thread sends, messages arrive whole,
\* once, and in the order in which they were begun: the heartbeat of one thread never
\* gets into a request of the other (gSection in mySend).
THEOREM ChannelIsKept == Spec => KeepsChannel
<1>1. Init => Kept /\ Chan!Init
  BY KeptInit
<1>2. Kept /\ [Next]_vars => Kept' /\ [Chan!Next]_<<begun, received>>
  BY KeptStep DEF Passes
<1> QED
  BY <1>1, <1>2, PTL DEF Spec, KeepsChannel, Chan!Spec
=============================================================================
