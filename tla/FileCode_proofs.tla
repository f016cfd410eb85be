--------------------------- MODULE FileCode_proofs ---------------------------
(***************************************************************************)
(* What the driver decodes is what it encoded, for all keys, all documents *)
(* and all widths of a byte, a word and a buffer: first the cipher of one  *)
(* buffer and the header, then the turns of the keys, then whole files.    *)
(*                                                                         *)
(* The definitions made here are of the proofs only: WordTurn is what      *)
(* turns by single bits come to, IsTurning the equation LeftTurns solves.  *)
(***************************************************************************)
EXTENDS FileCode, SequenceTheorems, FiniteSetTheorems, TLAPS

USE CodeAssumption

\* Applying a key twice takes it off again.
LEMMA XorTwice ==
  ASSUME NEW a, NEW k
  PROVE  Xor(Xor(a, k), k) = a
BY DEF Xor

\* A byte with a key applied is a byte.
LEMMA XorByte ==
  ASSUME NEW a \in Byte, NEW k \in Byte
  PROVE  Xor(a, k) \in Byte
BY DEF Xor, Byte

\* Every bit changes places with one that changes places with it.
LEMMA MateTwice ==
  ASSUME NEW b \in 0..ByteBits - 1
  PROVE  Mate(b) \in 0..ByteBits - 1 /\ Mate(Mate(b)) = b
BY DEF Mate

\* Swapping neighbouring bits twice changes nothing.
LEMMA SwapTwice ==
  ASSUME NEW byte \in Byte
  PROVE  Swap(Swap(byte)) = byte
<1>1. \A b \in byte : Mate(b) \in Swap(byte)
  BY DEF Swap
<1>2. \A b \in byte : Mate(Mate(b)) = b
  BY MateTwice DEF Byte
<1>3. \A c \in Swap(byte) : Mate(c) \in byte
  BY <1>2 DEF Swap
<1> QED BY <1>1, <1>2, <1>3 DEF Swap

\* Whether a byte is in a whole block or not, what moves its bits moves them back.
LEMMA SwappedTwice ==
  ASSUME NEW byte \in Byte, NEW len, NEW off, NEW q
  PROVE  Swapped(Swapped(byte, len, off, q), len, off, q) = byte
BY SwapTwice DEF Swapped

\* A byte of a key is a byte.
LEMMA KeyByteType == ASSUME NEW s, NEW i PROVE KeyByte(s, i) \in Byte
BY DEF KeyByte, Byte

\* decode1 takes back what encode1 did, in whichever pieces and at whichever
\* offset a file is read and written (the parameters of Encode and Decode).
THEOREM DecodeEncode ==
  ASSUME NEW buffer \in Seq(Byte), NEW off, NEW private, NEW public
  PROVE  decode1(encode1(buffer, off, private, public), off, private, public)
           = buffer
<1> DEFINE len == Len(buffer)
           code == encode1(buffer, off, private, public)
           pub(p) == PublicByte(public, len, off, p - 1)
           pri(p) == PrivateByte(private, len, off, p - 1)
           mixed(p) == Swapped(Xor(buffer[p], pub(p)), len, off, p - 1)
<1>1. len \in Nat /\ DOMAIN buffer = 1..len /\ buffer = [p \in 1..len |-> buffer[p]]
  OBVIOUS
<1>2. code = [p \in 1..len |-> Xor(mixed(p), pri(p))]
  BY DEF encode1
<1>3. Len(code) = len
  BY <1>1, <1>2
<1>4. decode1(code, off, private, public)
        = [p \in 1..len |->
             Xor(Swapped(Xor(code[p], pri(p)), len, off, p - 1), pub(p))]
  BY <1>3 DEF decode1
<1>5. ASSUME NEW p \in 1..len
      PROVE  Xor(Swapped(Xor(code[p], pri(p)), len, off, p - 1), pub(p)) = buffer[p]
  <2>1. code[p] = Xor(mixed(p), pri(p))
    BY <1>2
  <2>2. Xor(code[p], pri(p)) = mixed(p)
    BY <2>1, XorTwice
  <2>3. Xor(buffer[p], pub(p)) \in Byte
    BY <1>1, XorByte, KeyByteType DEF PublicByte
  <2>4. Swapped(mixed(p), len, off, p - 1) = Xor(buffer[p], pub(p))
    BY <2>3, SwappedTwice
  <2> QED BY <2>2, <2>4, XorTwice
<1> QED BY <1>1, <1>4, <1>5

-----------------------------------------------------------------------------

\* A key that is turned to the left and then to the right is where it was
\* (InlineLeftCircleSwid and InlineRightCircleSwid by one bit).
THEOREM TurnRightLeft ==
  ASSUME NEW s \in Swid
  PROVE  TurnRight(TurnLeft(s)) = s
<1> DEFINE t == TurnLeft(s)
           top == WordBits - 1
<1>1. WordBits \in Nat \ {0}
  BY DEF WordBits
<1>2. \A w \in Word : s[w] \subseteq 0..top
  BY DEF Swid
<1>3. ASSUME NEW w \in Word
      PROVE  /\ t[w] \ {0} = {b + 1 : b \in s[w] \ {top}}
             /\ 0 \in t[w] <=> top \in s[(w + 1) % 4]
  BY <1>1, <1>2 DEF TurnLeft
<1>4. ASSUME NEW w \in Word
      PROVE  TurnRight(t)[w] = s[w]
  <2>1. (w + 3) % 4 \in Word /\ (((w + 3) % 4) + 1) % 4 = w
    BY DEF Word
  <2>2. 0 \in t[(w + 3) % 4] <=> top \in s[w]
    BY <1>3, <2>1
  <2>3. {b - 1 : b \in t[w] \ {0}} = s[w] \ {top}
    <3>1. \A b \in s[w] \ {top} : (b + 1) - 1 = b
      BY <1>1, <1>2
    <3> QED BY <1>3, <3>1
  <2>4. TurnRight(t)[w] = {b - 1 : b \in t[w] \ {0}}
                            \union IF 0 \in t[(w + 3) % 4] THEN {top} ELSE {}
    BY DEF TurnRight
  <2> QED BY <2>2, <2>3, <2>4
<1>5. TurnRight(t) = [w \in Word |-> TurnRight(t)[w]]
  BY DEF TurnRight
<1>6. s = [w \in Word |-> s[w]]
  BY DEF Swid
<1> QED BY <1>4, <1>5, <1>6

-----------------------------------------------------------------------------

\* The bits of an inverted SWID, inverted again, are those it had.
LEMMA NotTwice ==
  ASSUME NEW s \in Swid
  PROVE  NotSwid(NotSwid(s)) = s
BY DEF NotSwid, Swid

\* Two SWIDs combine to one.
LEMMA XorSwidType ==
  ASSUME NEW s \in Swid, NEW t \in Swid
  PROVE  XorSwid(s, t) \in Swid
BY DEF XorSwid, Swid, Xor

\* Applying a SWID twice takes it off again.
LEMMA XorSwidTwice ==
  ASSUME NEW s \in Swid, NEW t
  PROVE  XorSwid(XorSwid(s, t), t) = s
BY XorTwice DEF XorSwid, Swid

\* An inverted SWID is one.
LEMMA NotSwidType == ASSUME NEW s \in Swid PROVE NotSwid(s) \in Swid
BY DEF NotSwid, Swid

\* Dehead reads what SetSafeWallToFileHead wrote with Enhead: the private key
\* and all the rest of the header.
THEOREM DeheadEnhead ==
  ASSUME NEW n \in Nat, NEW code \in [0..n -> Swid], NEW drawn \in Swid
  PROVE  LET object == [code |-> code, privateKey |-> drawn]
         IN Dehead(Enhead(object)) = object
<1> DEFINE object == [code |-> code, privateKey |-> drawn]
           e(i) == XorSwid(NotSwid(XorSwid(code[i], AutoKey)), HeadKey(drawn, i))
           stored == Enhead(object)
<1>1. /\ stored = [code |-> [i \in 0..n |-> e(i)],
                   privateKey |-> XorSwid(AutoKey, drawn)]
      /\ stored.code = [i \in 0..n |-> e(i)]
      /\ stored.privateKey = XorSwid(AutoKey, drawn)
  BY DEF Enhead
<1>2. XorSwid(stored.privateKey, AutoKey) = drawn
  BY <1>1, XorSwidTwice DEF XorSwid, Xor, Swid
<1>3. ASSUME NEW i \in 0..n
      PROVE  XorSwid(NotSwid(XorSwid(e(i), HeadKey(drawn, i))), AutoKey) = code[i]
  <2> DEFINE x == XorSwid(code[i], AutoKey)
  <2>1. code[i] \in Swid /\ x \in Swid /\ NotSwid(x) \in Swid
    BY XorSwidType, NotSwidType
  <2>2. XorSwid(e(i), HeadKey(drawn, i)) = NotSwid(x)
    BY <2>1, XorSwidTwice
  <2>3. NotSwid(NotSwid(x)) = x
    BY <2>1, NotTwice
  <2> QED BY <2>1, <2>2, <2>3, XorSwidTwice
<1>4. Dehead(stored)
        = [code |-> [i \in 0..n |->
                      XorSwid(NotSwid(XorSwid(stored.code[i], HeadKey(drawn, i))), AutoKey)],
           privateKey |-> drawn]
  BY <1>1, <1>2 DEF Dehead
<1>5. Dehead(stored) = [code |-> [i \in 0..n |-> code[i]], privateKey |-> drawn]
  BY <1>1, <1>3, <1>4
<1> QED BY <1>5

-----------------------------------------------------------------------------
(* Quotients and remainders.                                               *)

LEMMA DivMod ==
  ASSUME NEW d \in Nat \ {0}, NEW a \in Nat
  PROVE  /\ a \div d \in Nat /\ a % d \in 0..(d - 1)
         /\ a = d * (a \div d) + (a % d)
OBVIOUS

LEMMA DivMultiple ==
  ASSUME NEW d \in Nat \ {0}, NEW a \in Nat, a % d = 0
  PROVE  a \div d \in Nat /\ a = d * (a \div d)
<1>1. a \div d \in Nat /\ a = d * (a \div d) + 0
  BY DivMod
<1>2. d * (a \div d) \in Int
  BY <1>1
<1> QED BY <1>1, <1>2

LEMMA LessTimes ==
  ASSUME NEW d \in Nat \ {0}, NEW p \in Int, NEW q \in Int, p < q
  PROVE  d * p + d <= d * q
<1>1. d * q = d * p + d * (q - p)
  OBVIOUS
<1>2. q - p - 1 \in Nat
  OBVIOUS
<1>3. d * (q - p - 1) >= 0
  <2>1. \A x, y \in Nat : x * y >= 0
    OBVIOUS
  <2> QED BY <1>2, <2>1
<1>4. d * (q - p) = d * (q - p - 1) + d
  OBVIOUS
<1> QED BY <1>1, <1>3, <1>4

\* Quotient and remainder are the only ones.
LEMMA DivUnique ==
  ASSUME NEW d \in Nat \ {0}, NEW a \in Nat, NEW q \in Nat, NEW r \in 0..(d - 1),
         a = d * q + r
  PROVE  a \div d = q /\ a % d = r
<1> DEFINE q2 == a \div d
           r2 == a % d
<1>1. q2 \in Nat /\ r2 \in 0..(d - 1) /\ a = d * q2 + r2
  BY DivMod
<1> HIDE DEF q2, r2
<1>2. d * q \in Int /\ d * q2 \in Int
  BY <1>1
<1>3. ~(q < q2)
  <2> SUFFICES ASSUME q < q2 PROVE FALSE
    OBVIOUS
  <2>1. d * q + d <= d * q2
    BY <1>1, LessTimes
  <2> QED BY <1>1, <1>2, <2>1
<1>4. ~(q2 < q)
  <2> SUFFICES ASSUME q2 < q PROVE FALSE
    OBVIOUS
  <2>1. d * q2 + d <= d * q
    BY <1>1, LessTimes
  <2> QED BY <1>1, <1>2, <2>1
<1>5. q = q2
  BY <1>1, <1>3, <1>4
<1>6. r = r2
  BY <1>1, <1>2, <1>5
<1> QED BY <1>5, <1>6 DEF q2, r2

\* Multiples of a buffer's size are a buffer apart.
LEMMA Multiples ==
  ASSUME NEW d \in Nat \ {0}, NEW a \in Nat, a % d = 0
  PROVE  /\ (a + d) % d = 0
         /\ \A b \in Nat : b % d = 0 /\ a < b => a + d <= b
<1> DEFINE q == a \div d
<1>1. q \in Nat /\ a = d * q
  BY DivMultiple
<1> HIDE DEF q
<1>2. (a + d) % d = 0
  <2>1. a + d = d * (q + 1) + 0 /\ q + 1 \in Nat /\ a + d \in Nat
    BY <1>1
  <2> QED BY <2>1, DivUnique, SMTT(30)
<1>3. ASSUME NEW b \in Nat, b % d = 0, a < b PROVE a + d <= b
  <2> DEFINE p == b \div d
  <2>1. p \in Nat /\ b = d * p
    BY <1>3, DivMultiple
  <2> HIDE DEF p
  <2>2. ~(p <= q)
    <3> SUFFICES ASSUME p <= q PROVE FALSE
      OBVIOUS
    <3>1. p = q \/ d * p + d <= d * q
      BY <1>1, <2>1, LessTimes
    <3>2. d * p \in Int /\ d * q \in Int
      BY <1>1, <2>1
    <3> QED BY <1>1, <1>3, <2>1, <3>1, <3>2
  <2>3. d * q + d <= d * p
    BY <1>1, <2>1, <2>2, LessTimes
  <2> QED BY <1>1, <2>1, <2>3
<1> QED BY <1>2, <1>3

-----------------------------------------------------------------------------
(* Induction over the natural numbers, for a set.                          *)

LEMMA NatWF == IsWellFoundedOn({ss \in Nat \X Nat : ss[1] < ss[2]}, Nat)
BY NatLessThanWellFounded DEF OpToRel

LEMMA SetInduction ==
  ASSUME NEW S, 0 \in S, \A n \in Nat : n \in S => n + 1 \in S
  PROVE  Nat \subseteq S
<1> SUFFICES ASSUME Nat \ S # {} PROVE FALSE
  OBVIOUS
<1> DEFINE R == {ss \in Nat \X Nat : ss[1] < ss[2]}
           T == Nat \ S
<1>1. IsWellFoundedOn(R, Nat) /\ T \subseteq Nat /\ T # {}
  BY NatWF
<1>2. PICK x \in T : \A y \in T : ~(<<y, x>> \in R)
  <2> HIDE DEF R, T
  <2> QED BY <1>1, WFMin
<1>3. x \in Nat /\ x # 0 /\ x - 1 \in Nat
  BY <1>2
<1>4. x - 1 \in S
  <2>1. <<x - 1, x>> \in R
    BY <1>3
  <2> QED BY <1>2, <1>3, <2>1
<1> QED
  BY <1>2, <1>3, <1>4

-----------------------------------------------------------------------------
(* What n turns of a SWID lead to.                                         *)

\* f gives what the first n turns of s to the left lead to, as LeftTurns defines it.
IsTurning(f, s, n) ==
  f = [k \in 0..n |-> IF k = 0 THEN s ELSE TurnLeft(f[k - 1])]

LEMMA TurningExists ==
  ASSUME NEW s
  PROVE  \A n \in Nat : \E f : IsTurning(f, s, n)
<1> DEFINE S == {n \in Nat : \E f : IsTurning(f, s, n)}
<1>1. 0 \in S
  <2> DEFINE f == [k \in 0..0 |-> s]
  <2>1. IsTurning(f, s, 0)
    BY DEF IsTurning
  <2> QED BY <2>1
<1>2. ASSUME NEW n \in Nat, n \in S PROVE n + 1 \in S
  <2>1. PICK f : IsTurning(f, s, n)
    BY <1>2
  <2> DEFINE g == [k \in 0..(n + 1) |-> IF k = n + 1 THEN TurnLeft(f[n]) ELSE f[k]]
  <2>2. f = [k \in 0..n |-> IF k = 0 THEN s ELSE TurnLeft(f[k - 1])]
    BY <2>1 DEF IsTurning
  <2>3. ASSUME NEW k \in 0..(n + 1)
        PROVE  g[k] = IF k = 0 THEN s ELSE TurnLeft(g[k - 1])
    <3>1. CASE k = n + 1
      BY <3>1
    <3>2. CASE k \in 0..n
      <4>1. f[k] = IF k = 0 THEN s ELSE TurnLeft(f[k - 1])
        BY <2>2, <3>2
      <4>2. g[k] = f[k] /\ (k # 0 => g[k - 1] = f[k - 1])
        BY <3>2
      <4> QED BY <4>1, <4>2
    <3> QED BY <3>1, <3>2
  <2>4. g = [k \in 0..(n + 1) |-> g[k]]
    OBVIOUS
  <2> HIDE DEF g
  <2>5. IsTurning(g, s, n + 1)
    BY <2>3, <2>4 DEF IsTurning
  <2> QED BY <2>5
<1> HIDE DEF S
<1>3. Nat \subseteq S
  BY <1>1, <1>2, SetInduction
<1> QED BY <1>3 DEF S

LEMMA TurningUnique ==
  ASSUME NEW s, NEW f, NEW g, NEW n \in Nat, NEW m \in Nat, n <= m,
         IsTurning(f, s, n), IsTurning(g, s, m)
  PROVE  \A k \in 0..n : f[k] = g[k]
<1> DEFINE S == {k \in Nat : k <= n => f[k] = g[k]}
<1>1. \A k \in 0..n : f[k] = IF k = 0 THEN s ELSE TurnLeft(f[k - 1])
  BY DEF IsTurning
<1>2. \A k \in 0..m : g[k] = IF k = 0 THEN s ELSE TurnLeft(g[k - 1])
  BY DEF IsTurning
<1>3. 0 \in S
  BY <1>1, <1>2
<1>4. ASSUME NEW k \in Nat, k \in S PROVE k + 1 \in S
  <2> SUFFICES ASSUME k + 1 <= n PROVE f[k + 1] = g[k + 1]
    OBVIOUS
  <2>1. k + 1 \in 0..n /\ k + 1 \in 0..m /\ k + 1 # 0 /\ (k + 1) - 1 = k
    OBVIOUS
  <2>2. f[k] = g[k]
    BY <1>4
  <2> QED BY <1>1, <1>2, <2>1, <2>2
<1> HIDE DEF S
<1>5. Nat \subseteq S
  BY <1>3, <1>4, SetInduction
<1> QED BY <1>5 DEF S

LEMMA LeftTurning ==
  ASSUME NEW s, NEW n \in Nat
  PROVE  \E f : IsTurning(f, s, n) /\ LeftTurns(s, n) = f[n]
<1> DEFINE t == CHOOSE f : f = [k \in 0..n |-> IF k = 0 THEN s ELSE TurnLeft(f[k - 1])]
<1>1. LeftTurns(s, n) = t[n]
  BY DEF LeftTurns
<1>2. IsTurning(t, s, n)
  BY TurningExists, SMTT(30) DEF IsTurning
<1> QED BY <1>1, <1>2

\* LeftTurns, turn by turn.
LEMMA LeftTurnsStep ==
  ASSUME NEW s
  PROVE  /\ LeftTurns(s, 0) = s
         /\ \A n \in Nat : LeftTurns(s, n + 1) = TurnLeft(LeftTurns(s, n))
<1>1. LeftTurns(s, 0) = s
  <2>1. PICK f : IsTurning(f, s, 0) /\ LeftTurns(s, 0) = f[0]
    BY LeftTurning
  <2>2. f = [k \in 0..0 |-> IF k = 0 THEN s ELSE TurnLeft(f[k - 1])]
    BY <2>1 DEF IsTurning
  <2> QED BY <2>1, <2>2
<1>2. ASSUME NEW n \in Nat PROVE LeftTurns(s, n + 1) = TurnLeft(LeftTurns(s, n))
  <2>1. PICK f : IsTurning(f, s, n) /\ LeftTurns(s, n) = f[n]
    BY LeftTurning
  <2>2. PICK g : IsTurning(g, s, n + 1) /\ LeftTurns(s, n + 1) = g[n + 1]
    BY LeftTurning
  <2>3. f[n] = g[n]
    BY <2>1, <2>2, TurningUnique
  <2>4. g[n + 1] = TurnLeft(g[n])
    <3>1. n + 1 \in 0..(n + 1) /\ n + 1 # 0 /\ (n + 1) - 1 = n
      OBVIOUS
    <3> QED BY <2>2, <3>1 DEF IsTurning
  <2> QED BY <2>1, <2>2, <2>3, <2>4
<1> QED BY <1>1, <1>2

\* A turned SWID is a SWID.
LEMMA TurnLeftType == ASSUME NEW s \in Swid PROVE TurnLeft(s) \in Swid
<1>1. WordBits \in Nat \ {0}
  BY DEF WordBits
<1>2. \A w \in Word : s[w] \subseteq 0..WordBits - 1
  BY DEF Swid
<1>3. ASSUME NEW w \in Word
      PROVE  {b + 1 : b \in s[w] \ {WordBits - 1}}
               \union (IF WordBits - 1 \in s[(w + 1) % 4] THEN {0} ELSE {})
             \in SUBSET (0..WordBits - 1)
  BY <1>1, <1>2
<1> QED BY <1>3 DEF TurnLeft, Swid

LEMMA LeftTurnsType ==
  ASSUME NEW s \in Swid
  PROVE  \A n \in Nat : LeftTurns(s, n) \in Swid
<1> DEFINE S == {n \in Nat : LeftTurns(s, n) \in Swid}
<1>1. 0 \in S
  BY LeftTurnsStep
<1>2. \A n \in Nat : n \in S => n + 1 \in S
  BY LeftTurnsStep, TurnLeftType
<1> HIDE DEF S
<1>3. Nat \subseteq S
  BY <1>1, <1>2, SetInduction
<1> QED BY <1>3 DEF S

\* Turning on from where m turns have led.
LEMMA LeftTurnsAdd ==
  ASSUME NEW s, NEW m \in Nat
  PROVE  \A n \in Nat : LeftTurns(LeftTurns(s, m), n) = LeftTurns(s, m + n)
<1> DEFINE t == LeftTurns(s, m)
           S == {n \in Nat : LeftTurns(t, n) = LeftTurns(s, m + n)}
<1>1. 0 \in S
  <2>1. LeftTurns(t, 0) = t
    BY LeftTurnsStep
  <2>2. m + 0 = m
    OBVIOUS
  <2> QED BY <2>1, <2>2
<1>2. ASSUME NEW n \in Nat, n \in S PROVE n + 1 \in S
  <2>1. LeftTurns(t, n + 1) = TurnLeft(LeftTurns(t, n))
    BY LeftTurnsStep
  <2>2. LeftTurns(s, (m + n) + 1) = TurnLeft(LeftTurns(s, m + n))
    <3>1. m + n \in Nat
      OBVIOUS
    <3> QED BY <3>1, LeftTurnsStep
  <2>3. m + (n + 1) = (m + n) + 1
    OBVIOUS
  <2>4. LeftTurns(t, n) = LeftTurns(s, m + n)
    BY <1>2
  <2> HIDE DEF t
  <2>5. LeftTurns(t, n + 1) = LeftTurns(s, m + (n + 1))
    BY <2>1, <2>2, <2>3, <2>4
  <2> QED BY <2>5
<1> HIDE DEF S
<1>3. Nat \subseteq S
  BY <1>1, <1>2, SetInduction
<1> QED BY <1>3 DEF S

\* What up to a word of turns leads to: each word moves by n bits into the one
\* before it.
WordTurn(s, n) ==
  [w \in Word |-> {b \in 0..WordBits - 1 :
                     \/ b >= n /\ b - n \in s[w]
                     \/ b < n /\ b + WordBits - n \in s[(w + 1) % 4]}]

LEMMA WordTurnStep ==
  ASSUME NEW s \in Swid, NEW n \in 0..(WordBits - 1)
  PROVE  TurnLeft(WordTurn(s, n)) = WordTurn(s, n + 1)
<1> DEFINE t == WordTurn(s, n)
           top == WordBits - 1
<1>1. WordBits \in Nat \ {0} /\ n \in Nat /\ n <= top
  BY DEF WordBits
<1>2. ASSUME NEW w \in Word, NEW b \in 0..top
      PROVE  b \in t[w] <=> \/ b >= n /\ b - n \in s[w]
                            \/ b < n /\ b + WordBits - n \in s[(w + 1) % 4]
  BY DEF WordTurn
<1>3. \A w \in Word : t[w] \subseteq 0..top
  BY DEF WordTurn
<1>4. ASSUME NEW w \in Word
      PROVE  TurnLeft(t)[w] = WordTurn(s, n + 1)[w]
  <2> DEFINE v == (w + 1) % 4
  <2>1. v \in Word
    BY DEF Word
  <2>2. TurnLeft(t)[w] = {b + 1 : b \in t[w] \ {top}}
                           \union (IF top \in t[v] THEN {0} ELSE {})
    BY DEF TurnLeft
  <2>3. WordTurn(s, n + 1)[w]
          = {b \in 0..top : \/ b >= n + 1 /\ b - (n + 1) \in s[w]
                            \/ b < n + 1 /\ b + WordBits - (n + 1) \in s[v]}
    BY DEF WordTurn
  <2>4. top \in t[v] <=> top - n \in s[v]
    BY <1>1, <1>2, <2>1
  <2> HIDE DEF v, t
  <2>5. ASSUME NEW c \in 1..top
        PROVE  c \in TurnLeft(t)[w] <=> c \in WordTurn(s, n + 1)[w]
    <3>1. c \in TurnLeft(t)[w] <=> c - 1 \in t[w]
      BY <1>1, <1>3, <2>2
    <3>2. c - 1 \in t[w] <=> \/ c - 1 >= n /\ (c - 1) - n \in s[w]
                             \/ c - 1 < n /\ (c - 1) + WordBits - n \in s[v]
      BY <1>1, <1>2 DEF v
    <3>3. (c - 1) - n = c - (n + 1) /\ (c - 1) + WordBits - n = c + WordBits - (n + 1)
      BY <1>1
    <3> QED BY <1>1, <2>3, <3>1, <3>2, <3>3
  <2>6. 0 \in TurnLeft(t)[w] <=> 0 \in WordTurn(s, n + 1)[w]
    <3>1. 0 \in TurnLeft(t)[w] <=> top \in t[v]
      BY <1>1, <1>3, <2>2
    <3>2. 0 + WordBits - (n + 1) = top - n /\ 0 \in 0..top
      BY <1>1
    <3> QED BY <1>1, <2>3, <2>4, <3>1, <3>2
  <2>7. TurnLeft(t)[w] \subseteq 0..top /\ WordTurn(s, n + 1)[w] \subseteq 0..top
    BY <1>1, <1>3, <2>2, <2>3
  <2>8. ASSUME NEW c \in 0..top
        PROVE  c \in TurnLeft(t)[w] <=> c \in WordTurn(s, n + 1)[w]
    <3>1. c = 0 \/ c \in 1..top
      BY <1>1
    <3> QED BY <2>5, <2>6, <3>1
  <2> HIDE DEF top
  <2>9. TurnLeft(t)[w] = WordTurn(s, n + 1)[w]
    BY <2>7, <2>8
  <2> QED BY <2>9 DEF t
<1>5. TurnLeft(t) = [w \in Word |-> TurnLeft(t)[w]]
  BY DEF TurnLeft
<1>6. WordTurn(s, n + 1) = [w \in Word |-> WordTurn(s, n + 1)[w]]
  BY DEF WordTurn
<1> QED BY <1>4, <1>5, <1>6

\* What as many turns as a word has bits, or fewer, lead to.
LEMMA WordTurns ==
  ASSUME NEW s \in Swid
  PROVE  \A n \in 0..WordBits : LeftTurns(s, n) = WordTurn(s, n)
<1> DEFINE S == {n \in Nat : n <= WordBits => LeftTurns(s, n) = WordTurn(s, n)}
<1>1. WordBits \in Nat \ {0}
  BY DEF WordBits
<1>2. 0 \in S
  <2>1. \A w \in Word : s[w] \subseteq 0..WordBits - 1
    BY DEF Swid
  <2>2. ASSUME NEW w \in Word
        PROVE  WordTurn(s, 0)[w] = s[w]
    <3>1. WordTurn(s, 0)[w]
            = {b \in 0..WordBits - 1 : \/ b >= 0 /\ b - 0 \in s[w]
                                       \/ b < 0 /\ b + WordBits - 0 \in s[(w + 1) % 4]}
      BY DEF WordTurn
    <3>2. \A b \in 0..WordBits - 1 :
            (b >= 0 /\ b - 0 \in s[w]) \/ (b < 0 /\ b + WordBits - 0 \in s[(w + 1) % 4])
              <=> b \in s[w]
      BY <1>1
    <3>3. WordTurn(s, 0)[w] = {b \in 0..WordBits - 1 : b \in s[w]}
      BY <3>1, <3>2
    <3> QED BY <2>1, <3>3
  <2>3. WordTurn(s, 0) = [w \in Word |-> WordTurn(s, 0)[w]] /\ s = [w \in Word |-> s[w]]
    BY DEF WordTurn, Swid
  <2>4. WordTurn(s, 0) = s
    BY <2>2, <2>3
  <2> QED BY <2>4, LeftTurnsStep
<1>3. ASSUME NEW n \in Nat, n \in S PROVE n + 1 \in S
  <2> SUFFICES ASSUME n + 1 <= WordBits PROVE LeftTurns(s, n + 1) = WordTurn(s, n + 1)
    OBVIOUS
  <2>1. n \in 0..(WordBits - 1)
    BY <1>1
  <2>2. LeftTurns(s, n) = WordTurn(s, n)
    BY <1>1, <1>3
  <2> QED BY <2>1, <2>2, LeftTurnsStep, WordTurnStep
<1> HIDE DEF S
<1>4. Nat \subseteq S
  BY <1>2, <1>3, SetInduction
<1> QED BY <1>1, <1>4 DEF S

\* As many turns as a word has bits move whole words.
LEMMA WordsTurned ==
  ASSUME NEW s \in Swid
  PROVE  /\ LeftTurns(s, WordBits) = WordsLeft(s, 1)
         /\ LeftTurns(s, 2 * WordBits) = WordsLeft(s, 2)
         /\ LeftTurns(s, 3 * WordBits) = WordsLeft(s, 3)
         /\ LeftTurns(s, SwidBits) = s
<1>1. WordBits \in Nat \ {0} /\ 2 * WordBits \in Nat /\ 3 * WordBits \in Nat
      /\ WordBits + WordBits = 2 * WordBits /\ 2 * WordBits + WordBits = 3 * WordBits
      /\ 3 * WordBits + WordBits = SwidBits
  BY DEF WordBits, SwidBits
<1>2. ASSUME NEW t \in Swid PROVE LeftTurns(t, WordBits) = WordsLeft(t, 1)
  <2>1. LeftTurns(t, WordBits) = WordTurn(t, WordBits)
    BY <1>1, WordTurns
  <2>2. \A w \in Word : t[w] \subseteq 0..WordBits - 1
    BY DEF Swid
  <2>3. ASSUME NEW w \in Word
        PROVE  WordTurn(t, WordBits)[w] = t[(w + 1) % 4]
    <3> DEFINE v == (w + 1) % 4
    <3>1. v \in Word
      BY DEF Word
    <3>2. WordTurn(t, WordBits)[w]
            = {b \in 0..WordBits - 1 :
                 \/ b >= WordBits /\ b - WordBits \in t[w]
                 \/ b < WordBits /\ b + WordBits - WordBits \in t[v]}
      BY DEF WordTurn
    <3> HIDE DEF v
    <3>3. WordTurn(t, WordBits)[w] = {b \in 0..WordBits - 1 : b \in t[v]}
      BY <1>1, <3>2
    <3>4. WordTurn(t, WordBits)[w] = t[v]
      BY <2>2, <3>1, <3>3
    <3> QED BY <3>4 DEF v
  <2>4. WordTurn(t, WordBits) = [w \in Word |-> WordTurn(t, WordBits)[w]]
    BY DEF WordTurn
  <2> QED BY <2>1, <2>3, <2>4 DEF WordsLeft
<1>3. ASSUME NEW k \in {1, 2, 3}
      PROVE  WordsLeft(s, k) \in Swid /\ WordsLeft(WordsLeft(s, k), 1) = WordsLeft(s, k + 1)
  <2>1. ASSUME NEW w \in Word
        PROVE  /\ (w + k) % 4 \in Word /\ (w + 1) % 4 \in Word
               /\ (((w + 1) % 4) + k) % 4 = (w + (k + 1)) % 4
    <3>1. w \in {0, 1, 2, 3}
      BY DEF Word
    <3> QED BY <3>1 DEF Word
  <2>2. WordsLeft(s, k) \in Swid
    BY <2>1 DEF WordsLeft, Swid
  <2> QED BY <2>1, <2>2 DEF WordsLeft
<1>4. WordsLeft(s, 4) = s
  <2>1. \A w \in Word : (w + 4) % 4 = w
    BY DEF Word
  <2> QED BY <2>1 DEF WordsLeft, Swid
<1>5. LeftTurns(s, WordBits) = WordsLeft(s, 1)
  BY <1>2
<1>6. LeftTurns(s, 2 * WordBits) = WordsLeft(s, 2)
  <2>1. LeftTurns(LeftTurns(s, WordBits), WordBits) = LeftTurns(s, 2 * WordBits)
    BY <1>1, LeftTurnsAdd
  <2> QED BY <1>2, <1>3, <1>5, <2>1
<1>7. LeftTurns(s, 3 * WordBits) = WordsLeft(s, 3)
  <2>1. LeftTurns(LeftTurns(s, 2 * WordBits), WordBits) = LeftTurns(s, 3 * WordBits)
    BY <1>1, LeftTurnsAdd
  <2> QED BY <1>2, <1>3, <1>6, <2>1
<1>8. LeftTurns(s, SwidBits) = s
  <2>1. LeftTurns(LeftTurns(s, 3 * WordBits), WordBits) = LeftTurns(s, SwidBits)
    BY <1>1, LeftTurnsAdd
  <2> QED BY <1>2, <1>3, <1>4, <1>7, <2>1
<1> QED BY <1>5, <1>6, <1>7, <1>8

LEMMA SwidBitsPositive == SwidBits \in Nat \ {0} /\ WordBits \in Nat \ {0}
BY DEF SwidBits, WordBits

\* Whole circles do not move a SWID.
LEMMA Circles ==
  ASSUME NEW s \in Swid
  PROVE  \A n \in Nat : LeftTurns(s, n % SwidBits) = LeftTurns(s, n)
<1> DEFINE S == {k \in Nat : LeftTurns(s, SwidBits * k) = s}
<1>0. SwidBits \in Nat \ {0}
  BY SwidBitsPositive
<1>1. 0 \in S
  <2>1. SwidBits * 0 = 0
    BY <1>0
  <2> QED BY <2>1, LeftTurnsStep
<1>2. ASSUME NEW k \in Nat, k \in S PROVE k + 1 \in S
  <2>1. SwidBits * k \in Nat /\ SwidBits * (k + 1) = SwidBits * k + SwidBits
    BY <1>0
  <2>2. LeftTurns(LeftTurns(s, SwidBits * k), SwidBits) = LeftTurns(s, SwidBits * k + SwidBits)
    BY <1>0, <2>1, LeftTurnsAdd
  <2>3. LeftTurns(s, SwidBits * k) = s
    BY <1>2
  <2> QED BY <2>1, <2>2, <2>3, WordsTurned
<1> HIDE DEF S
<1>3. Nat \subseteq S
  BY <1>1, <1>2, SetInduction
<1>4. ASSUME NEW n \in Nat PROVE LeftTurns(s, n % SwidBits) = LeftTurns(s, n)
  <2> DEFINE k == n \div SwidBits
             r == n % SwidBits
  <2>0. k \in Nat /\ r \in 0..(SwidBits - 1) /\ n = SwidBits * k + r
    BY <1>0, DivMod
  <2> HIDE DEF k, r
  <2>1. k \in Nat /\ r \in Nat /\ n = SwidBits * k + r
    BY <2>0
  <2>2. SwidBits * k \in Nat
    BY <1>0, <2>1
  <2>3. LeftTurns(s, SwidBits * k) = s
    BY <1>3, <2>1 DEF S
  <2>4. LeftTurns(LeftTurns(s, SwidBits * k), r) = LeftTurns(s, SwidBits * k + r)
    BY <2>1, <2>2, LeftTurnsAdd
  <2>5. LeftTurns(s, r) = LeftTurns(s, n)
    BY <2>1, <2>3, <2>4
  <2> QED BY <2>5 DEF r
<1> QED BY <1>4

\* Moving halves and words first comes to the same.
LEMMA InlineLeftIs ==
  ASSUME NEW s \in Swid, NEW more \in Nat
  PROVE  InlineLeftCircleSwid(s, more) = LeftTurns(s, more)
<1> DEFINE n == more % SwidBits
           half == IF n > 2 * WordBits THEN WordsLeft(s, 2) ELSE s
           word == IF AfterHalf(n) > WordBits THEN WordsLeft(half, 1) ELSE half
<1>1. InlineLeftCircleSwid(s, more) = LeftTurns(word, AfterWord(n))
  BY DEF InlineLeftCircleSwid
<1>2. n \in Nat
  BY SwidBitsPositive, DivMod
<1>3. LeftTurns(s, n) = LeftTurns(s, more)
  BY Circles
<1> HIDE DEF n
<1>4. /\ half \in Swid /\ AfterHalf(n) \in Nat
      /\ LeftTurns(half, AfterHalf(n)) = LeftTurns(s, n)
  <2>1. CASE n > 2 * WordBits
    <3>1. AfterHalf(n) = n - 2 * WordBits /\ AfterHalf(n) \in Nat
          /\ 2 * WordBits \in Nat /\ 2 * WordBits + AfterHalf(n) = n
      BY <1>2, <2>1, SwidBitsPositive DEF AfterHalf
    <3>2. half = LeftTurns(s, 2 * WordBits)
      BY <2>1, WordsTurned
    <3>3. half \in Swid
      BY <3>1, <3>2, LeftTurnsType
    <3>4. LeftTurns(LeftTurns(s, 2 * WordBits), AfterHalf(n))
            = LeftTurns(s, 2 * WordBits + AfterHalf(n))
      BY <3>1, LeftTurnsAdd
    <3> QED BY <3>1, <3>2, <3>3, <3>4
  <2>2. CASE ~(n > 2 * WordBits)
    BY <1>2, <2>2 DEF AfterHalf
  <2> QED BY <2>1, <2>2
<1> HIDE DEF half
<1>5. /\ AfterWord(n) \in Nat
      /\ LeftTurns(word, AfterWord(n)) = LeftTurns(s, n)
  <2>1. CASE AfterHalf(n) > WordBits
    <3>1. AfterWord(n) = AfterHalf(n) - WordBits /\ AfterWord(n) \in Nat
          /\ WordBits \in Nat /\ WordBits + AfterWord(n) = AfterHalf(n)
      BY <1>4, <2>1, SwidBitsPositive DEF AfterWord
    <3>2. word = LeftTurns(half, WordBits)
      BY <1>4, <2>1, WordsTurned
    <3>3. LeftTurns(LeftTurns(half, WordBits), AfterWord(n))
            = LeftTurns(half, WordBits + AfterWord(n))
      BY <3>1, LeftTurnsAdd
    <3> QED BY <1>4, <3>1, <3>2, <3>3
  <2>2. CASE ~(AfterHalf(n) > WordBits)
    BY <1>4, <2>2 DEF AfterWord
  <2> QED BY <2>1, <2>2
<1> QED BY <1>1, <1>3, <1>5

\* As many turns to the right take back those to the left.
LEMMA RightTurnsBack ==
  ASSUME NEW s \in Swid, NEW n \in Nat
  PROVE  RightTurns(LeftTurns(s, n), n) = s
<1> DEFINE t == LeftTurns(s, n)
           f == CHOOSE g : g = [k \in 0..n |-> IF k = 0 THEN t ELSE TurnRight(g[k - 1])]
           h == [k \in 0..n |-> LeftTurns(s, n - k)]
           S == {k \in Nat : k <= n => f[k] = LeftTurns(s, n - k)}
<1>1. RightTurns(t, n) = f[n]
  BY DEF RightTurns
<1>2. ASSUME NEW k \in 1..n
      PROVE  LeftTurns(s, n - k) = TurnRight(LeftTurns(s, n - (k - 1)))
  <2>1. n - k \in Nat /\ n - (k - 1) = (n - k) + 1
    OBVIOUS
  <2>2. LeftTurns(s, (n - k) + 1) = TurnLeft(LeftTurns(s, n - k))
    BY <2>1, LeftTurnsStep
  <2> QED BY <2>1, <2>2, LeftTurnsType, TurnRightLeft
<1>3. n - 0 = n /\ n - n = 0
  OBVIOUS
<1>4. f = [k \in 0..n |-> IF k = 0 THEN t ELSE TurnRight(f[k - 1])]
  <2>1. ASSUME NEW k \in 0..n
        PROVE  h[k] = IF k = 0 THEN t ELSE TurnRight(h[k - 1])
    <3>1. CASE k = 0
      BY <1>3, <3>1
    <3>2. CASE k # 0
      <4>1. k \in 1..n /\ k - 1 \in 0..n
        BY <3>2
      <4> QED BY <1>2, <3>2, <4>1
    <3> QED BY <3>1, <3>2
  <2>2. h = [k \in 0..n |-> h[k]]
    OBVIOUS
  <2> HIDE DEF h, t
  <2>3. h = [k \in 0..n |-> IF k = 0 THEN t ELSE TurnRight(h[k - 1])]
    BY <2>1, <2>2
  <2> QED BY <2>3
<1> HIDE DEF f, h
<1>5. 0 \in S
  <2>1. f[0] = t
    BY <1>4
  <2> QED BY <1>3, <2>1
<1>6. ASSUME NEW k \in Nat, k \in S PROVE k + 1 \in S
  <2> SUFFICES ASSUME k + 1 <= n PROVE f[k + 1] = LeftTurns(s, n - (k + 1))
    OBVIOUS
  <2>1. k + 1 \in 1..n /\ (k + 1) - 1 = k /\ k + 1 # 0 /\ k + 1 \in 0..n
    OBVIOUS
  <2>2. f[k + 1] = TurnRight(f[k])
    BY <1>4, <2>1
  <2>3. f[k] = LeftTurns(s, n - k)
    BY <1>6
  <2> QED BY <1>2, <2>1, <2>2, <2>3
<1> HIDE DEF S
<1>7. Nat \subseteq S
  BY <1>5, <1>6, SetInduction
<1>8. f[n] = s
  BY <1>3, <1>7, LeftTurnsStep DEF S
<1> QED BY <1>1, <1>8

\* InlineRightCircleSwid takes back what as many turns to the left did.
LEMMA InlineRightBack ==
  ASSUME NEW s \in Swid, NEW more \in Nat
  PROVE  InlineRightCircleSwid(LeftTurns(s, more), more) = s
<1> DEFINE n == more % SwidBits
           t == LeftTurns(s, more)
           half == IF n > 2 * WordBits THEN WordsLeft(t, 2) ELSE t
           word == IF AfterHalf(n) > WordBits THEN WordsLeft(half, 3) ELSE half
<1>1. InlineRightCircleSwid(t, more) = RightTurns(word, AfterWord(n))
  BY DEF InlineRightCircleSwid
<1>2. n \in Nat
  BY SwidBitsPositive, DivMod
<1>3. t = LeftTurns(s, n) /\ t \in Swid
  BY Circles, LeftTurnsType
<1> HIDE DEF n, t
<1>w. /\ WordBits \in Nat \ {0} /\ 2 * WordBits \in Nat /\ 3 * WordBits \in Nat
      /\ SwidBits = 4 * WordBits /\ SwidBits \in Nat
  BY SwidBitsPositive DEF SwidBits
<1>4. AfterHalf(n) \in Nat /\ half \in Swid /\ half = LeftTurns(s, AfterHalf(n))
  <2>1. CASE n > 2 * WordBits
    <3> DEFINE m == n - 2 * WordBits
    <3>1. m \in Nat /\ AfterHalf(n) = m /\ n + 2 * WordBits \in Nat
          /\ n + 2 * WordBits = SwidBits + m
      BY <1>2, <1>w, <2>1 DEF AfterHalf
    <3> HIDE DEF m
    <3>2. half = LeftTurns(t, 2 * WordBits)
      BY <1>3, <2>1, WordsTurned
    <3>3. LeftTurns(LeftTurns(s, n), 2 * WordBits) = LeftTurns(s, n + 2 * WordBits)
      BY <1>2, <1>w, LeftTurnsAdd
    <3>4. LeftTurns(LeftTurns(s, SwidBits), m) = LeftTurns(s, SwidBits + m)
      BY <1>w, <3>1, LeftTurnsAdd
    <3>5. half = LeftTurns(s, m)
      BY <1>3, <3>1, <3>2, <3>3, <3>4, WordsTurned
    <3> QED BY <3>1, <3>5, LeftTurnsType
  <2>2. CASE ~(n > 2 * WordBits)
    BY <1>2, <1>3, <2>2 DEF AfterHalf
  <2> QED BY <2>1, <2>2
<1> HIDE DEF half
<1>5. AfterWord(n) \in Nat /\ word = LeftTurns(s, AfterWord(n))
  <2>1. CASE AfterHalf(n) > WordBits
    <3> DEFINE a == AfterHalf(n)
               m == a - WordBits
    <3>1. m \in Nat /\ AfterWord(n) = m /\ a \in Nat /\ a + 3 * WordBits = SwidBits + m
      BY <1>4, <1>w, <2>1 DEF AfterWord
    <3> HIDE DEF m
    <3>2. word = LeftTurns(half, 3 * WordBits)
      BY <1>4, <2>1, WordsTurned
    <3>3. LeftTurns(LeftTurns(s, a), 3 * WordBits) = LeftTurns(s, a + 3 * WordBits)
      BY <1>w, <3>1, LeftTurnsAdd
    <3>4. LeftTurns(LeftTurns(s, SwidBits), m) = LeftTurns(s, SwidBits + m)
      BY <1>w, <3>1, LeftTurnsAdd
    <3>5. word = LeftTurns(s, m)
      BY <1>4, <3>1, <3>2, <3>3, <3>4, WordsTurned
    <3> QED BY <3>1, <3>5
  <2>2. CASE ~(AfterHalf(n) > WordBits)
    BY <1>4, <2>2 DEF AfterWord
  <2> QED BY <2>1, <2>2
<1>6. InlineRightCircleSwid(t, more) = s
  BY <1>1, <1>5, RightTurnsBack
<1> QED BY <1>6 DEF t

\* The turns the driver makes are turns by one bit, and undo each other, whatever
\* the width of a word (InlineLeftCircleSwid, InlineRightCircleSwid).
LEMMA TurnsOfKey ==
  ASSUME key \in Swid
  PROVE  TurnsAgree
<1> SUFFICES ASSUME NEW n \in 0..SwidBits
             PROVE  /\ InlineLeftCircleSwid(key, n) = LeftTurns(key, n)
                    /\ InlineLeftCircleSwid(key, SwidBits + n) = InlineLeftCircleSwid(key, n)
                    /\ InlineRightCircleSwid(InlineLeftCircleSwid(key, n), n) = key
  BY DEF TurnsAgree
<1>1. n \in Nat /\ SwidBits \in Nat /\ SwidBits + n \in Nat
  BY SwidBitsPositive
<1>2. LeftTurns(key, SwidBits + n) = LeftTurns(key, n)
  <2>1. LeftTurns(LeftTurns(key, SwidBits), n) = LeftTurns(key, SwidBits + n)
    BY <1>1, LeftTurnsAdd
  <2> QED BY <2>1, WordsTurned
<1>3. /\ InlineLeftCircleSwid(key, n) = LeftTurns(key, n)
      /\ InlineLeftCircleSwid(key, SwidBits + n) = LeftTurns(key, SwidBits + n)
  BY <1>1, InlineLeftIs
<1>4. InlineRightCircleSwid(LeftTurns(key, n), n) = key
  BY <1>1, InlineRightBack
<1> QED BY <1>2, <1>3, <1>4

-----------------------------------------------------------------------------
(* The keys of a block, whichever buffer it comes in.                      *)

LEMMA Widths ==
  /\ SwidBytes \in Nat \ {0} /\ KeyBytes \in Nat \ {0}
  /\ Period = KeyBytes * SwidBytes /\ Period \in Nat \ {0}
<1>1. SwidBytes \in Nat \ {0} /\ KeyBytes \in Nat \ {0}
  BY DEF SwidBytes
<1>2. \A x, y \in Nat \ {0} : x * y \in Nat \ {0}
  OBVIOUS
<1> HIDE DEF SwidBytes
<1> QED BY <1>1, <1>2 DEF Period

\* A public key's period is KEYBYTESOFFSET blocks.
LEMMA PeriodOf ==
  ASSUME NEW x \in Nat
  PROVE  /\ SwidBytes * x \in Nat
         /\ (SwidBytes * x) \div Period = x \div KeyBytes
         /\ (SwidBytes * x) % Period = 0 <=> x % KeyBytes = 0
<1> DEFINE q == x \div KeyBytes
           r == x % KeyBytes
           b == SwidBytes
           k == KeyBytes
<1>1. b \in Nat \ {0} /\ k \in Nat \ {0} /\ Period = k * b /\ Period \in Nat \ {0}
  BY Widths
<1>2. q \in Nat /\ r \in 0..(k - 1) /\ x = k * q + r
  BY <1>1, DivMod
<1> HIDE DEF q, r, b, k
<1>3. /\ b * x \in Nat /\ k * q \in Nat /\ b * r \in Nat
      /\ b * x = b * (k * q) + b * r /\ b * (k * q) = (k * b) * q
  <2>1. \A i, j \in Nat : i * j \in Nat
    OBVIOUS
  <2>2. k * q \in Nat /\ b * r \in Nat /\ b * x \in Nat /\ r \in Nat
    BY <1>1, <1>2, <2>1
  <2>3. \A i, j, h \in Nat : i * (j + h) = i * j + i * h /\ i * (j * h) = (j * i) * h
    OBVIOUS
  <2> QED BY <1>1, <1>2, <2>2, <2>3
<1>4. b * r + b <= b * k
  <2>1. r \in Int /\ k \in Int /\ r < k
    BY <1>1, <1>2
  <2> QED BY <1>1, <2>1, LessTimes
<1>5. b * k = Period
  BY <1>1
<1>6. b * r \in 0..(Period - 1)
  BY <1>1, <1>3, <1>4, <1>5
<1>7. b * x = Period * q + b * r
  BY <1>1, <1>3
<1>8. (b * x) \div Period = q /\ (b * x) % Period = b * r
  <2> DEFINE y == b * x
             z == b * r
  <2>1. y \in Nat /\ z \in 0..(Period - 1) /\ y = Period * q + z
    BY <1>3, <1>6, <1>7
  <2> HIDE DEF y, z
  <2>2. y \div Period = q /\ y % Period = z
    BY <1>1, <1>2, <2>1, DivUnique
  <2> QED BY <2>2 DEF y, z
<1>9. b * r = 0 <=> r = 0
  <2>1. \A i \in Nat \ {0} : \A j \in Nat : i * j = 0 <=> j = 0
    OBVIOUS
  <2> QED BY <1>1, <1>2, <2>1
<1> QED BY <1>3, <1>8, <1>9 DEF q, r, b, k

\* A quotient grows with every multiple, where the remainder starts again.
LEMMA DivNext ==
  ASSUME NEW d \in Nat \ {0}, NEW x \in Nat
  PROVE  /\ (x + 1) \div d = (x \div d) + (IF (x + 1) % d = 0 THEN 1 ELSE 0)
         /\ (x + 1) % d = IF x % d = d - 1 THEN 0 ELSE (x % d) + 1
<1> DEFINE q == x \div d
           r == x % d
<1>1. q \in Nat /\ r \in 0..(d - 1) /\ x = d * q + r
  BY DivMod
<1> HIDE DEF q, r
<1>2. d * q \in Int /\ d * (q + 1) = d * q + d /\ x + 1 \in Nat
  BY <1>1
<1>3. CASE r = d - 1
  <2>1. x + 1 = d * (q + 1) + 0 /\ q + 1 \in Nat /\ 0 \in 0..(d - 1)
    BY <1>1, <1>2, <1>3
  <2>2. (x + 1) \div d = q + 1 /\ (x + 1) % d = 0
    BY <1>2, <2>1, DivUnique
  <2> QED BY <1>3, <2>2 DEF q, r
<1>4. CASE r # d - 1
  <2>1. x + 1 = d * q + (r + 1) /\ r + 1 \in 0..(d - 1) /\ r + 1 # 0
    BY <1>1, <1>2, <1>4
  <2>2. (x + 1) \div d = q /\ (x + 1) % d = r + 1
    BY <1>1, <1>2, <2>1, DivUnique
  <2>3. q + 0 = q
    BY <1>1
  <2> QED BY <1>4, <2>1, <2>2, <2>3 DEF q, r
<1> QED BY <1>3, <1>4

\* How many of n + 1 numbers in a row, from a on, are multiples.
LEMMA CountMultiples ==
  ASSUME NEW d \in Nat \ {0}, NEW a \in Nat
  PROVE  \A n \in Nat :
           LET M == {j \in 0..n : (a + j) % d = 0} IN
           /\ IsFiniteSet(M) /\ Cardinality(M) \in Nat
           /\ Cardinality(M) + (a \div d) + (IF a % d = 0 THEN 0 ELSE 1)
                = ((a + n) \div d) + 1
<1> DEFINE M(n) == {j \in 0..n : (a + j) % d = 0}
           c == (a \div d) + (IF a % d = 0 THEN 0 ELSE 1)
           Good(n) == /\ IsFiniteSet(M(n)) /\ Cardinality(M(n)) \in Nat
                      /\ Cardinality(M(n)) + c = ((a + n) \div d) + 1
           S == {n \in Nat : Good(n)}
<1>1. a \div d \in Nat /\ c \in Nat
  <2>1. a \div d \in Nat
    BY DivMod
  <2>2. \A x \in Nat : x + 0 \in Nat /\ x + 1 \in Nat
    OBVIOUS
  <2> QED BY <2>1, <2>2
<1>2. 0 \in S
  <2>1. CASE a % d = 0
    <3>1. M(0) = {} \union {0} /\ 0 \notin {}
      BY <2>1
    <3>2. IsFiniteSet(M(0)) /\ Cardinality(M(0)) = 0 + 1
      <4>1. IsFiniteSet({}) /\ Cardinality({}) = 0
        BY FS_EmptySet
      <4> HIDE DEF M
      <4>2. IsFiniteSet({} \union {0}) /\ Cardinality({} \union {0}) = Cardinality({}) + 1
        BY <3>1, <4>1, FS_AddElement
      <4> QED BY <3>1, <4>1, <4>2
    <3>3. c = a \div d /\ a + 0 = a
      BY <1>1, <2>1
    <3> HIDE DEF M, c
    <3> QED BY <1>1, <3>2, <3>3
  <2>2. CASE a % d # 0
    <3>1. M(0) = {}
      BY <2>2
    <3>2. IsFiniteSet(M(0)) /\ Cardinality(M(0)) = 0
      BY <3>1, FS_EmptySet
    <3>3. c = (a \div d) + 1 /\ a + 0 = a
      BY <1>1, <2>2
    <3> HIDE DEF M, c
    <3> QED BY <1>1, <3>2, <3>3
  <2> QED BY <2>1, <2>2
<1> HIDE DEF c
<1>3. ASSUME NEW n \in Nat, n \in S PROVE n + 1 \in S
  <2>1. Good(n)
    BY <1>3
  <2>2. a + n \in Nat /\ a + (n + 1) = (a + n) + 1 /\ (a + n) \div d \in Nat
    <3>1. a + n \in Nat /\ a + (n + 1) = (a + n) + 1
      OBVIOUS
    <3> QED BY <3>1, DivMod
  <2>3. ((a + n) + 1) \div d = ((a + n) \div d) + (IF ((a + n) + 1) % d = 0 THEN 1 ELSE 0)
    BY <2>2, DivNext
  <2>4. CASE ((a + n) + 1) % d = 0
    <3>1. M(n + 1) = M(n) \union {n + 1} /\ n + 1 \notin M(n)
      BY <2>2, <2>4
    <3> HIDE DEF M
    <3>2. IsFiniteSet(M(n + 1)) /\ Cardinality(M(n + 1)) = Cardinality(M(n)) + 1
      BY <2>1, <3>1, FS_AddElement
    <3>3. ((a + n) + 1) \div d = ((a + n) \div d) + 1
      BY <2>3, <2>4
    <3> QED BY <1>1, <2>1, <2>2, <3>2, <3>3
  <2>5. CASE ((a + n) + 1) % d # 0
    <3>1. M(n + 1) = M(n)
      BY <2>2, <2>5
    <3> HIDE DEF M
    <3>2. ((a + n) + 1) \div d = (a + n) \div d
      BY <2>2, <2>3, <2>5
    <3> QED BY <1>1, <2>1, <2>2, <3>1, <3>2
  <2> QED BY <2>4, <2>5
<1> HIDE DEF S
<1>4. Nat \subseteq S
  BY <1>2, <1>3, SetInduction
<1>5. \A n \in Nat : Good(n)
  BY <1>4 DEF S
<1>6. a % d \in Nat
  BY DivMod
<1>7. ASSUME NEW n \in Nat
      PROVE  Cardinality(M(n)) + (a \div d) + (IF a % d = 0 THEN 0 ELSE 1)
               = ((a + n) \div d) + 1
  <2> HIDE DEF M
  <2>1. /\ Cardinality(M(n)) \in Nat
        /\ Cardinality(M(n)) + c = ((a + n) \div d) + 1
    BY <1>5
  <2> QED BY <1>1, <2>1 DEF c
<1> QED BY <1>5, <1>7

\* A buffer that begins with a block has no bytes before it.
LEMMA Aligned ==
  ASSUME NEW a \in Nat, NEW len, NEW q \in Nat
  PROVE  LET off == SwidBytes * a IN
         /\ off \in Nat /\ off % SwidBytes = 0 /\ off \div SwidBytes = a
         /\ HeadBytes(len, off) = 0 /\ Block(len, off, q) = q \div SwidBytes
         /\ KeyIndex(len, off, q) = q % SwidBytes
         /\ q \div SwidBytes \in Nat
<1> DEFINE off == SwidBytes * a
           b == SwidBytes
<1>1. b \in Nat \ {0}
  BY Widths
<1>2. off \in Nat
  BY PeriodOf
<1> HIDE DEF off
<1>3. off = b * a + 0 /\ 0 \in 0..(b - 1)
  <2>1. b * a \in Int
    BY <1>2 DEF off
  <2> HIDE DEF b
  <2> QED BY <1>1, <2>1 DEF off, b
<1> HIDE DEF b
<1>4. off \div b = a /\ off % b = 0
  BY <1>1, <1>2, <1>3, DivUnique
<1>5. HeadBytes(len, off) = 0
  BY <1>4 DEF HeadBytes, b
<1>6. q - 0 = q /\ ~(q < 0)
  OBVIOUS
<1>7. q \div b \in Nat
  BY <1>1, DivMod
<1> QED BY <1>2, <1>4, <1>5, <1>6, <1>7 DEF Block, KeyIndex, off, b

\* The private key has turned once for every block of the file (PrivateKeyAt).
LEMMA PrivateTurned ==
  ASSUME NEW s \in Swid, NEW a \in Nat, NEW len, NEW q \in Nat
  PROVE  PrivateKeyAt(s, len, SwidBytes * a, q) = LeftTurns(s, (a + (q \div SwidBytes)) + 1)
<1> DEFINE off == SwidBytes * a
           j == q \div SwidBytes
           r == a % SwidBits
<1>1. /\ off % SwidBytes = 0 /\ off \div SwidBytes = a /\ j \in Nat
      /\ HeadBytes(len, off) = 0 /\ Block(len, off, q) = j
  BY Aligned
<1> HIDE DEF off, j
<1>2. r \in Nat /\ r + 0 = r /\ ~(q < 0)
  BY SwidBitsPositive, DivMod
<1> HIDE DEF r
<1>3. PrivateLoop(off) = r
  BY <1>1, <1>2, WidthAssumption DEF PrivateLoop, r
<1>4. InlineLeftCircleSwid(s, r) = LeftTurns(s, a)
  BY <1>2, InlineLeftIs, Circles DEF r
<1>5. j + 1 \in Nat /\ a + (j + 1) = (a + j) + 1
  BY <1>1
<1>6. LeftTurns(LeftTurns(s, a), j + 1) = LeftTurns(s, a + (j + 1))
  BY <1>5, LeftTurnsAdd
<1> QED BY <1>1, <1>2, <1>3, <1>4, <1>5, <1>6 DEF PrivateKeyAt, off, j

\* The public key has turned once for every period that has begun (PublicKeyAt).
LEMMA PublicTurned ==
  ASSUME NEW s \in Swid, NEW a \in Nat, NEW len, NEW q \in Nat
  PROVE  PublicKeyAt(s, len, SwidBytes * a, q)
           = LeftTurns(s, ((a + (q \div SwidBytes)) \div KeyBytes) + 1)
<1> DEFINE off == SwidBytes * a
           j == q \div SwidBytes
           A == a \div KeyBytes
           e == IF a % KeyBytes = 0 THEN 0 ELSE 1
           M == {i \in 0..j : (a + i) % KeyBytes = 0}
           r == A % SwidBits
<1>1. /\ off \in Nat /\ j \in Nat
      /\ HeadBytes(len, off) = 0 /\ Block(len, off, q) = j
  BY Aligned
<1>2. off \div Period = A /\ (off % Period = 0 <=> a % KeyBytes = 0)
  BY PeriodOf
<1>3. A \in Nat /\ e \in {0, 1}
  BY Widths, DivMod
<1>4. Crossings(len, off, j) = Cardinality(M)
  <2>1. Crossings(len, off, j)
          = Cardinality({i \in 0..j : (off + 0 + (i * SwidBytes)) % Period = 0})
    BY <1>1 DEF Crossings
  <2>2. ASSUME NEW i \in 0..j
        PROVE  (off + 0 + (i * SwidBytes)) % Period = 0 <=> (a + i) % KeyBytes = 0
    <3>1. i \in Nat /\ a + i \in Nat /\ SwidBytes \in Nat
      BY Widths
    <3> HIDE DEF j
    <3>2. SwidBytes * a + 0 + (i * SwidBytes) = SwidBytes * (a + i)
      BY <3>1
    <3> QED BY <3>1, <3>2, PeriodOf
  <2> HIDE DEF off, j
  <2> QED BY <2>1, <2>2
<1>5. /\ Cardinality(M) \in Nat
      /\ Cardinality(M) + A + e = ((a + j) \div KeyBytes) + 1
  <2> HIDE DEF j
  <2>1. KeyBytes \in Nat \ {0}
    BY Widths
  <2>2. \A n \in Nat :
          /\ Cardinality({i \in 0..n : (a + i) % KeyBytes = 0}) \in Nat
          /\ Cardinality({i \in 0..n : (a + i) % KeyBytes = 0})
               + (a \div KeyBytes) + (IF a % KeyBytes = 0 THEN 0 ELSE 1)
               = ((a + n) \div KeyBytes) + 1
    BY <2>1, CountMultiples
  <2> QED BY <1>1, <2>2
<1> HIDE DEF off, j, A, e, M
<1>6. r \in Nat /\ r + e \in Nat /\ e + Cardinality(M) \in Nat /\ e \in Nat
  BY <1>3, <1>5, SwidBitsPositive, DivMod
<1>7. PublicLoop(off) = r + e
  BY <1>2, WidthAssumption DEF PublicLoop, e
<1>8. PublicTurns(len, off, q) = Cardinality(M)
  <2>1. ~(q < 0)
    OBVIOUS
  <2> QED BY <1>1, <1>4, <2>1 DEF PublicTurns
<1>9. PublicKeyAt(s, len, off, q) = LeftTurns(LeftTurns(s, r + e), Cardinality(M))
  BY <1>6, <1>7, <1>8, InlineLeftIs DEF PublicKeyAt
<1>10. LeftTurns(LeftTurns(s, r + e), Cardinality(M)) = LeftTurns(s, r + (e + Cardinality(M)))
  <2>1. (r + e) + Cardinality(M) = r + (e + Cardinality(M))
    BY <1>5, <1>6
  <2> QED BY <1>5, <1>6, <2>1, LeftTurnsAdd
<1>11. LeftTurns(s, r + (e + Cardinality(M))) = LeftTurns(LeftTurns(s, r), e + Cardinality(M))
  BY <1>6, LeftTurnsAdd
<1>12. LeftTurns(s, r) = LeftTurns(s, A)
  BY <1>3, Circles DEF r
<1>13. LeftTurns(LeftTurns(s, A), e + Cardinality(M)) = LeftTurns(s, A + (e + Cardinality(M)))
  BY <1>3, <1>6, LeftTurnsAdd
<1>14. A + (e + Cardinality(M)) = ((a + j) \div KeyBytes) + 1
  BY <1>3, <1>5, <1>6
<1> QED BY <1>9, <1>10, <1>11, <1>12, <1>13, <1>14 DEF off, j

\* Turns that lead to the same SWID differ by whole circles, if it has no period.
LEMMA TurnsDiffer ==
  ASSUME NEW s \in Swid, Aperiodic(s), NEW i \in Nat, NEW j \in Nat,
         LeftTurns(s, i) = LeftTurns(s, j)
  PROVE  i % SwidBits = j % SwidBits
<1>1. ASSUME NEW r \in 0..(SwidBits - 1), NEW t \in 0..(SwidBits - 1),
             LeftTurns(s, r) = LeftTurns(s, t)
      PROVE  ~(r < t)
  <2> SUFFICES ASSUME r < t PROVE FALSE
    OBVIOUS
  <2>1. r \in Nat /\ t - r \in Nat /\ t - r \in 1..SwidBits - 1 /\ (t - r) + r = t
    BY SwidBitsPositive
  <2>2. LeftTurns(LeftTurns(s, t - r), r) = LeftTurns(s, t)
    BY <2>1, LeftTurnsAdd
  <2>3. LeftTurns(s, t - r) \in Swid
    BY <2>1, LeftTurnsType
  <2>4. /\ RightTurns(LeftTurns(LeftTurns(s, t - r), r), r) = LeftTurns(s, t - r)
        /\ RightTurns(LeftTurns(s, r), r) = s
    BY <2>1, <2>3, RightTurnsBack
  <2>5. LeftTurns(s, t - r) = s
    BY <1>1, <2>2, <2>4
  <2> QED BY <2>1, <2>5 DEF Aperiodic
<1> DEFINE r == i % SwidBits
           t == j % SwidBits
<1>2. r \in 0..(SwidBits - 1) /\ t \in 0..(SwidBits - 1)
  BY SwidBitsPositive, DivMod
<1>3. LeftTurns(s, r) = LeftTurns(s, t)
  BY Circles
<1> HIDE DEF r, t
<1>4. ~(r < t) /\ ~(t < r)
  BY <1>1, <1>2, <1>3
<1>5. r = t
  BY <1>2, <1>4
<1> QED BY <1>5 DEF r, t

\* Where byte p of a file lies in its buffer and in its block.
LEMMA BufferOf ==
  ASSUME NEW p \in Nat
  PROVE  \E a \in Nat, q \in Nat :
           /\ (p \div Page) * Page = SwidBytes * a /\ p % Page = q
           /\ SwidBytes * a + q = p /\ q < Page /\ (SwidBytes * a) % Page = 0
           /\ a + (q \div SwidBytes) = p \div SwidBytes
           /\ q % SwidBytes = p % SwidBytes
<1> DEFINE b == SwidBytes
           n == Page \div b
           k == p \div Page
           q == p % Page
           a == n * k
           j == q \div b
           r == q % b
<1>1. b \in Nat \ {0} /\ Page \in Nat \ {0}
  BY Widths, FileCodeAssumption
<1>2. n \in Nat /\ Page = b * n
  BY <1>1, DivMultiple, WidthAssumption
<1>3. k \in Nat /\ q \in 0..(Page - 1) /\ p = Page * k + q
  BY <1>1, DivMod
<1> HIDE DEF n, k, q
<1>4. q \in Nat /\ q < Page
  BY <1>1, <1>3
<1>5. j \in Nat /\ r \in 0..(b - 1) /\ q = b * j + r
  BY <1>1, <1>4, DivMod
<1>p. \A x, y, z \in Nat : /\ x * y \in Nat /\ x * y = y * x
                           /\ (x * y) * z = x * (y * z) /\ x * (y + z) = x * y + x * z
  OBVIOUS
<1> HIDE DEF b, j, r
<1>6. a \in Nat /\ Page * k = b * a /\ k * Page = b * a /\ b * a \in Nat /\ b * j \in Nat
      /\ b * (a + j) = b * a + b * j
  <2>1. a \in Nat
    BY <1>2, <1>3, <1>p
  <2>2. b \in Nat /\ Page \in Nat
    BY <1>1
  <2>3. Page * k = b * a
    BY <1>2, <1>3, <1>p, <2>2
  <2>4. k * Page = Page * k
    BY <1>3, <1>p, <2>2
  <2> HIDE DEF a
  <2>5. b * a \in Nat /\ b * j \in Nat /\ b * (a + j) = b * a + b * j
    BY <1>5, <1>p, <2>1, <2>2
  <2> QED BY <2>1, <2>3, <2>4, <2>5
<1> HIDE DEF a
<1>7. p = b * a + q
  BY <1>3, <1>6
<1>8. p = b * (a + j) + r /\ a + j \in Nat
  <2>1. r \in Nat
    BY <1>1, <1>5
  <2> QED BY <1>5, <1>6, <1>7, <2>1
<1>9. p \div b = a + j /\ p % b = r
  BY <1>1, <1>5, <1>8, DivUnique
<1>10. (b * a) % Page = 0
  <2> DEFINE x == b * a
  <2>1. x \in Nat /\ x = Page * k + 0 /\ 0 \in 0..(Page - 1)
    BY <1>1, <1>3, <1>6
  <2> HIDE DEF x
  <2>2. x % Page = 0
    BY <1>1, <1>3, <2>1, DivUnique
  <2> QED BY <2>2 DEF x
<1>11. /\ k * Page = b * a /\ b * a + q = p /\ q < Page /\ (b * a) % Page = 0
       /\ a + j = p \div b /\ r = p % b
  BY <1>4, <1>6, <1>7, <1>9, <1>10
<1> QED BY <1>4, <1>6, <1>11 DEF b, k, q, j, r

\* The keys a block of the file meets, whatever the size of the buffers.
LEMMA KeysOfBlock ==
  ASSUME key \in Swid, company \in Swid, NEW b \in Nat
  PROVE  KeysOf(b) = <<LeftTurns(company, (b \div KeyBytes) + 1), LeftTurns(key, b + 1)>>
<1> DEFINE p == b * SwidBytes
           off == (p \div Page) * Page
           r == p % Page
<1>1. p \in Nat /\ p \div SwidBytes = b
  <2> DEFINE x == SwidBytes * b
  <2>1. SwidBytes \in Nat \ {0} /\ p = x
    BY Widths
  <2>2. x \in Nat
    BY PeriodOf
  <2>3. x \div SwidBytes = b
    <3>1. b \in Nat
      OBVIOUS
    <3> QED BY <3>1, Aligned
  <2> HIDE DEF p, x
  <2> QED BY <2>1, <2>2, <2>3
<1>2. KeysOf(b) = <<PublicKeyAt(company, Page, off, r), PrivateKeyAt(key, Page, off, r)>>
  BY DEF KeysOf
<1> HIDE DEF p
<1>3. PICK a \in Nat, q \in Nat :
        /\ off = SwidBytes * a /\ r = q
        /\ a + (q \div SwidBytes) = b
  BY <1>1, BufferOf
<1> HIDE DEF off, r
<1>4. /\ PublicKeyAt(company, Page, off, r)
           = LeftTurns(company, ((a + (q \div SwidBytes)) \div KeyBytes) + 1)
      /\ PrivateKeyAt(key, Page, off, r)
           = LeftTurns(key, (a + (q \div SwidBytes)) + 1)
  BY <1>3, PublicTurned, PrivateTurned
<1> QED BY <1>2, <1>3, <1>4

\* No two blocks in the range the comment of encode1 names meet the same keys.
LEMMA KeysDiffer ==
  ASSUME key \in Swid, company \in Swid
  PROVE  NoKeyTwice
<1> SUFFICES ASSUME Aperiodic(key), Aperiodic(company)
             PROVE  Cardinality({KeysOf(b) : b \in 0..(KeyBytes * KeyBytes) - 1})
                      = KeyBytes * KeyBytes
  BY DEF NoKeyTwice
<1> DEFINE k == KeyBytes
           N == k * k
           B == 0..(N - 1)
           T == {KeysOf(b) : b \in B}
           f == [b \in B |-> KeysOf(b)]
<1>1. k \in Nat \ {0} /\ N \in Nat \ {0} /\ k = SwidBits
  <2>1. k \in Nat \ {0} /\ k = SwidBits
    BY Widths, WidthAssumption
  <2>2. \A x, y \in Nat \ {0} : x * y \in Nat \ {0}
    OBVIOUS
  <2> HIDE DEF k
  <2> QED BY <2>1, <2>2
<1>2. ASSUME NEW b \in B
      PROVE  /\ b \in Nat /\ b \div k \in 0..(k - 1) /\ b % k \in 0..(k - 1)
             /\ b = k * (b \div k) + (b % k)
  <2> HIDE DEF k
  <2>1. b \in Nat /\ b < N
    BY <1>1
  <2> DEFINE q == b \div k
             r == b % k
  <2>2. q \in Nat /\ r \in 0..(k - 1) /\ b = k * q + r
    BY <1>1, <2>1, DivMod
  <2> HIDE DEF q, r
  <2>3. q < k
    <3> SUFFICES ASSUME ~(q < k) PROVE FALSE
      OBVIOUS
    <3>1. q = k \/ k * k + k <= k * q
      BY <1>1, <2>2, LessTimes
    <3>2. k * q \in Nat /\ k * q <= b
      <4>1. \A x, y \in Nat : x * y \in Nat
        OBVIOUS
      <4>2. k * q \in Nat
        BY <1>1, <2>2, <4>1
      <4> QED BY <1>1, <2>2, <4>2
    <3> QED BY <1>1, <2>1, <3>1, <3>2
  <2>4. q \in 0..(k - 1)
    BY <1>1, <2>2, <2>3
  <2> QED BY <2>1, <2>2, <2>4 DEF q, r
<1>3. ASSUME NEW x \in Nat, NEW y \in Nat, (x + 1) % k = (y + 1) % k
      PROVE  x % k = y % k
  <2> HIDE DEF k
  <2>1. /\ (x + 1) % k = IF x % k = k - 1 THEN 0 ELSE (x % k) + 1
        /\ (y + 1) % k = IF y % k = k - 1 THEN 0 ELSE (y % k) + 1
    BY <1>1, DivNext
  <2> DEFINE v == x % k
             w == y % k
  <2>2. v \in 0..(k - 1) /\ w \in 0..(k - 1)
    BY <1>1, DivMod
  <2>3. (IF v = k - 1 THEN 0 ELSE v + 1) = (IF w = k - 1 THEN 0 ELSE w + 1)
    BY <1>3, <2>1
  <2> HIDE DEF v, w
  <2>4. v = w
    BY <1>1, <2>2, <2>3
  <2> QED BY <2>4 DEF v, w
<1>4. ASSUME NEW b \in B, NEW c \in B, KeysOf(b) = KeysOf(c)
      PROVE  b = c
  <2>1. /\ b \in Nat /\ b \div k \in 0..(k - 1) /\ b % k \in 0..(k - 1)
        /\ b = k * (b \div k) + (b % k)
        /\ c \in Nat /\ c \div k \in 0..(k - 1) /\ c % k \in 0..(k - 1)
        /\ c = k * (c \div k) + (c % k)
    BY <1>2
  <2>2. /\ LeftTurns(company, (b \div k) + 1) = LeftTurns(company, (c \div k) + 1)
        /\ LeftTurns(key, b + 1) = LeftTurns(key, c + 1)
    BY <1>4, <2>1, KeysOfBlock
  <2>3. b \div k \in Nat /\ c \div k \in Nat
    BY <1>1, <2>1
  <2>4. \A n \in Nat : n + 1 \in Nat
    OBVIOUS
  <2>5. (b + 1) % k = (c + 1) % k
    BY <1>1, <2>1, <2>2, <2>4, TurnsDiffer
  <2>6. ((b \div k) + 1) % k = ((c \div k) + 1) % k
    BY <1>1, <2>2, <2>3, <2>4, TurnsDiffer
  <2>7. b % k = c % k
    BY <1>3, <2>1, <2>5
  <2>8. (b \div k) % k = (c \div k) % k
    BY <1>3, <2>3, <2>6
  <2>9. \A n \in 0..(k - 1) : n % k = n
    <3> HIDE DEF k
    <3> QED BY <1>1
  <2>10. b \div k = c \div k
    BY <2>1, <2>8, <2>9
  <2> QED BY <2>1, <2>7, <2>10
<1> HIDE DEF k, N
<1>5. f \in Surjection(B, T) /\ f \in Injection(B, T)
  BY <1>4 DEF Surjection, Injection, IsInjective
<1>6. IsFiniteSet(B) /\ Cardinality(B) = N
  BY <1>1, FS_Interval
<1> HIDE DEF f, T, B
<1>7. Cardinality(T) = N
  BY <1>5, <1>6, FS_Surjection
<1> QED BY <1>7 DEF T, B, N, k

-----------------------------------------------------------------------------
(* Whole files.                                                            *)

USE FileCodeAssumption

\* An encoded buffer has as many bytes as the buffer.
LEMMA SwappedType ==
  ASSUME NEW byte \in Byte, NEW len, NEW off, NEW q
  PROVE  Swapped(byte, len, off, q) \in Byte
BY MateTwice DEF Swapped, Swap, Byte

LEMMA EncodeType ==
  ASSUME NEW buffer \in Seq(Byte), NEW off, NEW private, NEW public
  PROVE  /\ encode1(buffer, off, private, public) \in Seq(Byte)
         /\ Len(encode1(buffer, off, private, public)) = Len(buffer)
<1> DEFINE len == Len(buffer)
           c(p) == Xor(Swapped(Xor(buffer[p], PublicByte(public, len, off, p - 1)),
                               len, off, p - 1),
                       PrivateByte(private, len, off, p - 1))
<1>1. encode1(buffer, off, private, public) = [p \in 1..len |-> c(p)] /\ len \in Nat
  BY DEF encode1
<1>2. ASSUME NEW p \in 1..len PROVE c(p) \in Byte
  BY XorByte, KeyByteType, SwappedType DEF PublicByte, PrivateByte
<1> HIDE DEF c
<1> QED BY <1>1, <1>2

\* The buffer that is read at an offset inside the file.
LEMMA PieceType ==
  ASSUME NEW f \in Seq(Byte), NEW o \in 0..Len(f)
  PROVE  /\ Piece(f, o) \in Seq(Byte)
         /\ Len(Piece(f, o)) = IF o + Page < Len(f) THEN Page ELSE Len(f) - o
         /\ \A i \in 1..Len(Piece(f, o)) : Piece(f, o)[i] = f[o + i]
<1> DEFINE e == IF o + Page < Len(f) THEN o + Page ELSE Len(f)
<1>1. e \in Nat /\ o \in Nat /\ e >= o /\ e <= Len(f) /\ Len(f) \in Nat
  OBVIOUS
<1>2. \A i \in (o + 1)..e : f[i] \in Byte
  BY <1>1
<1>3. /\ SubSeq(f, o + 1, e) \in Seq(Byte)
      /\ Len(SubSeq(f, o + 1, e)) = IF o + 1 <= e THEN e - (o + 1) + 1 ELSE 0
      /\ \A i \in 1..(e - (o + 1) + 1) : SubSeq(f, o + 1, e)[i] = f[(o + 1) + i - 1]
  <2> HIDE DEF e
  <2> QED BY <1>1, <1>2, SubSeqProperties
<1> QED BY <1>1, <1>3 DEF Piece

\* A buffer that is read in full.
LEMMA PieceWhole ==
  ASSUME NEW f \in Seq(Byte), NEW o \in Nat, o + Page <= Len(f)
  PROVE  /\ Piece(f, o) \in Seq(Byte)
         /\ Len(Piece(f, o)) = Page
         /\ \A i \in 1..Page : Piece(f, o)[i] = f[o + i]
<1>1. Len(f) \in Nat /\ Page \in Nat /\ o \in 0..Len(f)
  OBVIOUS
<1>2. (IF o + Page < Len(f) THEN Page ELSE Len(f) - o) = Page
  BY <1>1
<1>3. Len(Piece(f, o)) = Page
  BY <1>1, <1>2, PieceType
<1> QED BY <1>1, <1>3, PieceType

\* A buffer that lies within the first of two parts of a file.
LEMMA PieceBefore ==
  ASSUME NEW c \in Seq(Byte), NEW x \in Seq(Byte), NEW o \in Nat, o + Page <= Len(c)
  PROVE  Piece(c \o x, o) = Piece(c, o)
<1> DEFINE f == c \o x
<1>1. /\ f \in Seq(Byte) /\ Len(f) = Len(c) + Len(x) /\ Len(c) \in Nat /\ Len(x) \in Nat
      /\ \A i \in 1..Len(c) : f[i] = c[i]
  BY ConcatProperties
<1> HIDE DEF f
<1>2. /\ Piece(f, o) \in Seq(Byte) /\ Len(Piece(f, o)) = Page
      /\ \A i \in 1..Page : Piece(f, o)[i] = f[o + i]
  BY <1>1, PieceWhole
<1>3. /\ Piece(c, o) \in Seq(Byte) /\ Len(Piece(c, o)) = Page
      /\ \A i \in 1..Page : Piece(c, o)[i] = c[o + i]
  BY PieceWhole
<1>4. \A i \in 1..Page : o + i \in 1..Len(c)
  BY <1>1
<1>5. \A i \in 1..Page : Piece(f, o)[i] = Piece(c, o)[i]
  BY <1>1, <1>2, <1>3, <1>4
<1>6. Piece(f, o) = Piece(c, o)
  BY <1>2, <1>3, <1>5, SeqEqual
<1> QED BY <1>6 DEF f

\* The buffer that was written last.
LEMMA PieceAfter ==
  ASSUME NEW c \in Seq(Byte), NEW x \in Seq(Byte), Len(x) <= Page
  PROVE  Piece(c \o x, Len(c)) = x
<1> DEFINE f == c \o x
           o == Len(c)
<1>1. /\ f \in Seq(Byte) /\ Len(f) = o + Len(x) /\ o \in Nat /\ Len(x) \in Nat
      /\ \A i \in 1..Len(x) : f[o + i] = x[i]
  BY ConcatProperties
<1> HIDE DEF f, o
<1>2. /\ Piece(f, o) \in Seq(Byte) /\ Len(Piece(f, o)) = Len(x)
      /\ \A i \in 1..Len(x) : Piece(f, o)[i] = f[o + i]
  <2>1. o \in 0..Len(f) /\ (IF o + Page < Len(f) THEN Page ELSE Len(f) - o) = Len(x)
    BY <1>1
  <2> QED BY <1>1, <2>1, PieceType
<1>3. Piece(f, o) = x
  BY <1>1, <1>2, SeqEqual
<1> QED BY <1>3 DEF f, o

\* A file up to an offset, and the buffer read there.
LEMMA PieceJoins ==
  ASSUME NEW f \in Seq(Byte), NEW o \in 0..Len(f)
  PROVE  SubSeq(f, 1, o) \o Piece(f, o) = SubSeq(f, 1, o + Len(Piece(f, o)))
<1> DEFINE e == IF o + Page < Len(f) THEN o + Page ELSE Len(f)
<1>1. Len(f) \in Nat /\ o \in Nat
  OBVIOUS
<1>2. e \in o..Len(f)
  BY <1>1
<1>3. SubSeq(f, 1, o) \o SubSeq(f, o + 1, e) = SubSeq(f, 1, e)
  <2>1. 1 \in 1..Len(f) + 1 /\ o \in (1 - 1)..Len(f)
    BY <1>1
  <2> HIDE DEF e
  <2> QED BY <1>2, <2>1, ConcatAdjacentSubSeq
<1>4. o + Len(Piece(f, o)) = e
  <2>1. Len(Piece(f, o)) = IF o + Page < Len(f) THEN Page ELSE Len(f) - o
    BY PieceType
  <2> QED BY <1>1, <2>1
<1> QED BY <1>3, <1>4 DEF Piece

\* An offset is followed by that of the next buffer, or by the end of the file.
LEMMA NextOffset ==
  ASSUME NEW f \in Seq(Byte), NEW o \in Nat, o < Len(f), o % Page = 0
  PROVE  LET n == o + Len(Piece(f, o)) IN
         /\ n \in 0..Len(f) /\ (n % Page = 0 \/ n = Len(f))
         /\ \A b \in 0..(n - 1) : b % Page = 0 => b = o \/ b + Page <= o
<1> DEFINE n == o + Len(Piece(f, o))
<1>1. Len(f) \in Nat
  OBVIOUS
<1>2. n = IF o + Page < Len(f) THEN o + Page ELSE Len(f)
  <2>1. o \in 0..Len(f)
    BY <1>1
  <2> QED BY <1>1, <2>1, PieceType
<1>3. (o + Page) % Page = 0
  BY Multiples
<1>4. ASSUME NEW b \in 0..(n - 1), b % Page = 0 PROVE b = o \/ b + Page <= o
  <2>1. b \in Nat /\ b < o + Page /\ Page \in Nat
    <3> HIDE DEF n
    <3> QED BY <1>1, <1>2
  <2>2. o < b => o + Page <= b
    BY <1>4, <2>1, Multiples
  <2>3. b < o => b + Page <= o
    BY <1>4, <2>1, Multiples
  <2> QED BY <2>1, <2>2, <2>3
<1> HIDE DEF n
<1>5. n \in 0..Len(f) /\ (n % Page = 0 \/ n = Len(f))
  <2>1. CASE o + Page < Len(f)
    BY <1>1, <1>2, <1>3, <2>1
  <2>2. CASE ~(o + Page < Len(f))
    BY <1>1, <1>2, <2>2
  <2> QED BY <2>1, <2>2
<1> QED BY <1>4, <1>5 DEF n

-----------------------------------------------------------------------------
(* One lemma for each action: it preserves CopyInv.                        *)

LEMMA ReadIsPiece == ASSUME NEW f PROVE Read(f) = Piece(f, offset)
BY DEF Read, Piece

LEMMA InitCopy == Init => CopyInv
<1> SUFFICES ASSUME Init PROVE CopyInv
  OBVIOUS
<1>1. document \in Seq(Byte) /\ key \in Swid /\ company \in Swid
  BY DEF Init
<1>2. /\ cipher = <<>> /\ offset = 0 /\ phase = "new" /\ plain = <<>>
      /\ cipher \in Seq(Byte) /\ Len(cipher) = 0
  BY DEF Init
<1>3. Len(document) \in Nat /\ 0 % Page = 0
  BY <1>1
<1>4. Encoded(0)
  BY DEF Encoded
<1> QED BY <1>1, <1>2, <1>3, <1>4 DEF CopyInv, RoundTrip

LEMMA WriteHeadCopy ==
  ASSUME CopyInv, WriteHead
  PROVE  CopyInv'
<1>1. /\ phase = "new" /\ phase' = "encrypt" /\ head' = Enhead(Header)
      /\ UNCHANGED <<document, key, company, cipher, plain, offset>>
  BY DEF WriteHead, Header
<1>2. Encoded(offset)' = Encoded(offset) /\ Header' = Header
  BY <1>1 DEF Encoded, Header
<1> QED BY <1>1, <1>2 DEF CopyInv, RoundTrip

LEMMA EncryptPageCopy ==
  ASSUME CopyInv, EncryptPage
  PROVE  CopyInv'
<1> DEFINE p == Piece(document, offset)
           x == encode1(p, offset, key, company)
           n == offset + Len(p)
<1>1. /\ phase = "encrypt" /\ offset < Len(document) /\ cipher' = cipher \o x
      /\ offset' = n
      /\ UNCHANGED <<document, key, company, head, plain, phase>>
  BY ReadIsPiece DEF EncryptPage
<1>2. /\ document \in Seq(Byte) /\ cipher \in Seq(Byte) /\ key \in Swid /\ company \in Swid
      /\ offset \in Nat /\ Len(document) \in Nat /\ offset \in 0..Len(document)
      /\ offset % Page = 0
      /\ Len(cipher) = offset /\ Encoded(offset) /\ head = Enhead(Header) /\ plain = <<>>
  BY <1>1 DEF CopyInv
<1>3. p \in Seq(Byte) /\ Len(p) \in Nat /\ Len(p) <= Page
  BY <1>2, PieceType
<1> HIDE DEF p
<1>4. x \in Seq(Byte) /\ Len(x) = Len(p)
  BY <1>3, EncodeType
<1>5. /\ n \in 0..Len(document) /\ (n % Page = 0 \/ n = Len(document))
      /\ \A b \in 0..(n - 1) : b % Page = 0 => b = offset \/ b + Page <= offset
  BY <1>1, <1>2, NextOffset DEF p
<1> HIDE DEF x
<1>6. cipher' \in Seq(Byte) /\ Len(cipher') = n
  <2>1. cipher \o x \in Seq(Byte) /\ Len(cipher \o x) = Len(cipher) + Len(x)
    <3>1. cipher \in Seq(Byte) /\ x \in Seq(Byte)
      BY <1>2, <1>4
    <3> QED BY <3>1, ConcatProperties
  <2> QED BY <1>1, <1>2, <1>4, <2>1
<1>7. ASSUME NEW o \in 0..(n - 1), o % Page = 0
      PROVE  Piece(cipher', o) = encode1(Piece(document, o), o, key, company)
  <2>1. CASE o = offset
    <3>1. Piece(cipher', o) = x
      BY <1>1, <1>2, <1>3, <1>4, <2>1, PieceAfter
    <3> QED BY <2>1, <3>1 DEF x, p
  <2>2. CASE o + Page <= offset
    <3>1. o \in 0..(offset - 1) /\ o \in Nat
      BY <1>2, <2>2
    <3>2. Piece(cipher', o) = Piece(cipher, o)
      BY <1>1, <1>2, <1>4, <2>2, <3>1, PieceBefore
    <3> QED BY <1>2, <1>7, <3>1, <3>2 DEF Encoded
  <2> QED BY <1>5, <1>7, <2>1, <2>2
<1> HIDE DEF n
<1>8. Encoded(offset)'
  BY <1>1, <1>7 DEF Encoded
<1>9. Header' = Header
  BY <1>1 DEF Header
<1> QED BY <1>1, <1>2, <1>5, <1>6, <1>8, <1>9 DEF CopyInv, RoundTrip

LEMMA EncryptEndCopy ==
  ASSUME CopyInv, EncryptEnd
  PROVE  CopyInv'
<1>1. /\ phase = "encrypt" /\ offset = Len(document) /\ offset' = 0 /\ phase' = "encrypted"
      /\ UNCHANGED <<document, key, company, head, cipher, plain>>
  BY DEF EncryptEnd
<1>2. /\ document \in Seq(Byte) /\ Len(document) \in Nat
      /\ Len(cipher) = Len(document) /\ Encoded(Len(document))
  BY <1>1 DEF CopyInv
<1>3. Encoded(Len(document))' /\ Header' = Header /\ 0 % Page = 0
  BY <1>1, <1>2 DEF Encoded, Header
<1> QED BY <1>1, <1>2, <1>3 DEF CopyInv, RoundTrip

\* Dehead reads the header that WriteHead wrote.
LEMMA HeaderRead ==
  ASSUME CopyInv, phase # "new"
  PROVE  Dehead(head) = Header
<1>1. head = Enhead(Header) /\ key \in Swid /\ company \in Swid
  BY DEF CopyInv
<1> DEFINE code == [i \in {CompanyId, FileGroupId} |-> company]
<1>2. code \in [0..1 -> Swid] /\ 1 \in Nat
  <2>1. {CompanyId, FileGroupId} = 0..1
    BY DEF CompanyId, FileGroupId
  <2> QED BY <1>1, <2>1
<1>3. Header = [code |-> code, privateKey |-> key]
  BY DEF Header
<1> HIDE DEF code
<1> QED BY <1>1, <1>2, <1>3, DeheadEnhead

LEMMA ReadHeadCopy ==
  ASSUME CopyInv, ReadHead
  PROVE  CopyInv'
<1>1. /\ phase = "encrypted" /\ phase' \in {"decrypt", "refused"}
      /\ UNCHANGED <<document, key, company, head, cipher, plain, offset>>
  BY DEF ReadHead
<1>2. /\ document \in Seq(Byte) /\ offset = 0 /\ plain = <<>>
      /\ Len(cipher) = Len(document) /\ Encoded(Len(document))
  BY <1>1 DEF CopyInv
<1>3. Encoded(Len(document))' /\ Header' = Header
  BY <1>1, <1>2 DEF Encoded, Header
<1>4. SubSeq(document, 1, 0) = <<>>
  BY SubSeqEmpty
<1> QED BY <1>1, <1>2, <1>3, <1>4 DEF CopyInv, RoundTrip

LEMMA DecryptPageCopy ==
  ASSUME CopyInv, DecryptPage
  PROVE  CopyInv'
<1> DEFINE p == Piece(document, offset)
           x == encode1(p, offset, key, company)
           n == offset + Len(p)
<1>1. Header.privateKey = key /\ Header.code[CompanyId] = company
  BY DEF Header, CompanyId, FileGroupId
<1>2. phase = "decrypt" /\ offset < Len(cipher)
  BY DEF DecryptPage
<1>3. /\ document \in Seq(Byte) /\ cipher \in Seq(Byte) /\ key \in Swid /\ company \in Swid
      /\ offset \in Nat /\ Len(document) \in Nat /\ offset \in 0..Len(document)
      /\ Len(cipher) = Len(document) /\ Encoded(Len(document)) /\ head = Enhead(Header)
      /\ plain = SubSeq(document, 1, offset)
  BY <1>2 DEF CopyInv, RoundTrip
<1>4. offset % Page = 0 /\ offset \in 0..(Len(document) - 1)
  BY <1>2, <1>3 DEF CopyInv
<1>5. Piece(cipher, offset) = x
  BY <1>3, <1>4 DEF Encoded
<1>6. p \in Seq(Byte) /\ Len(p) \in Nat
  BY <1>3, PieceType
<1>7. Len(x) = Len(p) /\ decode1(x, offset, key, company) = p
  <2> HIDE DEF p
  <2> QED BY <1>6, EncodeType, DecodeEncode
<1>8. /\ plain' = plain \o decode1(Piece(cipher, offset), offset,
                                   Dehead(head).privateKey, Dehead(head).code[CompanyId])
      /\ offset' = offset + Len(Piece(cipher, offset))
      /\ UNCHANGED <<document, key, company, head, cipher, phase>>
  BY ReadIsPiece DEF DecryptPage
<1>9. Dehead(head) = Header
  BY <1>2, HeaderRead
<1>10. plain' = plain \o p /\ offset' = n
  BY <1>1, <1>5, <1>7, <1>8, <1>9
<1>11. plain' = SubSeq(document, 1, n)
  BY <1>3, <1>10, PieceJoins
<1>12. n \in 0..Len(document) /\ (n % Page = 0 \/ n = Len(document))
  BY <1>3, <1>4, NextOffset
<1> HIDE DEF n
<1>13. Encoded(Len(document))' /\ Header' = Header
  BY <1>3, <1>8 DEF Encoded, Header
<1> QED BY <1>2, <1>3, <1>8, <1>10, <1>11, <1>12, <1>13 DEF CopyInv, RoundTrip

LEMMA DecryptEndCopy ==
  ASSUME CopyInv, DecryptEnd
  PROVE  CopyInv'
<1>1. /\ phase = "decrypt" /\ offset = Len(cipher) /\ phase' = "decrypted"
      /\ UNCHANGED <<document, key, company, head, cipher, plain, offset>>
  BY DEF DecryptEnd
<1>2. /\ document \in Seq(Byte)
      /\ Len(cipher) = Len(document) /\ Encoded(Len(document))
      /\ plain = SubSeq(document, 1, offset)
  BY <1>1 DEF CopyInv, RoundTrip
<1>3. plain = document
  BY <1>1, <1>2, SubSeqFull
<1>4. Encoded(Len(document))' /\ Header' = Header
  BY <1>1, <1>2 DEF Encoded, Header
<1> QED BY <1>1, <1>2, <1>3, <1>4 DEF CopyInv, RoundTrip

LEMMA CopyKept == Spec => []CopyInv
<1>1. Init => CopyInv
  BY InitCopy
<1>2. CopyInv /\ [Next]_vars => CopyInv'
  <2> SUFFICES ASSUME CopyInv, [Next]_vars PROVE CopyInv'
    OBVIOUS
  <2>1. CASE WriteHead
    BY <2>1, WriteHeadCopy
  <2>2. CASE EncryptPage
    BY <2>2, EncryptPageCopy
  <2>3. CASE EncryptEnd
    BY <2>3, EncryptEndCopy
  <2>4. CASE ReadHead
    BY <2>4, ReadHeadCopy
  <2>5. CASE DecryptPage
    BY <2>5, DecryptPageCopy
  <2>6. CASE DecryptEnd
    BY <2>6, DecryptEndCopy
  <2>7. CASE UNCHANGED vars
    BY <2>7 DEF CopyInv, RoundTrip, Encoded, Piece, Header, vars
  <2> QED BY <2>1, <2>2, <2>3, <2>4, <2>5, <2>6, <2>7 DEF Next
<1> QED BY <1>1, <1>2, PTL DEF Spec

\* Decrypting gives back the document, whatever its bytes, its length, the keys and
\* the size of the buffer (SafeWallEncryptFile, SafeWallDecryptFile).
THEOREM DocumentComesBack == Spec => []RoundTrip
<1>1. CopyInv => RoundTrip
  BY DEF CopyInv
<1> QED BY <1>1, CopyKept, PTL

-----------------------------------------------------------------------------
HIDE FileCodeAssumption

(* What does not depend on the size of the buffers.                        *)

\* Byte q of a buffer is byte p of the file: it meets the same keys, and is in a
\* whole block of the one just when it is in one of the other.
LEMMA SameByte ==
  ASSUME key \in Swid, company \in Swid,
         NEW n \in Nat, NEW p \in 0..(n - 1), NEW a \in Nat, NEW q \in Nat,
         SwidBytes * a + q = p, q < Page,
         a + (q \div SwidBytes) = p \div SwidBytes, q % SwidBytes = p % SwidBytes,
         NEW len, len = IF SwidBytes * a + Page < n THEN Page ELSE n - SwidBytes * a
  PROVE  LET off == SwidBytes * a IN
         /\ PublicByte(company, len, off, q) = PublicByte(company, n, 0, p)
         /\ PrivateByte(key, len, off, q) = PrivateByte(key, n, 0, p)
         /\ InBlock(len, off, q) <=> InBlock(n, 0, p)
<1> DEFINE b == SwidBytes
           off == b * a
           j == q \div b
           i == p \div b
<1>1. b \in Nat \ {0} /\ p \in Nat /\ off \in Nat /\ p < n /\ Page \in Nat \ {0}
  BY Widths, PeriodOf, FileCodeAssumption
<1>2. /\ HeadBytes(len, off) = 0 /\ Block(len, off, q) = j /\ KeyIndex(len, off, q) = q % b
      /\ j \in Nat
  BY Aligned
<1>3. /\ HeadBytes(n, 0) = 0 /\ Block(n, 0, p) = i /\ KeyIndex(n, 0, p) = p % b
      /\ i \in Nat
  <2>1. SwidBytes * 0 = 0 /\ 0 \in Nat
    BY Widths
  <2> QED BY <1>1, <2>1, Aligned
<1>4. ASSUME NEW s \in Swid
      PROVE  /\ PublicKeyAt(s, len, off, q) = PublicKeyAt(s, n, 0, p)
             /\ PrivateKeyAt(s, len, off, q) = PrivateKeyAt(s, n, 0, p)
  <2>1. /\ PublicKeyAt(s, len, off, q) = LeftTurns(s, ((a + j) \div KeyBytes) + 1)
        /\ PrivateKeyAt(s, len, off, q) = LeftTurns(s, (a + j) + 1)
    BY PublicTurned, PrivateTurned
  <2>2. SwidBytes * 0 = 0 /\ 0 \in Nat
    BY Widths
  <2>3. 0 + i = i
    BY <1>3
  <2>4. /\ PublicKeyAt(s, n, 0, p) = LeftTurns(s, ((0 + i) \div KeyBytes) + 1)
        /\ PrivateKeyAt(s, n, 0, p) = LeftTurns(s, (0 + i) + 1)
    BY <1>1, <2>2, PublicTurned, PrivateTurned
  <2> QED BY <2>1, <2>3, <2>4
<1>5. /\ PublicByte(company, len, off, q) = PublicByte(company, n, 0, p)
      /\ PrivateByte(key, len, off, q) = PrivateByte(key, n, 0, p)
  BY <1>2, <1>3, <1>4 DEF PublicByte, PrivateByte
<1>6. /\ InBlock(len, off, q) <=> j < len \div b
      /\ InBlock(n, 0, p) <=> i < n \div b
  <2>1. len - 0 = len /\ n - 0 = n /\ 0 <= q /\ 0 <= p
    <3>1. len \in Int
      BY <1>1
    <3> QED BY <1>1, <3>1
  <2> HIDE DEF off, j, i
  <2> QED BY <1>2, <1>3, <2>1 DEF InBlock, b
<1>7. j < len \div b <=> i < n \div b
  <2>1. CASE off + Page < n
    <3> DEFINE m == Page \div b
               h == n \div b
               t == n % b
               r == q % b
    <3>1. m \in Nat /\ Page = b * m /\ len = Page
      BY <1>1, <2>1, DivMultiple, WidthAssumption
    <3>2. h \in Nat /\ t \in 0..(b - 1) /\ n = b * h + t
      BY <1>1, DivMod
    <3>3. r \in 0..(b - 1) /\ q = b * j + r
      BY <1>1, DivMod
    <3> HIDE DEF b, m, h, t, r, j
    <3>4. b * j \in Int /\ b * m \in Int /\ b * a \in Int /\ b * h \in Int
          /\ b * (a + m) = b * a + b * m
      BY <1>1, <1>2, <3>1, <3>2
    <3>5. j < m
      <4> SUFFICES ASSUME ~(j < m) PROVE FALSE
        OBVIOUS
      <4>1. j = m \/ b * m + b <= b * j
        BY <1>1, <1>2, <3>1, LessTimes
      <4> QED BY <1>1, <3>1, <3>3, <3>4, <4>1
    <3>6. a + m <= h
      <4> SUFFICES ASSUME ~(a + m <= h) PROVE FALSE
        OBVIOUS
      <4>1. b * h + b <= b * (a + m)
        BY <1>1, <3>1, <3>2, LessTimes
      <4>2. b * a + b * m < n
        BY <2>1, <3>1
      <4> QED BY <1>1, <3>2, <3>4, <4>1, <4>2
    <3>7. i = a + j
      BY DEF b, j
    <3>8. j < m /\ i < h
      BY <1>2, <3>1, <3>2, <3>5, <3>6, <3>7
    <3> QED BY <3>1, <3>8 DEF m, h
  <2>2. CASE ~(off + Page < n)
    <3> DEFINE l == len \div b
               r == len % b
    <3>1. len \in Nat /\ n = b * a + len
      BY <1>1, <2>2
    <3>2. l \in Nat /\ r \in 0..(b - 1) /\ len = b * l + r
      BY <1>1, <3>1, DivMod
    <3> HIDE DEF b, l, r, j, i
    <3>3. n = b * (a + l) + r /\ a + l \in Nat
      <4>1. b * (a + l) = b * a + b * l /\ b * a \in Int /\ b * l \in Int /\ r \in Int
        BY <1>1, <3>2
      <4> QED BY <3>1, <3>2, <4>1
    <3>4. n \div b = a + l
      <4> DEFINE h == a + l
      <4>1. h \in Nat /\ n = b * h + r
        BY <3>3
      <4>2. b \in Nat \ {0} /\ n \in Nat /\ r \in 0..(b - 1)
        BY <1>1, <3>2
      <4> HIDE DEF h
      <4>3. n \div b = h
        BY <4>1, <4>2, DivUnique
      <4> QED BY <4>3 DEF h
    <3>5. i = a + j
      BY DEF b, j, i
    <3> QED BY <1>2, <3>2, <3>4, <3>5 DEF l
  <2> QED BY <2>1, <2>2
<1> QED BY <1>5, <1>6, <1>7

\* One byte of a buffer is encoded as it would be in the whole file.
LEMMA SameCode ==
  ASSUME key \in Swid, company \in Swid, document \in Seq(Byte),
         NEW p \in 0..(Len(document) - 1),
         NEW a \in Nat, NEW q \in Nat,
         SwidBytes * a + q = p, q < Page,
         a + (q \div SwidBytes) = p \div SwidBytes, q % SwidBytes = p % SwidBytes
  PROVE  LET o == SwidBytes * a IN
         encode1(Piece(document, o), o, key, company)[q + 1]
           = encode1(document, 0, key, company)[p + 1]
<1> DEFINE o == SwidBytes * a
           n == Len(document)
           x == Piece(document, o)
           len == Len(x)
<1>1. /\ o \in Nat /\ n \in Nat /\ Page \in Nat /\ p \in Nat /\ p < n
      /\ o \in 0..n /\ o + q = p
  <2>1. o \in Nat
    BY PeriodOf
  <2> HIDE DEF o
  <2>2. o + q = p
    BY DEF o
  <2> QED BY <2>1, <2>2, FileCodeAssumption
<1>2. /\ len = IF o + Page < n THEN Page ELSE n - o
      /\ \A k \in 1..len : x[k] = document[o + k]
  <2> HIDE DEF o
  <2> QED BY <1>1, PieceType
<1>3. /\ PublicByte(company, len, o, q) = PublicByte(company, n, 0, p)
      /\ PrivateByte(key, len, o, q) = PrivateByte(key, n, 0, p)
      /\ InBlock(len, o, q) <=> InBlock(n, 0, p)
  <2> HIDE DEF x
  <2> DEFINE l == len
  <2>1. n \in Nat /\ p \in 0..(n - 1) /\ l = IF SwidBytes * a + Page < n THEN Page ELSE n - SwidBytes * a
    BY <1>1, <1>2
  <2> HIDE DEF l, n, o
  <2>2. /\ PublicByte(company, l, SwidBytes * a, q) = PublicByte(company, n, 0, p)
        /\ PrivateByte(key, l, SwidBytes * a, q) = PrivateByte(key, n, 0, p)
        /\ InBlock(l, SwidBytes * a, q) <=> InBlock(n, 0, p)
    BY <2>1, SameByte
  <2> QED BY <2>2 DEF l, o
<1> HIDE DEF o, x
<1>4. q + 1 \in 1..len /\ p + 1 \in 1..n /\ (q + 1) - 1 = q /\ (p + 1) - 1 = p
      /\ x[q + 1] = document[p + 1]
  <2>1. q + 1 \in 1..len
    BY <1>1, <1>2
  <2>2. o + (q + 1) = p + 1
    BY <1>1
  <2>3. x[q + 1] = document[o + (q + 1)]
    BY <1>2, <2>1
  <2>4. q + 1 \in 1..len /\ x[q + 1] = document[p + 1]
    BY <2>1, <2>2, <2>3
  <2> HIDE DEF n, x, o
  <2>5. p + 1 \in 1..n /\ (q + 1) - 1 = q /\ (p + 1) - 1 = p
    BY <1>1
  <2> QED BY <2>4, <2>5
<1> HIDE DEF n
<1>5. encode1(x, o, key, company)[q + 1]
        = Xor(Swapped(Xor(x[q + 1], PublicByte(company, len, o, q)), len, o, q),
              PrivateByte(key, len, o, q))
  BY <1>4 DEF encode1
<1>6. encode1(document, 0, key, company)[p + 1]
        = Xor(Swapped(Xor(document[p + 1], PublicByte(company, n, 0, p)), n, 0, p),
              PrivateByte(key, n, 0, p))
  BY <1>4 DEF encode1, n
<1>7. \A byte : Swapped(byte, len, o, q) = Swapped(byte, n, 0, p)
  BY <1>3 DEF Swapped
<1> HIDE DEF len
<1>8. encode1(x, o, key, company)[q + 1] = encode1(document, 0, key, company)[p + 1]
  BY <1>3, <1>4, <1>5, <1>6, <1>7
<1> QED BY <1>8 DEF x, o

LEMMA PagesDoNotMatter ==
  ASSUME CopyInv
  PROVE  PageIndependent
<1> SUFFICES ASSUME phase = "encrypted"
             PROVE  cipher = encode1(document, 0, key, company)
  BY DEF PageIndependent
<1> DEFINE n == Len(document)
           code == encode1(document, 0, key, company)
<1>1. /\ document \in Seq(Byte) /\ cipher \in Seq(Byte) /\ key \in Swid /\ company \in Swid
      /\ n \in Nat /\ Len(cipher) = n /\ Encoded(n) /\ Page \in Nat \ {0}
  BY FileCodeAssumption DEF CopyInv
<1>2. code \in Seq(Byte) /\ Len(code) = n
  BY <1>1, EncodeType
<1>3. ASSUME NEW i \in 1..n PROVE cipher[i] = code[i]
  <2> DEFINE p == i - 1
  <2>1. p \in Nat /\ p \in 0..(n - 1) /\ p + 1 = i
    BY <1>1
  <2> HIDE DEF p
  <2>2. PICK a \in Nat, q \in Nat :
          /\ SwidBytes * a + q = p /\ q < Page /\ (SwidBytes * a) % Page = 0
          /\ a + (q \div SwidBytes) = p \div SwidBytes
          /\ q % SwidBytes = p % SwidBytes
    BY <2>1, BufferOf
  <2> DEFINE o == SwidBytes * a
  <2>3. o \in Nat /\ o + q = p /\ o % Page = 0
    BY <2>2, PeriodOf
  <2>4. encode1(Piece(document, o), o, key, company)[q + 1] = code[p + 1]
    BY <1>1, <2>1, <2>2, SameCode
  <2> HIDE DEF o, code
  <2>5. o \in 0..(n - 1) /\ o \in 0..n /\ o + (q + 1) = i
    BY <1>1, <2>1, <2>3
  <2>6. Piece(cipher, o) = encode1(Piece(document, o), o, key, company)
    BY <1>1, <2>3, <2>5 DEF Encoded
  <2>7. q + 1 \in 1..Len(Piece(cipher, o)) /\ Piece(cipher, o)[q + 1] = cipher[o + (q + 1)]
    <3> HIDE DEF n
    <3>1. o \in 0..Len(cipher)
      BY <1>1, <2>5
    <3>2. /\ Len(Piece(cipher, o)) = IF o + Page < n THEN Page ELSE n - o
          /\ \A k \in 1..Len(Piece(cipher, o)) : Piece(cipher, o)[k] = cipher[o + k]
      BY <1>1, <3>1, PieceType
    <3>3. q + 1 \in 1..Len(Piece(cipher, o))
      BY <1>1, <2>1, <2>2, <2>3, <3>2
    <3> QED BY <3>2, <3>3
  <2> QED BY <2>1, <2>4, <2>5, <2>6, <2>7
<1> HIDE DEF code, n
<1>4. cipher = code
  BY <1>1, <1>2, <1>3, SeqEqual
<1> QED BY <1>4 DEF code

-----------------------------------------------------------------------------

\* A file comes out the same whatever the size of the buffers it was encrypted with
\* (FILEPAGE_BUFFER_SIZE), as long as they take whole blocks.
THEOREM BuffersDoNotShow == Spec => []PageIndependent
<1>1. CopyInv => PageIndependent
  BY PagesDoNotMatter
<1> QED BY <1>1, CopyKept, PTL

\* What the comment of encode1 promises of its keys.
THEOREM KeysDoNotRepeat == Spec => []NoKeyTwice
<1>1. CopyInv => NoKeyTwice
  BY KeysDiffer DEF CopyInv
<1> QED BY <1>1, CopyKept, PTL

\* The quick turns of the driver are turns by single bits, and undo each other.
THEOREM TurnsAreTurns == Spec => []TurnsAgree
<1>1. CopyInv => TurnsAgree
  BY TurnsOfKey DEF CopyInv
<1> QED BY <1>1, CopyKept, PTL

=============================================================================
